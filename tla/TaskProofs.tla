----------------------------- MODULE TaskProofs -----------------------------
(***************************************************************************)
(* Proofs about what the tasks of a node run on: the runtime that executes *)
(* their promises, and the client that makes their calls of the chain.     *)
(*                                                                         *)
(* For any number of promises per call and any number of queues, the two   *)
(* queues implement one list of promises when no queue holds two calls,    *)
(* and a call sees the outcome of every promise before it.  The list is    *)
(* not the concatenation of the queues by itself: a call replaces the next *)
(* queue.  The invariant that makes it one is that the next queue is empty *)
(* as long as a call of the current queue is to come.                      *)
(*                                                                         *)
(* For any callers, runs, faults and time limits of the chain client, what *)
(* is reported as completed was executed, the commands of a setup follow   *)
(* each other, and a transaction is refused only for the nonce that        *)
(* another one of its signer has used; and no caller leaves its program or *)
(* its time limit.                                                         *)
(***************************************************************************)
EXTENDS PromiseRuntime, ChainClient, TLAPS

-----------------------------------------------------------------------------
(* The client of the chain.                                                *)

Places == {"idle", "view", "viewed", "not_viewed", "query", "send", "poll", "step_2"}
Signers == {"operator", "node"}

\* The calls that a program makes, and the transactions that carry them.
ProgramCalls == {call \in [from : Callers, run : Nat, step : 1..3] :
                    call.step <= Len(Program(call.from))}
Signed == [call : ProgramCalls, nonce : Nat \ {0}]
Final == succeeded \cup failed \cup dropped

ClientType ==
    /\ pc \in [Callers -> Places]
    /\ runs \in [Callers -> Nat]
    /\ step \in [Callers -> 1..3]
    /\ \A c \in Callers : step[c] <= Len(Program(c))
    /\ current \in [Callers -> Seq(Signed)]
    /\ nonce \in [Signers -> Nat]
    /\ pool \cup Final \subseteq Signed

\* A caller that sends or polls has signed the call that it is at.
SignedInv ==
    \A c \in Callers : pc[c] \in {"send", "poll"} =>
        current[c] # <<>> /\ current[c][1].call = Call(c)

ClientInv == ClientType /\ SignedInv /\ OkMeansExecuted

-----------------------------------------------------------------------------
\* The programs have one step or three, each signed by one of the two accounts.
LEMMA ProgramSteps ==
    ASSUME NEW c \in Callers
    PROVE  /\ Len(Program(c)) \in 1..3
           /\ \A k \in 1..Len(Program(c)) : Program(c)[k].signer \in Signers
  BY DEF Program, Setup, TopUp, Register, Stake, ChainCall, Signers

LEMMA NextStep ==
    ASSUME NEW k \in 1..3, NEW n \in 1..3, k < n
    PROVE  k + 1 \in 1..3 /\ k + 1 <= n
  OBVIOUS

LEMMA AccountType ==
    ASSUME NEW call \in ProgramCalls
    PROVE  Account(call) \in Signers
  BY ProgramSteps DEF Account, ProgramCalls

LEMMA CallType ==
    ASSUME ClientType, NEW c \in Callers
    PROVE  Call(c) \in ProgramCalls
  BY DEF ClientType, Call, ProgramCalls

-----------------------------------------------------------------------------
LEMMA ClientInvInit == Init => ClientInv
<1> SUFFICES ASSUME Init PROVE ClientInv
  OBVIOUS
<1>1. ClientType
  <2>1. \A c \in Callers : 1 <= Len(Program(c))
    BY ProgramSteps
  <2> QED BY <2>1 DEF Init, ClientType, Places, Signers, Final
<1>2. SignedInv /\ OkMeansExecuted
  BY DEF Init, SignedInv, OkMeansExecuted
<1> QED BY <1>1, <1>2 DEF ClientInv

\* A call that ends with an error, or with a value.
LEMMA StopKeeps ==
    ASSUME ClientInv, NEW c \in Callers, Stop(c), UNCHANGED <<runs, nonce, succeeded>>,
           pool' \cup Final' \subseteq Signed
    PROVE  ClientInv'
<1> USE DEF ClientInv, Stop, Tell, Return, GoTo
<1>1. Call(c) \in ProgramCalls
  BY CallType
<1>2. ClientType'
  BY <1>1 DEF ClientType, Places, Final
<1>3. SignedInv'
  BY DEF SignedInv, ClientType, Call
<1>4. OkMeansExecuted'
  BY <1>1 DEF OkMeansExecuted, ClientType
<1> QED BY <1>2, <1>3, <1>4

LEMMA ProceedKeeps ==
    ASSUME ClientInv, NEW c \in Callers, pc[c] = "poll", SuccessValue(current[c][1]),
           Tell(c, TRUE), Proceed(c), UNCHANGED <<runs, chain>>
    PROVE  ClientInv'
<1> USE DEF ClientInv, Tell, Proceed, Return, GoTo, chain
<1>1. Call(c) \in ProgramCalls /\ Len(Program(c)) \in 1..3
  BY CallType, ProgramSteps
<1>2. ClientType'
  <2>1. step' \in [Callers -> 1..3] /\ \A d \in Callers : step'[d] <= Len(Program(d))
    <3>1. CASE step[c] < Len(Program(c))
      <4>1. step' = [step EXCEPT ![c] = step[c] + 1]
        BY <3>1
      <4>2. step[c] \in 1..3 /\ step \in [Callers -> 1..3]
        BY DEF ClientType
      <4>3. step[c] + 1 \in 1..3 /\ step[c] + 1 <= Len(Program(c))
        BY <1>1, <3>1, <4>2, NextStep, Zenon
      <4> QED BY <4>1, <4>2, <4>3 DEF ClientType
    <3>2. CASE ~(step[c] < Len(Program(c)))
      BY <3>2 DEF ClientType
    <3> QED BY <3>1, <3>2
  <2>2. pc' \in [Callers -> Places]
    BY Zenon DEF ClientType, Places
  <2>3. current' \in [Callers -> Seq(Signed)]
    BY DEF ClientType
  <2> QED BY <2>1, <2>2, <2>3 DEF ClientType, Final
<1>3. SignedInv'
  BY DEF SignedInv, ClientType, Call
<1>4. OkMeansExecuted'
  <2>1. current[c][1] \in succeeded /\ current[c][1].call = Call(c)
    BY DEF SuccessValue, SignedInv
  <2> QED BY <2>1, <1>1 DEF OkMeansExecuted, ClientType
<1> QED BY <1>2, <1>3, <1>4

\* A step of caller c that signs nothing and ends no call.
Moves(c) == UNCHANGED <<current, told, chain>> /\ pc'[c] \notin {"send", "poll"}

LEMMA MoveKeeps ==
    ASSUME ClientInv, NEW c \in Callers, Moves(c),
           pc' = [pc EXCEPT ![c] = pc'[c]], pc'[c] \in Places,
           runs' \in [Callers -> Nat], step' \in [Callers -> 1..3],
           \A d \in Callers : step'[d] <= Len(Program(d)),
           \A d \in Callers \ {c} : runs'[d] = runs[d] /\ step'[d] = step[d]
    PROVE  ClientInv'
<1> USE DEF ClientInv, Moves, chain
<1>1. ClientType'
  BY Zenon DEF ClientType, Final
<1>2. SignedInv'
  BY Zenon DEF SignedInv, ClientType, Call
<1>3. OkMeansExecuted'
  BY DEF OkMeansExecuted
<1> QED BY <1>1, <1>2, <1>3

LEMMA BeginKeeps ==
    ASSUME ClientInv, NEW c \in Callers, Begin(c)
    PROVE  ClientInv'
<1>1. Moves(c) /\ pc' = [pc EXCEPT ![c] = pc'[c]] /\ pc'[c] \in Places
  BY DEF Begin, Moves, GoTo, Places, ClientInv, ClientType
<1>2. runs' \in [Callers -> Nat] /\ step' \in [Callers -> 1..3]
  BY DEF Begin, ClientInv, ClientType
<1>3. \A d \in Callers : step'[d] <= Len(Program(d))
  <2>1. step' = [step EXCEPT ![c] = 1] /\ step \in [Callers -> 1..3]
    BY DEF Begin, ClientInv, ClientType
  <2>2. 1 <= Len(Program(c))
    BY ProgramSteps
  <2> QED BY <2>1, <2>2 DEF ClientInv, ClientType
<1>4. \A d \in Callers \ {c} : runs'[d] = runs[d] /\ step'[d] = step[d]
  BY DEF Begin, ClientInv, ClientType
<1> QED BY <1>1, <1>2, <1>3, <1>4, MoveKeeps

\* The view and the steps of the bridge task.
Bridging(c) == chain_view(c) \/ bridge_step_1(c) \/ bridge_step_2(c)

LEMMA BridgingKeeps ==
    ASSUME ClientInv, NEW c \in Callers, Bridging(c)
    PROVE  ClientInv'
<1>1. UNCHANGED <<runs, step, current, told, chain>>
  BY DEF Bridging, chain_view, bridge_step_1, bridge_step_2
<1>2. /\ pc' = [pc EXCEPT ![c] = pc'[c]] /\ pc'[c] \in Places
      /\ pc'[c] \notin {"send", "poll"}
  BY DEF Bridging, chain_view, bridge_step_1, bridge_step_2, GoTo, Places, ClientInv, ClientType
<1> QED BY <1>1, <1>2, MoveKeeps, Zenon DEF Moves, ClientInv, ClientType

\* What construct_signed_tx signs.
LEMMA SignedType ==
    ASSUME ClientInv, NEW c \in Callers
    PROVE  /\ SignedTransaction(c) \in Signed
           /\ SignedTransaction(c).call = Call(c)
           /\ SignedTransaction(c).nonce = nonce[Account(Call(c))] + 1
<1>1. Call(c) \in ProgramCalls /\ Account(Call(c)) \in Signers
  BY CallType, AccountType DEF ClientInv
<1>2. nonce[Account(Call(c))] + 1 \in Nat \ {0}
  BY <1>1 DEF ClientInv, ClientType
<1> QED BY <1>1, <1>2 DEF SignedTransaction, NextNonce, Signed

LEMMA SignKeeps ==
    ASSUME ClientInv, NEW c \in Callers, construct_signed_tx(c)
    PROVE  ClientInv'
<1>1. CASE Stop(c) /\ UNCHANGED <<runs, chain>>
  BY <1>1, StopKeeps DEF chain, Final, ClientInv, ClientType
<1>2. CASE /\ current' = [current EXCEPT ![c] = <<SignedTransaction(c)>>]
           /\ GoTo(c, "send")
           /\ UNCHANGED <<runs, step, told, chain>>
  <2> USE <1>2, SignedType DEF GoTo, chain
  <2>1. ClientType'
    BY DEF ClientInv, ClientType, Places, Final
  <2>2. SignedInv'
    BY Zenon DEF ClientInv, ClientType, SignedInv, Call
  <2>3. OkMeansExecuted'
    BY Zenon DEF ClientInv, OkMeansExecuted
  <2> QED BY <2>1, <2>2, <2>3 DEF ClientInv
<1> QED BY <1>1, <1>2 DEF construct_signed_tx

LEMMA BroadcastKeeps ==
    ASSUME ClientInv, NEW c \in Callers, broadcast(c)
    PROVE  ClientInv'
<1>1. current[c][1] \in Signed
  BY DEF broadcast, ClientInv, ClientType, SignedInv
<1>2. pool' \cup Final' \subseteq Signed
  BY <1>1 DEF broadcast, ClientInv, ClientType, Final
<1>3. CASE Stop(c)
  BY <1>2, <1>3, StopKeeps DEF broadcast
<1>4. CASE GoTo(c, "poll") /\ UNCHANGED <<step, current, told>>
  <2> USE <1>4 DEF GoTo, broadcast
  <2>1. ClientType'
    BY <1>2 DEF ClientInv, ClientType, Places
  <2>2. SignedInv'
    BY DEF ClientInv, ClientType, SignedInv, Call
  <2>3. OkMeansExecuted'
    BY DEF ClientInv, OkMeansExecuted
  <2> QED BY <2>1, <2>2, <2>3 DEF ClientInv
<1> QED BY <1>3, <1>4 DEF broadcast

LEMMA PollKeeps ==
    ASSUME ClientInv, NEW c \in Callers, poll(c)
    PROVE  ClientInv'
<1>1. CASE Stop(c)
  BY <1>1, StopKeeps, Zenon DEF poll, chain, Final, ClientInv, ClientType
<1>2. CASE SuccessValue(current[c][1]) /\ Tell(c, TRUE) /\ Proceed(c)
  BY <1>2, ProceedKeeps, Zenon DEF poll
<1> QED BY <1>1, <1>2, Zenon DEF poll

LEMMA ProcessKeeps ==
    ASSUME ClientInv, Process
    PROVE  ClientInv'
<1> PICK t \in pool : /\ pool' = pool \ {t}
                      /\ Execute(t) \/ Refuse(t) \/ Lose(t)
                      /\ UNCHANGED <<caller, told>>
  BY DEF Process
<1>1. t \in Signed /\ Account(t.call) \in Signers
  BY AccountType DEF ClientInv, ClientType, Signed
<1>2. ClientType'
  <2>1. nonce' \in [Signers -> Nat]
    BY <1>1 DEF ClientInv, ClientType, Execute, Refuse, Lose, Signed
  <2>2. pool' \cup Final' \subseteq Signed
    BY <1>1 DEF ClientInv, ClientType, Execute, Refuse, Lose, Final
  <2> QED BY <2>1, <2>2 DEF ClientInv, ClientType, caller
<1>3. SignedInv'
  BY DEF ClientInv, SignedInv, Call, caller
<1>4. OkMeansExecuted'
  <2>1. succeeded \subseteq succeeded' /\ told' = told
    BY DEF Execute, Refuse, Lose
  <2> QED BY <2>1 DEF ClientInv, OkMeansExecuted
<1> QED BY <1>2, <1>3, <1>4 DEF ClientInv

LEMMA ClientInvStep == ClientInv /\ [Next]_vars => ClientInv'
<1> SUFFICES ASSUME ClientInv, [Next]_vars PROVE ClientInv'
  OBVIOUS
<1>1. CASE Process
  BY <1>1, ProcessKeeps
<1>2. ASSUME NEW c \in Callers, Begin(c) \/ Advance(c) PROVE ClientInv'
  <2>1. CASE Elapse(c)
    BY <2>1 DEF Elapse, chain, ClientInv, ClientType, SignedInv, OkMeansExecuted, Call, Final
  <2> QED BY <1>2, <2>1, BeginKeeps, BridgingKeeps, SignKeeps, BroadcastKeeps, PollKeeps
          DEF Advance, Bridging
<1>3. CASE UNCHANGED vars
  BY <1>3, Zenon DEF vars, caller, chain, ClientInv, ClientType, SignedInv, OkMeansExecuted, Call, Final
<1> QED BY <1>1, <1>2, <1>3 DEF Next

LEMMA ClientInvariant == Spec => []ClientInv
  BY ClientInvInit, ClientInvStep, PTL DEF Spec

\* A command that reports "Transaction has been completed", and a promise of a
\* chain call that is fulfilled, tell the truth, for any number of callers on
\* shared keys, runs, faults and any time limit (near_chain.rs:143-180).
THEOREM OkMeansExecutedHolds == Spec => []OkMeansExecuted
  BY ClientInvariant, PTL DEF ClientInv

-----------------------------------------------------------------------------
\* The order of the commands of a setup.
Before(call) == [call EXCEPT !.step = @ - 1]
Executed(call) == \E u \in succeeded : u.call = call

LEMMA BeforeNext ==
    ASSUME NEW c, NEW r, NEW k \in Int
    PROVE  Before([from |-> c, run |-> r, step |-> k + 1]) = [from |-> c, run |-> r, step |-> k]
  BY DEF Before

\* The command before the one that a caller is at was executed.
StepsInOrder == \A c \in Callers : step[c] > 1 => Executed(Before(Call(c)))
OrderInv == StepsInOrder /\ SetupInOrder

LEMMA SucceededKept ==
    ASSUME [Next]_vars
    PROVE  succeeded \subseteq succeeded'
<1>1. CASE Process
  BY <1>1 DEF Process, Execute, Refuse, Lose
<1>2. ASSUME NEW c \in Callers, Begin(c) \/ Advance(c) PROVE UNCHANGED succeeded
  BY <1>2, Zenon DEF Begin, Advance, chain_view, bridge_step_1, bridge_step_2, construct_signed_tx,
              broadcast, Elapse, poll, chain
<1> QED BY <1>1, <1>2 DEF Next, vars, chain

\* The transactions of a step are those there were, and one that is sent.
LEMMA SentOnly ==
    ASSUME [Next]_vars, NEW t \in pool' \cup Final'
    PROVE  \/ t \in pool \cup Final
           \/ \E c \in Callers : broadcast(c) /\ t = current[c][1]
<1>1. CASE Process
  BY <1>1, Zenon DEF Process, Execute, Refuse, Lose, Final
<1>2. ASSUME NEW c \in Callers, Begin(c) \/ Advance(c)
      PROVE  t \in pool \cup Final \/ (broadcast(c) /\ t = current[c][1])
  <2>1. CASE broadcast(c)
    BY <2>1 DEF broadcast, Final
  <2>2. CASE ~broadcast(c)
    BY <1>2, <2>2, Zenon DEF Begin, Advance, chain_view, bridge_step_1, bridge_step_2,
                      construct_signed_tx, Elapse, poll, chain, Final
  <2> QED BY <2>1, <2>2
<1> QED BY <1>1, <1>2, Zenon DEF Next, vars, chain, Final

\* A caller stays at its call, begins a run, or goes on after a success.
LEMMA CallOf ==
    ASSUME ClientInv, [Next]_vars, NEW c \in Callers
    PROVE  \/ runs'[c] = runs[c] /\ step'[c] = step[c]
           \/ runs'[c] = runs[c] + 1 /\ step'[c] = 1 /\ pc[c] = "idle"
           \/ /\ runs'[c] = runs[c] /\ step'[c] = step[c] + 1
              /\ pc[c] = "poll" /\ current[c][1] \in succeeded
<1>1. CASE Process
  BY <1>1, Zenon DEF Process, caller
<1>2. ASSUME NEW d \in Callers, Begin(d)
      PROVE  \/ runs'[c] = runs[c] /\ step'[c] = step[c]
             \/ runs'[c] = runs[c] + 1 /\ step'[c] = 1 /\ pc[c] = "idle"
  BY <1>2 DEF Begin, ClientInv, ClientType
<1>3. ASSUME NEW d \in Callers, Advance(d), d # c
      PROVE  runs'[c] = runs[c] /\ step'[c] = step[c]
  BY <1>3, Zenon DEF Advance, chain_view, bridge_step_1, bridge_step_2, construct_signed_tx,
              broadcast, Elapse, poll, Stop, Proceed, ClientInv, ClientType
<1>4. CASE Advance(c)
  BY <1>4, Zenon DEF Advance, chain_view, bridge_step_1, bridge_step_2, construct_signed_tx,
              broadcast, Elapse, poll, Stop, Proceed, SuccessValue, ClientInv, ClientType
<1> QED BY <1>1, <1>2, <1>3, <1>4 DEF Next, vars, caller

LEMMA OrderInvStep == ClientInv /\ OrderInv /\ [Next]_vars => OrderInv'
<1> SUFFICES ASSUME ClientInv, OrderInv, [Next]_vars PROVE OrderInv'
  OBVIOUS
<1>1. StepsInOrder'
  <2> SUFFICES ASSUME NEW c \in Callers, step'[c] > 1
               PROVE  \E u \in succeeded' : u.call = Before(Call(c)')
    BY DEF StepsInOrder, Executed
  <2>1. CASE runs'[c] = runs[c] /\ step'[c] = step[c]
    BY <2>1, SucceededKept, Zenon DEF OrderInv, StepsInOrder, Executed, Call
  <2>2. CASE /\ runs'[c] = runs[c] /\ step'[c] = step[c] + 1
             /\ pc[c] = "poll" /\ current[c][1] \in succeeded
    <3>1. current[c][1].call = Call(c)
      BY <2>2 DEF ClientInv, SignedInv
    <3>2. Before(Call(c)') = Call(c)
      <4>1. Call(c)' = [from |-> c, run |-> runs[c], step |-> step[c] + 1]
        BY <2>2 DEF Call
      <4>2. step[c] \in 1..3
        BY DEF ClientInv, ClientType
      <4> QED BY <4>1, <4>2, BeforeNext DEF Call
    <3> QED BY <2>2, <3>1, <3>2, SucceededKept
  <2>3. ~(step'[c] = 1)
    OBVIOUS
  <2> QED BY <2>1, <2>2, <2>3, CallOf, Zenon
<1>2. SetupInOrder'
  <2> SUFFICES ASSUME NEW t \in pool' \cup Final', t.call.step > 1
               PROVE  Executed(Before(t.call))
    BY SucceededKept, Zenon DEF SetupInOrder, Executed, Before, Final
  <2>1. CASE t \in pool \cup Final
    BY <2>1 DEF OrderInv, SetupInOrder, Executed, Before, Final
  <2>2. ASSUME NEW c \in Callers, broadcast(c), t = current[c][1]
        PROVE  Executed(Before(t.call))
    <3>1. t.call = Call(c)
      BY <2>2 DEF broadcast, ClientInv, SignedInv
    <3>2. step[c] > 1
      BY <3>1 DEF Call
    <3> QED BY <3>1, <3>2 DEF OrderInv, StepsInOrder
  <2> QED BY <2>1, <2>2, SentOnly
<1> QED BY <1>1, <1>2 DEF OrderInv

\* Setup::handle sends a command only after the one before it was executed to
\* success, for any number of runs, terminals and faults (setup.rs:37-51).
THEOREM SetupInOrderHolds == Spec => []SetupInOrder
<1>1. Init => OrderInv
  BY DEF Init, OrderInv, StepsInOrder, SetupInOrder
<1> QED BY <1>1, ClientInvariant, OrderInvStep, PTL DEF Spec, OrderInv

-----------------------------------------------------------------------------
\* Nonces: every call is sent at most once, nonces are at most one ahead of the
\* access key, and every nonce up to that of the key has been used.
Done == {"poll", "step_2", "idle"}
Past(call) ==
    \/ call.run < runs[call.from]
    \/ /\ call.run = runs[call.from]
       /\ \/ call.step < step[call.from]
          \/ call.step = step[call.from] /\ pc[call.from] \in Done

SentOnce == (\A t \in pool \cup Final : Past(t.call)) /\ pool \cap Final = {}

NonceBound ==
    /\ \A c \in Callers : pc[c] = "send" => current[c][1].nonce <= nonce[Account(Call(c))] + 1
    /\ \A t \in pool : t.nonce <= nonce[Account(t.call)] + 1

Used(a, n) == \E u \in succeeded \cup failed : Account(u.call) = a /\ u.nonce = n
NoGap == \A a \in Signers : \A n \in 1..nonce[a] : Used(a, n)

NonceInv == SentOnce /\ NonceBound /\ NoGap /\ RefusedOnlyForRival

\* A caller that is done with a call does not come back to it.
LEMMA DoneKept ==
    ASSUME ClientInv, [Next]_vars, NEW c \in Callers, pc[c] \in Done,
           runs'[c] = runs[c], step'[c] = step[c]
    PROVE  pc'[c] \in Done
<1>1. CASE Process
  BY <1>1 DEF Process, caller
<1>2. ASSUME NEW d \in Callers, Begin(d) \/ Advance(d), d # c PROVE pc'[c] = pc[c]
  BY <1>2, Zenon DEF Begin, Advance, chain_view, bridge_step_1, bridge_step_2, construct_signed_tx,
              broadcast, Elapse, poll, Stop, Proceed, GoTo, ClientInv, ClientType
<1>3. CASE Begin(c)
  <2>1. runs'[c] = runs[c] + 1 /\ runs[c] \in Nat
    BY <1>3 DEF Begin, ClientInv, ClientType
  <2> QED BY <2>1
<1>4. CASE bridge_step_2(c) \/ Elapse(c)
  BY <1>4 DEF bridge_step_2, Elapse, GoTo, Done, ClientInv, ClientType
<1>5. CASE poll(c)
  <2>1. CASE Stop(c)
    BY <2>1 DEF Stop, GoTo, Done, ClientInv, ClientType
  <2>2. CASE Proceed(c)
    <3>1. step[c] \in 1..3 /\ step \in [Callers -> 1..3] /\ pc \in [Callers -> Places]
      BY DEF ClientInv, ClientType
    <3>2. ~(step[c] < Len(Program(c)))
      BY <2>2, <3>1 DEF Proceed
    <3> QED BY <2>2, <3>1, <3>2 DEF Proceed, GoTo, Done
  <2> QED BY <1>5, <2>1, <2>2, Zenon DEF poll
<1>6. ~chain_view(c) /\ ~bridge_step_1(c) /\ ~construct_signed_tx(c) /\ ~broadcast(c)
  BY Zenon DEF chain_view, bridge_step_1, construct_signed_tx, broadcast, Done
<1> QED BY <1>1, <1>2, <1>3, <1>4, <1>5, <1>6, Zenon DEF Next, Advance, vars, caller

LEMMA PastKept ==
    ASSUME ClientInv, [Next]_vars, NEW call \in ProgramCalls, Past(call)
    PROVE  Past(call)'
<1> DEFINE c == call.from
<1>1. c \in Callers /\ call.run \in Nat /\ call.step \in 1..3
  BY DEF ProgramCalls
<1>2. runs[c] \in Nat /\ step[c] \in 1..3
  BY <1>1 DEF ClientInv, ClientType
<1>3. \/ runs'[c] = runs[c] /\ step'[c] = step[c]
      \/ runs'[c] = runs[c] + 1
      \/ runs'[c] = runs[c] /\ step'[c] = step[c] + 1
  BY <1>1, CallOf
<1>4. (runs'[c] = runs[c] /\ step'[c] = step[c] /\ pc[c] \in Done) => pc'[c] \in Done
  BY <1>1, DoneKept, Zenon
<1> QED BY <1>1, <1>2, <1>3, <1>4 DEF Past

\* What a caller sends has not been sent before, and is past once it is sent.
LEMMA SendsNew ==
    ASSUME ClientInv, NEW c \in Callers, broadcast(c)
    PROVE  /\ current[c][1] \in Signed
           /\ current[c][1].call = Call(c)
           /\ ~Past(Call(c))
           /\ \A call \in ProgramCalls : call = Call(c) => Past(call)'
<1>1. current[c][1] \in Signed /\ current[c][1].call = Call(c) /\ pc[c] = "send"
  BY DEF broadcast, ClientInv, ClientType, SignedInv
<1>2. runs[c] \in Nat /\ step[c] \in 1..3
  BY DEF ClientInv, ClientType
<1>3. ~Past(Call(c))
  <2>1. Call(c).from = c /\ Call(c).run = runs[c] /\ Call(c).step = step[c]
    BY DEF Call
  <2>2. pc[c] \notin Done /\ ~(runs[c] < runs[c]) /\ ~(step[c] < step[c])
    BY <1>1, <1>2 DEF Done
  <2> QED BY <2>1, <2>2, Zenon DEF Past
<1>4. runs' = runs /\ step' = step /\ pc'[c] \in Done
  BY Zenon DEF broadcast, Stop, GoTo, Done, ClientInv, ClientType
<1>5. ASSUME NEW call \in ProgramCalls, call = Call(c) PROVE Past(call)'
  BY <1>2, <1>4, <1>5 DEF Past, Call
<1> QED BY <1>1, <1>3, <1>5

LEMMA SentOnceStep ==
    ASSUME ClientInv, SentOnce, [Next]_vars
    PROVE  SentOnce'
<1>1. ASSUME NEW t \in pool' \cup Final' PROVE Past(t.call)'
  <2>1. CASE t \in pool \cup Final
    <3>1. t.call \in ProgramCalls
      BY <2>1 DEF ClientInv, ClientType, Signed
    <3> QED BY <2>1, <3>1, PastKept DEF SentOnce
  <2>2. ASSUME NEW c \in Callers, broadcast(c), t = current[c][1] PROVE Past(t.call)'
    BY <2>2, SendsNew DEF Signed
  <2> QED BY <1>1, <2>1, <2>2, SentOnly
<1>2. pool' \cap Final' = {}
  <2>1. CASE Process
    BY <2>1 DEF Process, Execute, Refuse, Lose, Final, SentOnce
  <2>2. ASSUME NEW c \in Callers, broadcast(c) PROVE pool' \cap Final' = {}
    <3>1. current[c][1] \notin Final
      BY <2>2, SendsNew DEF SentOnce
    <3> QED BY <2>2, <3>1 DEF broadcast, Final, SentOnce
  <2>3. ASSUME NEW c \in Callers, Begin(c) \/ Advance(c), ~broadcast(c)
        PROVE  UNCHANGED <<pool, Final>>
    BY <2>3, Zenon DEF Begin, Advance, chain_view, bridge_step_1, bridge_step_2, construct_signed_tx,
                Elapse, poll, chain, Final
  <2> QED BY <2>1, <2>2, <2>3 DEF Next, vars, chain, Final, SentOnce
<1> QED BY <1>1, <1>2 DEF SentOnce

\* The nonce of a key never goes back.
LEMMA NonceGrows ==
    ASSUME ClientInv, [Next]_vars, NEW a \in Signers
    PROVE  nonce'[a] \in Nat /\ nonce[a] <= nonce'[a]
<1>1. CASE Process
  <2> PICK t \in pool : Execute(t) \/ Refuse(t) \/ Lose(t)
    BY <1>1 DEF Process
  <2>1. Account(t.call) \in Signers /\ t.nonce \in Nat /\ nonce \in [Signers -> Nat]
    BY AccountType DEF ClientInv, ClientType, Signed
  <2> QED BY <2>1 DEF Execute, Refuse, Lose
<1>2. CASE UNCHANGED nonce
  BY <1>2 DEF ClientInv, ClientType
<1>3. ASSUME NEW c \in Callers, Begin(c) \/ Advance(c) PROVE UNCHANGED nonce
  BY <1>3, Zenon DEF Begin, Advance, chain_view, bridge_step_1, bridge_step_2, construct_signed_tx,
              broadcast, Elapse, poll, chain
<1> QED BY <1>1, <1>2, <1>3 DEF Next, vars, chain

\* A caller is about to send what it was about to send, or what it has signed.
LEMMA SendOf ==
    ASSUME ClientInv, [Next]_vars, NEW c \in Callers, pc'[c] = "send"
    PROVE  /\ Call(c)' = Call(c)
           /\ \/ pc[c] = "send" /\ current'[c] = current[c]
              \/ current'[c] = <<SignedTransaction(c)>>
<1> USE DEF ClientInv, ClientType
<1>1. CASE Process \/ UNCHANGED vars
  BY <1>1 DEF Process, vars, caller, Call
<1>2. ASSUME NEW d \in Callers, Begin(d) \/ Advance(d), d # c
      PROVE  pc'[c] = pc[c] /\ current'[c] = current[c] /\ Call(c)' = Call(c)
  BY <1>2, Zenon DEF Begin, Advance, chain_view, bridge_step_1, bridge_step_2, construct_signed_tx,
              broadcast, Elapse, poll, Stop, Proceed, Return, GoTo, Call
<1>3. CASE construct_signed_tx(c)
  BY <1>3, Zenon DEF construct_signed_tx, Stop, GoTo, Call
<1>4. CASE Elapse(c)
  BY <1>4 DEF Elapse
<1>5. ~Begin(c) /\ ~chain_view(c) /\ ~bridge_step_1(c) /\ ~bridge_step_2(c)
      /\ ~broadcast(c) /\ ~poll(c)
  BY Zenon DEF Begin, chain_view, bridge_step_1, bridge_step_2, broadcast, poll, Stop, Proceed, GoTo
<1> QED BY <1>1, <1>2, <1>3, <1>4, <1>5, Zenon DEF Next, Advance

LEMMA NonceBoundStep ==
    ASSUME ClientInv, NonceBound, [Next]_vars
    PROVE  NonceBound'
<1>1. ASSUME NEW c \in Callers, pc'[c] = "send"
      PROVE  current'[c][1].nonce <= nonce'[Account(Call(c)')] + 1
  <2> PICK a \in Signers : a = Account(Call(c))
    BY CallType, AccountType DEF ClientInv
  <2>1. nonce[a] \in Nat /\ nonce'[a] \in Nat /\ nonce[a] <= nonce'[a]
    BY NonceGrows DEF ClientInv, ClientType
  <2>2. current'[c][1].nonce <= nonce[a] + 1 /\ current'[c][1].nonce \in Nat
    <3>1. CASE pc[c] = "send" /\ current'[c] = current[c]
      <4>1. current[c][1] \in Signed
        BY <3>1 DEF ClientInv, ClientType, SignedInv
      <4>2. current[c][1].nonce <= nonce[a] + 1
        BY <3>1, Zenon DEF NonceBound
      <4> QED BY <3>1, <4>1, <4>2 DEF Signed
    <3>2. CASE current'[c] = <<SignedTransaction(c)>>
      BY <3>2, <2>1, SignedType DEF ClientInv
    <3> QED BY <1>1, <3>1, <3>2, SendOf, Zenon
  <2> QED BY <1>1, <2>1, <2>2, SendOf
<1>2. ASSUME NEW t \in pool' PROVE t.nonce <= nonce'[Account(t.call)] + 1
  <2> SUFFICES t \in Signed /\ t.nonce <= nonce[Account(t.call)] + 1
    <3>1. t \in Signed => Account(t.call) \in Signers /\ t.nonce \in Nat
      BY AccountType DEF Signed
    <3> QED BY <3>1, NonceGrows DEF ClientInv, ClientType
  <2>1. CASE t \in pool
    BY <2>1 DEF NonceBound, ClientInv, ClientType
  <2>2. ASSUME NEW c \in Callers, broadcast(c), t = current[c][1]
        PROVE  t \in Signed /\ t.nonce <= nonce[Account(t.call)] + 1
    BY <2>2, SendsNew, Zenon DEF broadcast, NonceBound
  <2>3. t \in pool \/ \E c \in Callers : broadcast(c) /\ t = current[c][1]
    <3>1. CASE Process
      BY <3>1 DEF Process
    <3>2. ASSUME NEW c \in Callers, Begin(c) \/ Advance(c), ~broadcast(c) PROVE pool' = pool
      BY <3>2, Zenon DEF Begin, Advance, chain_view, bridge_step_1, bridge_step_2,
                  construct_signed_tx, Elapse, poll, chain
    <3>3. ASSUME NEW c \in Callers, broadcast(c) PROVE t \in pool \/ t = current[c][1]
      BY <3>3 DEF broadcast
    <3> QED BY <3>1, <3>2, <3>3, Zenon DEF Next, vars, chain
  <2> QED BY <2>1, <2>2, <2>3
<1> QED BY <1>1, <1>2, Zenon DEF NonceBound

\* The chain processes transaction t.
LEMMA ProcessNonces ==
    ASSUME ClientInv, NonceInv, NEW t \in pool, pool' = pool \ {t},
           Execute(t) \/ Refuse(t) \/ Lose(t)
    PROVE  NoGap' /\ RefusedOnlyForRival'
<1> PICK a \in Signers : a = Account(t.call)
  BY AccountType DEF ClientInv, ClientType, Signed
<1>1. nonce \in [Signers -> Nat] /\ nonce[a] \in Nat /\ t.nonce \in Nat \ {0}
  BY DEF ClientInv, ClientType, Signed
<1>2. CASE Execute(t)
  <2>1. /\ nonce' = [nonce EXCEPT ![a] = t.nonce] /\ t.nonce = nonce[a] + 1
        /\ succeeded' \cup failed' = succeeded \cup failed \cup {t}
        /\ dropped' = dropped
    BY <1>1, <1>2 DEF Execute, NonceInv, NonceBound
  <2>2. ASSUME NEW b \in Signers, NEW n \in 1..nonce'[b]
        PROVE  \E u \in succeeded' \cup failed' : Account(u.call) = b /\ u.nonce = n
    <3>1. CASE n \in 1..nonce[b]
      BY <3>1, <2>1 DEF NonceInv, NoGap, Used
    <3>2. CASE ~(n \in 1..nonce[b])
      <4>1. b = a /\ n = t.nonce
        BY <1>1, <2>1, <3>2
      <4> QED BY <4>1, <2>1
    <3> QED BY <3>1, <3>2, Zenon
  <2>3. NoGap'
    BY <2>2 DEF NoGap, Used
  <2>4. RefusedOnlyForRival'
    BY <2>1 DEF NonceInv, RefusedOnlyForRival
  <2> QED BY <2>3, <2>4
<1>3. CASE Refuse(t)
  <2>1. /\ dropped' = dropped \cup {t} /\ UNCHANGED <<succeeded, failed, nonce>>
        /\ t.nonce \in 1..nonce[a]
    BY <1>1, <1>3 DEF Refuse
  <2>2. PICK u \in succeeded \cup failed : Account(u.call) = a /\ u.nonce = t.nonce
    BY <2>1 DEF NonceInv, NoGap, Used
  <2>3. u # t
    BY DEF NonceInv, SentOnce, Final
  <2>4. RefusedOnlyForRival'
    BY <2>1, <2>2, <2>3 DEF NonceInv, RefusedOnlyForRival
  <2> QED BY <2>1, <2>4 DEF NonceInv, NoGap, Used
<1>4. CASE Lose(t)
  BY <1>4 DEF Lose, NonceInv, NoGap, Used, RefusedOnlyForRival
<1> QED BY <1>2, <1>3, <1>4

LEMMA NonceInvStep == ClientInv /\ NonceInv /\ [Next]_vars => NonceInv'
<1> SUFFICES ASSUME ClientInv, NonceInv, [Next]_vars PROVE NonceInv'
  OBVIOUS
<1>1. SentOnce' /\ NonceBound'
  BY SentOnceStep, NonceBoundStep DEF NonceInv
<1>2. CASE Process
  BY <1>1, <1>2, ProcessNonces DEF Process, NonceInv
<1>3. CASE UNCHANGED <<nonce, succeeded, failed, dropped>>
  <2>1. NoGap' /\ RefusedOnlyForRival'
    BY <1>3 DEF NonceInv, NoGap, Used, RefusedOnlyForRival
  <2> QED BY <1>1, <2>1 DEF NonceInv
<1>4. ASSUME NEW c \in Callers, Begin(c) \/ Advance(c)
      PROVE  UNCHANGED <<nonce, succeeded, failed, dropped>>
  BY <1>4, Zenon DEF Begin, Advance, chain_view, bridge_step_1, bridge_step_2, construct_signed_tx,
              broadcast, Elapse, poll, chain
<1> QED BY <1>2, <1>3, <1>4 DEF Next, vars, chain

\* The chain refuses a transaction only for a nonce that another transaction of
\* its signer has used: callers that share a key can be in each other's way, and
\* nothing else is, for any number of callers, runs and faults
\* (near_chain.rs:102).
THEOREM RefusedOnlyForRivalHolds == Spec => []RefusedOnlyForRival
<1>1. Init => NonceInv
  BY DEF Init, NonceInv, SentOnce, NonceBound, NoGap, Final, Signers, RefusedOnlyForRival
<1> QED BY <1>1, ClientInvariant, NonceInvStep, PTL DEF Spec, NonceInv

-----------------------------------------------------------------------------
\* The bounds.  The runs are counted together, and each caller stays below the
\* bound for that reason; what a caller reports or sends belongs to a run that
\* it has started.
RangeInv ==
    /\ runs \in [Callers -> 0..MaxRuns]
    /\ \A c \in Callers : pc[c] # "idle" => runs[c] # 0
    /\ waited \in [Callers -> 0..(TimeLimit + 1)]
    /\ current \in [Callers -> Seq(Transactions)]
    /\ \A r \in told : r.call \in Calls
    /\ accounts \subseteq Signers
    /\ pool \cup Final \subseteq Transactions
    /\ faults \in 0..MaxFaults

\* A caller that has started MaxRuns runs has used up the bound of all
\* (BegunByOne).
RunsInRange ==
    \A c \in Callers : runs \in [Callers -> 0..MaxRuns] /\ Cardinality(Begun) < MaxRuns
                       => runs[c] + 1 \in 0..MaxRuns

LEMMA CallInRange ==
    ASSUME ClientType, RangeInv, NEW c \in Callers, pc[c] # "idle"
    PROVE  Call(c) \in Calls
<1>1. runs[c] \in 1..MaxRuns /\ step[c] \in 1..3
  BY ChainClientAssumption DEF RangeInv, ClientType
<1> QED BY <1>1 DEF Call, Calls

LEMMA RangeInvInit == Init => RangeInv
<1> SUFFICES ASSUME Init PROVE RangeInv
  OBVIOUS
<1> QED BY ChainClientAssumption DEF Init, RangeInv, Signers, Final

\* A call that ends; where its caller goes on it has been started.
LEMMA ReturnInRange ==
    ASSUME ClientType, RangeInv, NEW c \in Callers, pc[c] # "idle", NEW ok,
           Tell(c, ok), Return(c), NEW place, GoTo(c, place),
           UNCHANGED <<runs, accounts>>, faults' \in 0..MaxFaults,
           pool' \cup Final' \subseteq Transactions
    PROVE  RangeInv'
<1>1. Call(c) \in Calls
  BY CallInRange
<1>2. \A r \in told' : r.call \in Calls
  BY <1>1 DEF Tell, RangeInv
<1>3. \A d \in Callers : pc'[d] # "idle" => runs'[d] # 0
  BY DEF GoTo, RangeInv, ClientType
<1>4. waited' \in [Callers -> 0..(TimeLimit + 1)] /\ current' \in [Callers -> Seq(Transactions)]
  BY ChainClientAssumption DEF Return, RangeInv
<1> QED BY <1>2, <1>3, <1>4, Zenon DEF RangeInv

LEMMA FaultInRange ==
    ASSUME RangeInv, Fault \/ UNCHANGED faults
    PROVE  faults' \in 0..MaxFaults
  BY ChainClientAssumption DEF RangeInv, Fault


LEMMA CallerInRange ==
    ASSUME ClientInv, RangeInv, RunsInRange, NEW c \in Callers, Begin(c) \/ Advance(c)
    PROVE  RangeInv'
<1> USE DEF ClientInv
<1>1. CASE Begin(c)
  <2>1. runs[c] + 1 \in 0..MaxRuns /\ runs[c] + 1 # 0
    BY <1>1, ChainClientAssumption DEF RunsInRange, Begin, RangeInv
  <2>2. runs' \in [Callers -> 0..MaxRuns]
        /\ \A d \in Callers : pc'[d] # "idle" => runs'[d] # 0
    BY <1>1, <2>1 DEF Begin, GoTo, RangeInv, ClientType
  <2> QED BY <1>1, <2>2, Zenon DEF Begin, chain, RangeInv, Final
<1>2. CASE Bridging(c)
  <2>1. faults' \in 0..MaxFaults
    BY <1>2, FaultInRange DEF Bridging, chain_view, bridge_step_1, bridge_step_2
  <2>2. /\ UNCHANGED <<runs, waited, current, told, chain>>
        /\ \E place : pc' = [pc EXCEPT ![c] = place] /\ pc[c] # "idle"
    BY <1>2 DEF Bridging, chain_view, bridge_step_1, bridge_step_2, GoTo
  <2>3. \A d \in Callers : pc'[d] # "idle" => runs'[d] # 0
    BY <2>2 DEF RangeInv, ClientType
  <2> QED BY <2>1, <2>2, <2>3 DEF chain, RangeInv, Final
<1>3. CASE construct_signed_tx(c)
  <2>1. pc[c] # "idle" /\ faults' \in 0..MaxFaults /\ UNCHANGED <<runs, chain>>
    BY <1>3, FaultInRange DEF construct_signed_tx
  <2>2. CASE Stop(c)
    BY <2>1, <2>2, ReturnInRange, Zenon DEF Stop, chain, RangeInv, Final
  <2>3. CASE /\ current' = [current EXCEPT ![c] = <<SignedTransaction(c)>>]
             /\ GoTo(c, "send") /\ UNCHANGED <<waited, told>>
    <3>1. SignedTransaction(c) \in Transactions
      <4>1. SignedTransaction(c) \in Signed /\ SignedTransaction(c).call = Call(c)
        BY SignedType
      <4>2. Call(c) \in Calls
        BY <2>1, CallInRange
      <4> QED BY <4>1, <4>2 DEF Signed, Transactions
    <3>2. current' \in [Callers -> Seq(Transactions)]
      BY <2>3, <3>1 DEF RangeInv
    <3>3. \A d \in Callers : pc'[d] # "idle" => runs'[d] # 0
      BY <2>1, <2>3 DEF GoTo, RangeInv, ClientType
    <3> QED BY <2>1, <2>3, <3>2, <3>3, Zenon DEF chain, RangeInv, Final
  <2> QED BY <1>3, <2>2, <2>3 DEF construct_signed_tx
<1>4. CASE broadcast(c)
  <2>1. pc[c] # "idle" /\ faults' \in 0..MaxFaults /\ UNCHANGED <<runs, accounts>>
    BY <1>4, FaultInRange, Zenon DEF broadcast
  <2>2. current[c][1] \in Transactions
    BY <1>4 DEF broadcast, SignedInv, RangeInv
  <2>3. pool' \cup Final' \subseteq Transactions
    BY <1>4, <2>2 DEF broadcast, RangeInv, Final
  <2>4. CASE Stop(c)
    BY <2>1, <2>3, <2>4, ReturnInRange, Zenon DEF Stop
  <2>5. CASE GoTo(c, "poll") /\ UNCHANGED <<current, waited, told>>
    <3>1. \A d \in Callers : pc'[d] # "idle" => runs'[d] # 0
      BY <2>1, <2>5 DEF GoTo, RangeInv, ClientType
    <3> QED BY <2>1, <2>3, <2>5, <3>1, Zenon DEF RangeInv
  <2> QED BY <1>4, <2>4, <2>5, Zenon DEF broadcast
<1>5. CASE Elapse(c)
  <2>1. waited' \in [Callers -> 0..(TimeLimit + 1)]
    BY <1>5, ChainClientAssumption DEF Elapse, RangeInv
  <2> QED BY <1>5, <2>1 DEF Elapse, chain, RangeInv, Final
<1>6. CASE poll(c)
  <2>1. pc[c] # "idle" /\ faults' \in 0..MaxFaults /\ UNCHANGED <<runs, chain>>
    BY <1>6, FaultInRange, Zenon DEF poll
  <2>2. pool' \cup Final' \subseteq Transactions /\ UNCHANGED accounts
    BY <2>1 DEF chain, RangeInv, Final
  <2>3. \E ok, place : Tell(c, ok) /\ Return(c) /\ GoTo(c, place)
    BY <1>6, Zenon DEF poll, Stop, Proceed
  <2> QED BY <2>1, <2>2, <2>3, ReturnInRange
<1> QED BY <1>1, <1>2, <1>3, <1>4, <1>5, <1>6 DEF Advance, Bridging

LEMMA RangeInvStep == ClientInv /\ RangeInv /\ RunsInRange /\ [Next]_vars => RangeInv'
<1> SUFFICES ASSUME ClientInv, RangeInv, RunsInRange, [Next]_vars PROVE RangeInv'
  OBVIOUS
<1>1. CASE Process
  <2> PICK t \in pool : /\ pool' = pool \ {t}
                        /\ Execute(t) \/ Refuse(t) \/ Lose(t)
                        /\ UNCHANGED <<caller, told>>
    BY <1>1 DEF Process
  <2>1. faults' \in 0..MaxFaults
    BY FaultInRange DEF Execute, Refuse, Lose
  <2>2. accounts' \subseteq accounts \cup {"node"}
    BY DEF Execute, Refuse, Lose
  <2>3. pool' \cup Final' \subseteq pool \cup Final
    BY DEF Execute, Refuse, Lose, Final
  <2> QED BY <2>1, <2>2, <2>3 DEF caller, RangeInv, Signers
<1>2. CASE UNCHANGED vars
  BY <1>2 DEF vars, caller, chain, RangeInv, Final
<1> QED BY <1>1, <1>2, CallerInRange DEF Next

-----------------------------------------------------------------------------
(* The promises of a task.                                                 *)

Statuses == {"Unfulfilled", "Pending", "Fulfilled", "FulfilledNone", "Rejected"}
PromiseRecords == [action : Actions, status : Statuses]

\* The promises to come, of the current queue from i on and of the next one.
Todo(q, i, next) == ActionsOf(SubSeq(q, i, Len(q)) \o next)

\* The list is d promises of the queue from i on, and the next queue.
TodoIs(q, i, next, d) ==
    /\ Todo(q, i, next) \in Seq(Actions)
    /\ Len(Todo(q, i, next)) = d + Len(next)
    /\ \A k \in 1..d : Todo(q, i, next)[k] = q[(i + k) - 1].action
    /\ \A k \in 1..Len(next) : Todo(q, i, next)[d + k] = next[k].action

SameActions(q, r) == Len(r) = Len(q) /\ \A k \in 1..Len(q) : r[k].action = q[k].action

\* The list begins with promise i, which is gone in queue r from the next one on.
Drops(q, r, i, next) ==
    /\ Todo(q, i, next) # <<>>
    /\ Head(Todo(q, i, next)) = q[i].action
    /\ Tail(Todo(q, i, next)) = Todo(r, i + 1, next)

QueueInv ==
    /\ queue \in Seq(PromiseRecords) /\ next_queue \in Seq(PromiseRecords)
    /\ index \in Nat \ {0} /\ index <= Len(queue) + 1
    /\ busy => index <= Len(queue) /\ exit = "running"

\* What the runtime has recorded of the queues.
ResultsInv ==
    /\ \A k \in 1..index - 1 :
          queue[k].status = "Unfulfilled" \/ queue[k].status = "Pending"
              => queue[k].action = "P2PBroadcast" /\ queue[k].status = "Pending"
    /\ \A k \in index + 1..Len(queue) : queue[k].status = "Unfulfilled"
    /\ \A k \in DOMAIN next_queue : next_queue[k].status = "Unfulfilled"

OneCall(promises) ==
    \A k, l \in 1..Len(promises) :
        promises[k].action = "CallSelf" /\ promises[l].action = "CallSelf" => k = l

\* A call of the current queue is the only one, and finds the next queue empty.
CallInv ==
    /\ OneCall(queue) /\ OneCall(next_queue)
    /\ \A k \in index..Len(queue) : queue[k].action = "CallSelf" => next_queue = <<>>

-----------------------------------------------------------------------------
(* Lists of promises.                                                      *)

LEMMA ActionsSeq ==
    ASSUME NEW s \in Seq(PromiseRecords)
    PROVE  /\ ActionsOf(s) \in Seq(Actions) /\ Len(ActionsOf(s)) = Len(s)
           /\ \A k \in 1..Len(s) : ActionsOf(s)[k] = s[k].action
<1>1. DOMAIN s = 1..Len(s) /\ Len(s) \in Nat
  OBVIOUS
<1>2. \A k \in 1..Len(s) : s[k].action \in Actions
  <2>1. \A k \in 1..Len(s) : s[k] \in PromiseRecords
    BY <1>1
  <2>2. \A p \in PromiseRecords : p.action \in Actions
    BY DEF PromiseRecords
  <2> QED BY <2>1, <2>2
<1>3. ActionsOf(s) = [k \in 1..Len(s) |-> s[k].action]
  BY <1>1 DEF ActionsOf
<1>4. ActionsOf(s) \in [1..Len(s) -> Actions]
  BY <1>2, <1>3
<1> QED BY <1>1, <1>3, <1>4

\* Sequences of the same length and elements are the same.
LEMMA SameSequence ==
    ASSUME NEW S, NEW s \in Seq(S), NEW t \in Seq(S), Len(s) = Len(t),
           \A k \in 1..Len(s) : s[k] = t[k]
    PROVE  s = t
  OBVIOUS

LEMMA TodoSeq ==
    ASSUME NEW q \in Seq(PromiseRecords), NEW next \in Seq(PromiseRecords),
           NEW i \in Nat \ {0}, NEW d \in Nat, Len(q) + 1 = i + d
    PROVE  TodoIs(q, i, next, d)
<1> DEFINE rest == SubSeq(q, i, Len(q))
           both == rest \o next
<1>1. rest \in Seq(PromiseRecords) /\ Len(rest) = d /\ \A k \in 1..d : rest[k] = q[(i + k) - 1]
  <2>1. \A k \in i..Len(q) : q[k] \in PromiseRecords
    OBVIOUS
  <2>2. /\ rest \in Seq(PromiseRecords)
        /\ Len(rest) = IF i <= Len(q) THEN Len(q) - i + 1 ELSE 0
        /\ \A k \in 1..Len(q) - i + 1 : rest[k] = q[i + k - 1]
    BY <2>1
  <2>3. Len(q) \in Nat /\ Len(q) - i + 1 = d /\ (i <= Len(q) \/ d = 0)
    OBVIOUS
  <2> HIDE DEF rest
  <2> QED BY <2>2, <2>3
<1> HIDE DEF rest
<1>2. /\ both \in Seq(PromiseRecords) /\ Len(both) = d + Len(next)
      /\ \A k \in 1..d + Len(next) : both[k] = IF k <= d THEN rest[k] ELSE next[k - d]
  <2>1. /\ both \in Seq(PromiseRecords) /\ Len(both) = Len(rest) + Len(next)
        /\ \A k \in 1..Len(rest) + Len(next) :
              both[k] = IF k <= Len(rest) THEN rest[k] ELSE next[k - Len(rest)]
    BY <1>1
  <2> HIDE DEF both
  <2> QED BY <1>1, <2>1
<1> HIDE DEF both
<1>3. /\ ActionsOf(both) \in Seq(Actions) /\ Len(ActionsOf(both)) = d + Len(next)
      /\ \A k \in 1..d + Len(next) : ActionsOf(both)[k] = both[k].action
  BY <1>2, ActionsSeq
<1>4. Len(next) \in Nat
  OBVIOUS
<1>5. \A k \in 1..d : ActionsOf(both)[k] = q[(i + k) - 1].action
  BY <1>1, <1>2, <1>3, <1>4
<1>6. ASSUME NEW k \in 1..Len(next) PROVE ActionsOf(both)[d + k] = next[k].action
  <2>1. d + k \in 1..d + Len(next) /\ ~(d + k <= d) /\ (d + k) - d = k
    BY <1>4
  <2> QED BY <1>2, <1>3, <2>1
<1>7. Todo(q, i, next) = ActionsOf(both)
  BY DEF Todo, both, rest
<1> QED BY <1>3, <1>5, <1>6, <1>7, Zenon DEF TodoIs

\* A promise that is executed is the head of the list, and leaves its tail.
LEMMA TodoStep ==
    ASSUME NEW q \in Seq(PromiseRecords), NEW r \in Seq(PromiseRecords),
           NEW next \in Seq(PromiseRecords), NEW i \in Nat \ {0}, i <= Len(q), SameActions(q, r)
    PROVE  Drops(q, r, i, next)
<1> DEFINE t == Todo(q, i, next)
           u == Todo(r, i + 1, next)
<1>0. Len(r) = Len(q) /\ \A k \in 1..Len(q) : r[k].action = q[k].action
  BY DEF SameActions
<1>1. PICK d \in Nat : Len(q) = i + d
  <2>1. Len(q) - i \in Nat /\ Len(q) = i + (Len(q) - i)
    OBVIOUS
  <2> QED BY <2>1, Zenon
<1>2. /\ t \in Seq(Actions) /\ Len(t) = (d + 1) + Len(next)
      /\ \A k \in 1..d + 1 : t[k] = q[(i + k) - 1].action
      /\ \A k \in 1..Len(next) : t[(d + 1) + k] = next[k].action
  <2>1. d + 1 \in Nat /\ Len(q) + 1 = i + (d + 1)
    BY <1>1
  <2>2. TodoIs(q, i, next, d + 1)
    BY <2>1, TodoSeq, Zenon
  <2> QED BY <2>2, Zenon DEF TodoIs
<1>3. /\ u \in Seq(Actions) /\ Len(u) = d + Len(next)
      /\ \A k \in 1..d : u[k] = r[((i + 1) + k) - 1].action
      /\ \A k \in 1..Len(next) : u[d + k] = next[k].action
  <2>1. i + 1 \in Nat \ {0} /\ Len(r) + 1 = (i + 1) + d
    BY <1>0, <1>1
  <2>2. TodoIs(r, i + 1, next, d)
    BY <2>1, TodoSeq, Zenon
  <2> QED BY <2>2, Zenon DEF TodoIs
<1>4. Len(next) \in Nat
  OBVIOUS
<1> HIDE DEF t, u
<1>5. t # <<>> /\ Head(t) = q[i].action
  <2>1. t[1] = q[(i + 1) - 1].action /\ (i + 1) - 1 = i /\ Len(t) > 0
    BY <1>2, <1>4
  <2> QED BY <1>2, <2>1
<1>6. Tail(t) \in Seq(Actions) /\ Len(Tail(t)) = Len(u)
      /\ \A k \in 1..Len(u) : Tail(t)[k] = t[k + 1]
  BY <1>2, <1>3, <1>4, <1>5
<1>7. ASSUME NEW k \in 1..Len(u) PROVE t[k + 1] = u[k]
  <2>1. CASE k <= d
    <3>1. k + 1 \in 1..d + 1 /\ k \in 1..d /\ (i + (k + 1)) - 1 = i + k
          /\ ((i + 1) + k) - 1 = i + k /\ i + k \in 1..Len(q)
      BY <1>1, <2>1
    <3> QED BY <1>0, <1>2, <1>3, <3>1
  <2>2. CASE k > d
    <3>1. k - d \in 1..Len(next) /\ (d + 1) + (k - d) = k + 1 /\ d + (k - d) = k
      BY <1>3, <1>4, <2>2
    <3>2. /\ t[(d + 1) + (k - d)] = next[k - d].action
          /\ u[d + (k - d)] = next[k - d].action
      BY <1>2, <1>3, <3>1, Zenon
    <3> QED BY <3>1, <3>2, Zenon
  <2> QED BY <2>1, <2>2
<1>8. Tail(t) = u
  BY <1>3, <1>6, <1>7
<1> QED BY <1>5, <1>8 DEF t, u, Drops

LEMMA StartOf ==
    ASSUME NEW s \in Seq(Actions), NEW d \in Nat, d <= Len(s)
    PROVE  /\ SubSeq(s, 1, d) \in Seq(Actions) /\ Len(SubSeq(s, 1, d)) = d
           /\ \A k \in 1..d : SubSeq(s, 1, d)[k] = s[k]
<1> DEFINE start == SubSeq(s, 1, d)
<1>1. \A k \in 1..d : s[k] \in Actions
  OBVIOUS
<1>2. /\ start \in Seq(Actions) /\ Len(start) = IF 1 <= d THEN (d - 1) + 1 ELSE 0
      /\ \A k \in 1..(d - 1) + 1 : start[k] = s[(1 + k) - 1]
  BY <1>1
<1> HIDE DEF start
<1>3. Len(start) = d /\ \A k \in 1..d : start[k] = s[k]
  BY <1>2
<1> QED BY <1>2, <1>3 DEF start

\* The promises of the only call are added to the end of the list.
LEMMA TodoCall ==
    ASSUME NEW q \in Seq(PromiseRecords), NEW next \in Seq(PromiseRecords),
           NEW i \in Nat \ {0}, i <= Len(q) + 1
    PROVE  List!Prolongs(Todo(q, i, <<>>), Todo(q, i, next))
<1> DEFINE t == Todo(q, i, <<>>)
           u == Todo(q, i, next)
<1>1. PICK d \in Nat : Len(q) + 1 = i + d
  <2>1. (Len(q) + 1) - i \in Nat /\ Len(q) + 1 = i + ((Len(q) + 1) - i)
    OBVIOUS
  <2> QED BY <2>1
<1>2. t \in Seq(Actions) /\ Len(t) = d /\ \A k \in 1..d : t[k] = q[(i + k) - 1].action
  <2>1. <<>> \in Seq(PromiseRecords) /\ Len(<<>>) = 0
    OBVIOUS
  <2>2. t \in Seq(Actions) /\ Len(t) = d + Len(<<>>) /\ \A k \in 1..d : t[k] = q[(i + k) - 1].action
    <3>1. TodoIs(q, i, <<>>, d)
      BY <1>1, <2>1, TodoSeq, Zenon
    <3> QED BY <3>1, Zenon DEF TodoIs
  <2> HIDE DEF t
  <2> QED BY <2>1, <2>2
<1>3. u \in Seq(Actions) /\ Len(u) = d + Len(next) /\ \A k \in 1..d : u[k] = q[(i + k) - 1].action
  <2>1. TodoIs(q, i, next, d)
    BY <1>1, TodoSeq, Zenon
  <2> QED BY <2>1, Zenon DEF TodoIs
<1>4. Len(next) \in Nat
  OBVIOUS
<1> HIDE DEF t, u
<1>5. Len(t) <= Len(u) /\ SubSeq(u, 1, Len(t)) = t
  <2>1. d <= Len(u) /\ \A k \in 1..d : t[k] = u[k]
    <3>1. d <= Len(u)
      BY <1>3, <1>4
    <3>2. \A k \in 1..d : t[k] = u[k]
      BY <1>2, <1>3, Zenon
    <3> QED BY <3>1, <3>2
  <2> DEFINE start == SubSeq(u, 1, d)
  <2>2. start \in Seq(Actions) /\ Len(start) = d /\ \A k \in 1..d : start[k] = u[k]
    BY <1>3, <2>1, StartOf
  <2> HIDE DEF start
  <2>3. start = t
    BY <1>2, <2>1, <2>2, SameSequence, Zenon
  <2> QED BY <1>2, <2>1, <2>3 DEF start
<1>6. List!Prolongs(t, u)
  BY <1>5 DEF List!Prolongs
<1> QED BY <1>6 DEF t, u

\* The statuses do not matter to the list.
LEMMA TodoSame ==
    ASSUME NEW q \in Seq(PromiseRecords), NEW r \in Seq(PromiseRecords),
           NEW next \in Seq(PromiseRecords), NEW i \in Nat \ {0}, i <= Len(q), SameActions(q, r)
    PROVE  Todo(r, i, next) = Todo(q, i, next)
<1> DEFINE t == Todo(q, i, next)
           u == Todo(r, i, next)
<1>0. Len(r) = Len(q) /\ \A k \in 1..Len(q) : r[k].action = q[k].action
  BY DEF SameActions
<1>1. PICK d \in Nat : Len(q) + 1 = i + d
  <2>1. (Len(q) + 1) - i \in Nat /\ Len(q) + 1 = i + ((Len(q) + 1) - i)
    OBVIOUS
  <2> QED BY <2>1
<1>2. /\ t \in Seq(Actions) /\ Len(t) = d + Len(next)
      /\ \A k \in 1..d : t[k] = q[(i + k) - 1].action
      /\ \A k \in 1..Len(next) : t[d + k] = next[k].action
  <2>1. TodoIs(q, i, next, d)
    BY <1>1, TodoSeq, Zenon
  <2> QED BY <2>1, Zenon DEF TodoIs
<1>3. /\ u \in Seq(Actions) /\ Len(u) = d + Len(next)
      /\ \A k \in 1..d : u[k] = r[(i + k) - 1].action
      /\ \A k \in 1..Len(next) : u[d + k] = next[k].action
  <2>1. Len(r) + 1 = i + d
    BY <1>0, <1>1
  <2>2. TodoIs(r, i, next, d)
    BY <2>1, TodoSeq, Zenon
  <2> QED BY <2>2, Zenon DEF TodoIs
<1>4. Len(next) \in Nat
  OBVIOUS
<1> HIDE DEF t, u
<1>5. ASSUME NEW k \in 1..Len(t) PROVE t[k] = u[k]
  <2>1. CASE k <= d
    <3>1. k \in 1..d /\ (i + k) - 1 \in 1..Len(q)
      BY <1>1, <2>1
    <3> QED BY <1>0, <1>2, <1>3, <3>1
  <2>2. CASE k > d
    <3>1. k - d \in 1..Len(next) /\ d + (k - d) = k
      BY <1>2, <1>4, <2>2
    <3>2. t[d + (k - d)] = next[k - d].action /\ u[d + (k - d)] = next[k - d].action
      BY <1>2, <1>3, <3>1, Zenon
    <3> QED BY <3>1, <3>2, Zenon
  <2> QED BY <2>1, <2>2
<1>6. t = u
  BY <1>2, <1>3, <1>5
<1> QED BY <1>6 DEF t, u

\* A queue that is done leaves the next one.
LEMMA TodoNext ==
    ASSUME NEW q \in Seq(PromiseRecords), NEW next \in Seq(PromiseRecords)
    PROVE  Todo(q, Len(q) + 1, next) = Todo(next, 1, <<>>)
<1> DEFINE t == Todo(q, Len(q) + 1, next)
           u == Todo(next, 1, <<>>)
<1>1. <<>> \in Seq(PromiseRecords) /\ Len(<<>>) = 0 /\ Len(next) \in Nat
  OBVIOUS
<1>2. t \in Seq(Actions) /\ Len(t) = Len(next) /\ \A k \in 1..Len(next) : t[k] = next[k].action
  <2>1. Len(q) + 1 \in Nat \ {0} /\ 0 \in Nat /\ Len(q) + 1 = (Len(q) + 1) + 0
    OBVIOUS
  <2>2. t \in Seq(Actions) /\ Len(t) = 0 + Len(next) /\ \A k \in 1..Len(next) : t[0 + k] = next[k].action
    <3>1. TodoIs(q, Len(q) + 1, next, 0)
      BY <2>1, TodoSeq, Zenon
    <3> QED BY <3>1, Zenon DEF TodoIs
  <2> HIDE DEF t
  <2> QED BY <1>1, <2>2
<1>3. u \in Seq(Actions) /\ Len(u) = Len(next) /\ \A k \in 1..Len(next) : u[k] = next[k].action
  <2>1. 1 \in Nat \ {0} /\ Len(next) + 1 = 1 + Len(next)
    BY <1>1
  <2>2. u \in Seq(Actions) /\ Len(u) = Len(next) + Len(<<>>)
        /\ \A k \in 1..Len(next) : u[k] = next[(1 + k) - 1].action
    <3>1. TodoIs(next, 1, <<>>, Len(next))
      BY <1>1, <2>1, TodoSeq, Zenon
    <3> QED BY <3>1, Zenon DEF TodoIs
  <2> HIDE DEF u
  <2> QED BY <1>1, <2>2
<1> HIDE DEF t, u
<1>4. t = u
  BY <1>2, <1>3
<1> QED BY <1>4 DEF t, u
-----------------------------------------------------------------------------
(* The queues and what is recorded of them.                                *)

\* The current promise gets a status, and nothing else changes in the queue.
LEMMA StatusSet ==
    ASSUME QueueInv, index <= Len(queue), NEW s \in Statuses,
           queue' = [queue EXCEPT ![index].status = s]
    PROVE  /\ queue' \in Seq(PromiseRecords) /\ Len(queue') = Len(queue)
           /\ \A k \in 1..Len(queue) : queue'[k].action = queue[k].action
           /\ \A k \in 1..Len(queue) : k # index => queue'[k] = queue[k]
           /\ queue'[index].status = s
<1>1. index \in 1..Len(queue) /\ queue \in Seq(PromiseRecords)
  BY DEF QueueInv
<1>2. queue[index] \in PromiseRecords
  BY <1>1
<1> DEFINE new == [queue[index] EXCEPT !.status = s]
<1>3. new \in PromiseRecords /\ new.action = queue[index].action /\ new.status = s
  BY <1>2 DEF PromiseRecords
<1>4. queue' = [queue EXCEPT ![index] = new]
  OBVIOUS
<1> HIDE DEF new
<1>5. /\ queue' \in Seq(PromiseRecords) /\ Len(queue') = Len(queue)
      /\ \A k \in 1..Len(queue) : queue'[k] = IF k = index THEN new ELSE queue[k]
  BY <1>1, <1>3, <1>4
<1> QED BY <1>1, <1>3, <1>5

\* The promises of a call are new ones.
LEMMA MadePromises ==
    ASSUME NEW made \in Makes
    PROVE  LET promises == [k \in DOMAIN made |-> Unfulfilled(made[k])]
           IN  /\ promises \in Seq(PromiseRecords)
               /\ \A k \in 1..Len(promises) : promises[k].status = "Unfulfilled"
               /\ SingleCall = TRUE => OneCall(promises)
<1> DEFINE promises == [k \in DOMAIN made |-> Unfulfilled(made[k])]
<1>1. PICK m \in 0..MaxPromises : made \in [1..m -> Actions]
  BY DEF Makes
<1>2. m \in Nat
  BY <1>1, RuntimeAssumption
<1>3. \A a \in Actions : /\ Unfulfilled(a) \in PromiseRecords
                         /\ Unfulfilled(a).status = "Unfulfilled" /\ Unfulfilled(a).action = a
  BY DEF Unfulfilled, PromiseRecords, Statuses
<1>4. DOMAIN made = 1..m /\ \A k \in 1..m : made[k] \in Actions
  BY <1>1
<1>5. promises \in [1..m -> PromiseRecords] /\ \A k \in 1..m : promises[k] = Unfulfilled(made[k])
  BY <1>3, <1>4
<1> HIDE DEF promises
<1>6. promises \in Seq(PromiseRecords) /\ Len(promises) = m
  BY <1>2, <1>5
<1>7. \A k \in 1..m : promises[k].status = "Unfulfilled" /\ promises[k].action = made[k]
  BY <1>3, <1>4, <1>5
<1>8. SingleCall = TRUE => \A k, l \in 1..m :
          made[k] = "CallSelf" /\ made[l] = "CallSelf" => k = l
  BY <1>4 DEF Makes
<1>9. SingleCall = TRUE => OneCall(promises)
  BY <1>6, <1>7, <1>8 DEF OneCall
<1> QED BY <1>6, <1>7, <1>9 DEF promises

\* A step that ends a promise.
LEMMA EndStep ==
    ASSUME QueueInv, ResultsInv, busy, NEW s \in Statuses, End(s),
           s = "Unfulfilled" \/ s = "Pending" => s = "Pending" /\ Action = "P2PBroadcast",
           next_queue' \in Seq(PromiseRecords), exit' = exit,
           \A k \in 1..Len(next_queue') : next_queue'[k].status = "Unfulfilled"
    PROVE  QueueInv' /\ ResultsInv'
<1>1. /\ queue \in Seq(PromiseRecords) /\ index \in Nat \ {0} /\ index <= Len(queue) /\ exit = "running"
      /\ Len(queue) \in Nat
  BY DEF QueueInv
<1>2. queue' = [queue EXCEPT ![index].status = s] /\ index' = index + 1 /\ busy' = FALSE
  BY DEF End
<1>3. /\ queue' \in Seq(PromiseRecords) /\ Len(queue') = Len(queue)
      /\ \A k \in 1..Len(queue) : queue'[k].action = queue[k].action
      /\ \A k \in 1..Len(queue) : k # index => queue'[k] = queue[k]
      /\ queue'[index].status = s
  BY <1>1, <1>2, StatusSet, Zenon
<1>4. QueueInv'
  <2>1. index' \in Nat \ {0} /\ index' <= Len(queue') + 1
    BY <1>1, <1>2, <1>3
  <2> QED BY <1>2, <1>3, <2>1 DEF QueueInv
<1>5. ASSUME NEW k \in 1..index' - 1,
             queue'[k].status = "Unfulfilled" \/ queue'[k].status = "Pending"
      PROVE  queue'[k].action = "P2PBroadcast" /\ queue'[k].status = "Pending"
  <2>1. k \in 1..Len(queue) /\ index \in 1..Len(queue)
    BY <1>1, <1>2
  <2>2. CASE k = index
    BY <1>3, <1>5, <2>1, <2>2 DEF Action
  <2>3. CASE k # index
    <3>1. k \in 1..index - 1
      BY <1>1, <1>2, <2>3
    <3> QED BY <1>3, <1>5, <2>1, <2>3, <3>1 DEF ResultsInv
  <2> QED BY <2>2, <2>3
<1>6. ASSUME NEW k \in index' + 1..Len(queue')
      PROVE  queue'[k].status = "Unfulfilled"
  <2>1. k \in index + 1..Len(queue) /\ k # index /\ k \in 1..Len(queue)
    BY <1>1, <1>2, <1>3
  <2> QED BY <1>3, <2>1 DEF ResultsInv
<1>7. \A k \in DOMAIN next_queue' : next_queue'[k].status = "Unfulfilled"
  <2>1. DOMAIN next_queue' = 1..Len(next_queue')
    OBVIOUS
  <2> QED BY <2>1
<1>8. ResultsInv'
  BY <1>5, <1>6, <1>7 DEF ResultsInv
<1> QED BY <1>4, <1>8

LEMMA RuntimeInvInit == RuntimeInit => QueueInv /\ ResultsInv
<1> SUFFICES ASSUME RuntimeInit PROVE QueueInv /\ ResultsInv
  OBVIOUS
<1> DEFINE first == Unfulfilled("CallSelf")
<1>1. first \in PromiseRecords
  BY DEF first, Unfulfilled, PromiseRecords, Statuses, Actions
<1>2. queue = <<first>> /\ index = 1 /\ next_queue = <<>> /\ busy = FALSE
  BY DEF RuntimeInit
<1> HIDE DEF first
<1>3. queue \in Seq(PromiseRecords) /\ Len(queue) = 1 /\ next_queue \in Seq(PromiseRecords)
  BY <1>1, <1>2
<1>4. QueueInv
  BY <1>2, <1>3 DEF QueueInv
<1>5. ResultsInv
  <2>1. 1..index - 1 = {} /\ index + 1..Len(queue) = {} /\ DOMAIN next_queue = {}
    BY <1>2, <1>3
  <2> QED BY <2>1 DEF ResultsInv
<1> QED BY <1>4, <1>5

LEMMA RuntimeInvStep == QueueInv /\ ResultsInv /\ [RuntimeNext]_runtimeVars => QueueInv' /\ ResultsInv'
<1> SUFFICES ASSUME QueueInv, ResultsInv, [RuntimeNext]_runtimeVars PROVE QueueInv' /\ ResultsInv'
  OBVIOUS
<1>0. \A k \in 1..Len(next_queue) : next_queue[k].status = "Unfulfilled"
  <2>1. DOMAIN next_queue = 1..Len(next_queue)
    BY DEF QueueInv
  <2> QED BY <2>1 DEF ResultsInv
<1>1. CASE BeginPromise
  <2>1. /\ exit = "running" /\ index <= Len(queue) /\ "Pending" \in Statuses
        /\ queue' = [queue EXCEPT ![index].status = "Pending"]
        /\ UNCHANGED <<index, next_queue, exit>>
    BY <1>1 DEF BeginPromise, Statuses
  <2>2. /\ queue' \in Seq(PromiseRecords) /\ Len(queue') = Len(queue)
        /\ \A k \in 1..Len(queue) : k # index => queue'[k] = queue[k]
    BY <2>1, StatusSet, Zenon
  <2>3. QueueInv'
    BY <2>1, <2>2 DEF QueueInv
  <2>4. /\ \A k \in 1..index - 1 : queue'[k] = queue[k]
        /\ \A k \in index + 1..Len(queue) : queue'[k] = queue[k]
    BY <2>1, <2>2 DEF QueueInv
  <2>5. ResultsInv'
    BY <2>1, <2>2, <2>4 DEF ResultsInv
  <2> QED BY <2>3, <2>5
<1>2. CASE Reject
  <2>1. /\ busy /\ End("Rejected") /\ next_queue' = next_queue /\ exit' = exit
        /\ "Rejected" \in Statuses /\ next_queue \in Seq(PromiseRecords)
    BY <1>2 DEF Reject, Statuses, QueueInv
  <2> QED BY <1>0, <2>1, EndStep
<1>3. CASE CallSelf
  <2>1. /\ busy /\ End("Fulfilled") /\ exit' = exit /\ "Fulfilled" \in Statuses
        /\ \E made \in Makes : next_queue' = [k \in DOMAIN made |-> Unfulfilled(made[k])]
    BY <1>3 DEF CallSelf, Statuses
  <2>2. /\ next_queue' \in Seq(PromiseRecords)
        /\ \A k \in 1..Len(next_queue') : next_queue'[k].status = "Unfulfilled"
    BY <2>1, MadePromises, Zenon
  <2> QED BY <2>1, <2>2, EndStep
<1>4. CASE CallFails
  BY <1>4 DEF CallFails, QueueInv, ResultsInv
<1>5. CASE HostAction
  <2>1. /\ busy /\ next_queue' = next_queue /\ exit' = exit
        /\ {"Fulfilled", "FulfilledNone", "Rejected"} \subseteq Statuses
        /\ next_queue \in Seq(PromiseRecords)
        /\ \E s \in {"Fulfilled", "FulfilledNone", "Rejected"} : End(s)
    BY <1>5 DEF HostAction, Statuses, QueueInv
  <2>2. PICK s \in {"Fulfilled", "FulfilledNone", "Rejected"} : End(s)
    BY <2>1
  <2>3. s \in Statuses /\ s # "Unfulfilled" /\ s # "Pending"
    BY <2>1
  <2> QED BY <1>0, <2>1, <2>2, <2>3, EndStep
<1>6. CASE P2PBroadcast
  <2>1. /\ busy /\ End("Pending") /\ next_queue' = next_queue /\ exit' = exit
        /\ Action = "P2PBroadcast" /\ "Pending" \in Statuses /\ next_queue \in Seq(PromiseRecords)
    BY <1>6 DEF P2PBroadcast, Statuses, QueueInv
  <2> QED BY <1>0, <2>1, EndStep
<1>7. CASE NextQueue
  <2>1. CASE queue = <<>>
    <3>1. UNCHANGED <<queue, index, next_queue, busy>> /\ ~busy
      BY <1>7, <2>1 DEF NextQueue
    <3> QED BY <3>1 DEF QueueInv, ResultsInv
  <2>2. CASE queue # <<>>
    <3>1. /\ queue' = next_queue /\ next_queue' = <<>> /\ index' = 1 /\ UNCHANGED busy /\ ~busy
      BY <1>7, <2>2 DEF NextQueue
    <3>2. next_queue \in Seq(PromiseRecords) /\ Len(next_queue) \in Nat
      BY DEF QueueInv
    <3>3. QueueInv'
      <4>1. <<>> \in Seq(PromiseRecords) /\ 1 <= Len(next_queue) + 1
        BY <3>2
      <4> QED BY <3>1, <3>2, <4>1 DEF QueueInv
    <3>4. 1..index' - 1 = {} /\ DOMAIN next_queue' = {}
          /\ \A k \in index' + 1..Len(queue') : k \in 1..Len(next_queue)
      BY <3>1, <3>2
    <3>5. ResultsInv'
      BY <1>0, <3>1, <3>4 DEF ResultsInv
    <3> QED BY <3>3, <3>5
  <2> QED BY <2>1, <2>2
<1>8. CASE UNCHANGED runtimeVars
  BY <1>8 DEF runtimeVars, QueueInv, ResultsInv
<1> QED BY <1>1, <1>2, <1>3, <1>4, <1>5, <1>6, <1>7, <1>8 DEF RuntimeNext

LEMMA RuntimeInvariant == RuntimeSpec => [](QueueInv /\ ResultsInv)
  BY RuntimeInvInit, RuntimeInvStep, PTL DEF RuntimeSpec

\* A call sees the outcome of every promise before it in its queue, and of none
\* after it, for any task, also one that makes several calls per queue
\* (runtime.rs:148).
THEOREM EarlierResultsKnownHolds == RuntimeSpec => []EarlierResultsKnown
<1>1. ResultsInv => EarlierResultsKnown
  BY DEF ResultsInv, EarlierResultsKnown
<1> QED BY <1>1, RuntimeInvariant, PTL

-----------------------------------------------------------------------------
(* The queues implement a list.                                            *)

\* A step that changes the status of the current promise only.
LEMMA CallsKept ==
    ASSUME QueueInv, CallInv, index <= Len(queue), NEW s \in Statuses,
           queue' = [queue EXCEPT ![index].status = s],
           index' \in {index, index + 1}, next_queue' = next_queue
    PROVE  CallInv'
<1>1. /\ Len(queue') = Len(queue) /\ index \in Nat \ {0} /\ Len(queue) \in Nat
      /\ \A k \in 1..Len(queue) : queue'[k].action = queue[k].action
  BY StatusSet DEF QueueInv
<1>2. OneCall(queue')
  BY <1>1 DEF CallInv, OneCall
<1>3. ASSUME NEW k \in index'..Len(queue'), queue'[k].action = "CallSelf" PROVE next_queue' = <<>>
  <2>1. k \in index..Len(queue) /\ k \in 1..Len(queue)
    BY <1>1
  <2> QED BY <1>1, <1>3, <2>1 DEF CallInv
<1> QED BY <1>2, <1>3 DEF CallInv

LEMMA CallInvInit == QueueInv /\ RuntimeInit => CallInv
<1> SUFFICES ASSUME RuntimeInit PROVE CallInv
  OBVIOUS
<1>1. Len(queue) = 1 /\ next_queue = <<>> /\ Len(next_queue) = 0
  BY DEF RuntimeInit
<1>2. OneCall(queue) /\ OneCall(next_queue)
  BY <1>1 DEF OneCall
<1> QED BY <1>1, <1>2 DEF CallInv

LEMMA CallInvStep ==
    ASSUME SingleCall = TRUE, QueueInv, CallInv, [RuntimeNext]_runtimeVars
    PROVE  CallInv'
<1>0. busy => index <= Len(queue)
  BY DEF QueueInv
<1>1. CASE BeginPromise \/ Reject \/ HostAction \/ P2PBroadcast
  <2>1. /\ index <= Len(queue) /\ index' \in {index, index + 1} /\ next_queue' = next_queue
        /\ \E s \in Statuses : queue' = [queue EXCEPT ![index].status = s]
    BY <1>0, <1>1 DEF BeginPromise, Reject, HostAction, P2PBroadcast, End, Statuses
  <2> QED BY <2>1, CallsKept, Zenon
<1>2. CASE CallSelf
  <2>1. /\ busy /\ index' = index + 1 /\ queue[index].action = "CallSelf" /\ "Fulfilled" \in Statuses
        /\ queue' = [queue EXCEPT ![index].status = "Fulfilled"]
        /\ \E made \in Makes : next_queue' = [k \in DOMAIN made |-> Unfulfilled(made[k])]
    BY <1>2 DEF CallSelf, End, Action, Statuses
  <2>2. OneCall(next_queue')
    BY <2>1, MadePromises
  <2>3. /\ Len(queue') = Len(queue) /\ index \in Nat \ {0} /\ Len(queue) \in Nat
        /\ \A k \in 1..Len(queue) : queue'[k].action = queue[k].action
    BY <1>0, <2>1, StatusSet DEF QueueInv
  <2>4. OneCall(queue')
    BY <2>3 DEF CallInv, OneCall
  <2>5. ASSUME NEW k \in index'..Len(queue') PROVE queue'[k].action # "CallSelf"
    <3>1. k \in 1..Len(queue) /\ index \in 1..Len(queue) /\ k # index
      BY <1>0, <2>1, <2>3
    <3> QED BY <2>1, <2>3, <3>1 DEF CallInv, OneCall
  <2> QED BY <2>2, <2>4, <2>5 DEF CallInv
<1>3. CASE CallFails
  BY <1>3 DEF CallFails, CallInv
<1>4. CASE NextQueue
  <2>1. CASE queue = <<>>
    BY <1>4, <2>1 DEF NextQueue, CallInv
  <2>2. CASE queue # <<>>
    <3>1. queue' = next_queue /\ next_queue' = <<>>
      BY <1>4, <2>2 DEF NextQueue
    <3>2. OneCall(<<>>)
      BY DEF OneCall
    <3> QED BY <3>1, <3>2 DEF CallInv
  <2> QED BY <2>1, <2>2
<1>5. CASE UNCHANGED runtimeVars
  BY <1>5 DEF runtimeVars, CallInv
<1> QED BY <1>1, <1>2, <1>3, <1>4, <1>5 DEF RuntimeNext

Allowed == IF limited THEN {"CallSelf", "Http"} ELSE Actions

\* The steps of the list in terms of the queues.
LEMMA RunMaps ==
    ASSUME exit = "running", UNCHANGED <<exit, limited>>,
           Todo(queue, index, next_queue) # <<>>,
           Head(Todo(queue, index, next_queue)) \in Allowed,
           executed' = Append(executed, Head(Todo(queue, index, next_queue))),
           \/ /\ Head(Todo(queue, index, next_queue)) = "CallSelf"
              /\ List!Prolongs(Tail(Todo(queue, index, next_queue)), Todo(queue', index', next_queue'))
           \/ /\ Head(Todo(queue, index, next_queue)) # "CallSelf"
              /\ Todo(queue', index', next_queue') = Tail(Todo(queue, index, next_queue))
    PROVE  List!ListNext
  BY Zenon DEF List!ListNext, List!Run, Todo, Allowed

LEMMA SkipMaps ==
    ASSUME exit = "running", UNCHANGED <<exit, limited, executed>>,
           Todo(queue, index, next_queue) # <<>>,
           Head(Todo(queue, index, next_queue)) \notin Allowed,
           Todo(queue', index', next_queue') = Tail(Todo(queue, index, next_queue))
    PROVE  List!ListNext
  BY Zenon DEF List!ListNext, List!Skip, Todo, Allowed

LEMMA FailMaps ==
    ASSUME exit = "running", exit' \notin {"running", "EmptyQueue"},
           UNCHANGED <<queue, index, next_queue, limited, executed>>,
           Todo(queue, index, next_queue) # <<>>,
           Head(Todo(queue, index, next_queue)) = "CallSelf"
    PROVE  List!ListNext
  BY Zenon DEF List!ListNext, List!Fail, Todo

LEMMA StutterMaps ==
    ASSUME exit = "running", exit' \in {"running", "EmptyQueue"}, UNCHANGED <<limited, executed>>,
           Todo(queue', index', next_queue') = Todo(queue, index, next_queue)
    PROVE  UNCHANGED List!listVars
  BY Zenon DEF List!listVars, Todo

\* A promise that ends is the head of the list.
LEMMA EndedIsHead ==
    ASSUME QueueInv, busy, NEW s \in Statuses, End(s)
    PROVE  /\ queue' \in Seq(PromiseRecords) /\ Len(queue') = Len(queue) /\ index' = index + 1
           /\ Todo(queue, index, next_queue) # <<>>
           /\ Head(Todo(queue, index, next_queue)) = Action
           /\ Tail(Todo(queue, index, next_queue)) = Todo(queue', index + 1, next_queue)
<1>1. /\ queue \in Seq(PromiseRecords) /\ next_queue \in Seq(PromiseRecords)
      /\ index \in Nat \ {0} /\ index <= Len(queue)
  BY DEF QueueInv
<1>2. queue' = [queue EXCEPT ![index].status = s] /\ index' = index + 1
  BY DEF End
<1>3. /\ queue' \in Seq(PromiseRecords) /\ Len(queue') = Len(queue)
      /\ \A k \in 1..Len(queue) : queue'[k].action = queue[k].action
  BY <1>1, <1>2, StatusSet, Zenon
<1>4. SameActions(queue, queue')
  BY <1>3, Zenon DEF SameActions
<1>5. Drops(queue, queue', index, next_queue)
  BY <1>1, <1>3, <1>4, TodoStep, Zenon
<1> QED BY <1>2, <1>3, <1>5, Zenon DEF Action, Drops

LEMMA StepMaps ==
    ASSUME SingleCall = TRUE, QueueInv, CallInv, [RuntimeNext]_runtimeVars
    PROVE  [List!ListNext]_(List!listVars)
<1> USE DEF Statuses
<1>0. /\ queue \in Seq(PromiseRecords) /\ next_queue \in Seq(PromiseRecords)
      /\ index \in Nat \ {0} /\ index <= Len(queue) + 1
      /\ busy => index <= Len(queue) /\ exit = "running"
  BY DEF QueueInv
<1>1. CASE BeginPromise /\ UNCHANGED limited
  <2>1. /\ exit = "running" /\ index <= Len(queue) /\ "Pending" \in Statuses
        /\ queue' = [queue EXCEPT ![index].status = "Pending"]
        /\ UNCHANGED <<index, next_queue, exit, executed, limited>>
    BY <1>1 DEF BeginPromise
  <2>2. /\ queue' \in Seq(PromiseRecords) /\ Len(queue') = Len(queue)
        /\ \A k \in 1..Len(queue) : queue'[k].action = queue[k].action
    BY <2>1, StatusSet
  <2>3. Todo(queue', index, next_queue) = Todo(queue, index, next_queue)
    <3>1. index \in Nat \ {0} /\ index <= Len(queue)
      BY <1>0, <2>1
    <3>2. SameActions(queue, queue')
      BY <2>2, Zenon DEF SameActions
    <3> QED BY <1>0, <2>2, <3>1, <3>2, TodoSame, Zenon
  <2> QED BY <2>1, <2>3, StutterMaps
<1>2. CASE Reject /\ UNCHANGED limited
  <2>1. /\ busy /\ End("Rejected") /\ "Rejected" \in Statuses
        /\ UNCHANGED <<next_queue, exit, executed, limited>>
        /\ limited /\ Action \notin {"CallSelf", "Http"}
    BY <1>2 DEF Reject, Rejects, is_limited_action
  <2>2. Action \notin Allowed
    BY <2>1 DEF Allowed
  <2>3. /\ index' = index + 1 /\ Todo(queue, index, next_queue) # <<>>
        /\ Head(Todo(queue, index, next_queue)) = Action
        /\ Tail(Todo(queue, index, next_queue)) = Todo(queue', index + 1, next_queue)
    BY <2>1, EndedIsHead
  <2> QED BY <1>0, <2>1, <2>2, <2>3, SkipMaps
<1>3. CASE CallSelf /\ UNCHANGED limited
  <2>1. /\ busy /\ End("Fulfilled") /\ "Fulfilled" \in Statuses
        /\ Action = "CallSelf" /\ UNCHANGED <<exit, limited>> /\ executed' = Append(executed, Action)
        /\ \E made \in Makes : next_queue' = [k \in DOMAIN made |-> Unfulfilled(made[k])]
    BY <1>3 DEF CallSelf
  <2>2. /\ index' = index + 1 /\ Todo(queue, index, next_queue) # <<>>
        /\ queue' \in Seq(PromiseRecords) /\ Len(queue') = Len(queue)
        /\ Head(Todo(queue, index, next_queue)) = Action
        /\ Tail(Todo(queue, index, next_queue)) = Todo(queue', index + 1, next_queue)
    BY <2>1, EndedIsHead
  <2>3. next_queue = <<>>
    <3>1. index \in index..Len(queue)
      BY <1>0, <2>1
    <3> QED BY <2>1, <3>1 DEF CallInv, Action
  <2>4. next_queue' \in Seq(PromiseRecords)
    BY <2>1, MadePromises
  <2>5. index + 1 \in Nat \ {0} /\ index + 1 <= Len(queue') + 1
    BY <1>0, <2>1, <2>2
  <2>6. List!Prolongs(Todo(queue', index + 1, <<>>), Todo(queue', index + 1, next_queue'))
    BY <2>2, <2>4, <2>5, TodoCall
  <2>7. List!Prolongs(Tail(Todo(queue, index, next_queue)), Todo(queue', index', next_queue'))
    BY <2>2, <2>3, <2>6, Zenon
  <2>8. Action \in Allowed
    BY <2>1 DEF Allowed, Actions
  <2> QED BY <1>0, <2>1, <2>2, <2>7, <2>8, RunMaps
<1>4. CASE CallFails /\ UNCHANGED limited
  <2>1. /\ busy /\ Action = "CallSelf" /\ exit' \notin {"running", "EmptyQueue"}
        /\ UNCHANGED <<queue, index, next_queue, executed, limited>>
    BY <1>4 DEF CallFails, Failures
  <2>2. /\ Todo(queue, index, next_queue) # <<>>
        /\ Head(Todo(queue, index, next_queue)) = Action
    <3>1. SameActions(queue, queue)
      BY <1>0 DEF SameActions
    <3>2. Drops(queue, queue, index, next_queue)
      BY <1>0, <2>1, <3>1, TodoStep, Zenon
    <3> QED BY <3>2, Zenon DEF Action, Drops
  <2> QED BY <1>0, <2>1, <2>2, FailMaps
<1>5. CASE (HostAction \/ P2PBroadcast) /\ UNCHANGED limited
  <2>1. /\ busy /\ Action \in {"Http", "Host", "P2PBroadcast"} /\ ~Rejects
        /\ UNCHANGED <<next_queue, exit, limited>> /\ executed' = Append(executed, Action)
        /\ \E s \in Statuses : End(s)
    BY <1>5 DEF HostAction, P2PBroadcast
  <2>2. /\ index' = index + 1 /\ Todo(queue, index, next_queue) # <<>>
        /\ Head(Todo(queue, index, next_queue)) = Action
        /\ Tail(Todo(queue, index, next_queue)) = Todo(queue', index + 1, next_queue)
    BY <2>1, EndedIsHead
  <2>3. Action \in Allowed /\ Action # "CallSelf"
    BY <2>1 DEF Rejects, is_limited_action, Allowed, Actions
  <2> QED BY <1>0, <2>1, <2>2, <2>3, RunMaps
<1>6. CASE NextQueue /\ UNCHANGED limited
  <2>1. exit = "running" /\ index = Len(queue) + 1 /\ UNCHANGED <<executed, limited>>
    BY <1>0, <1>6 DEF NextQueue
  <2>2. CASE queue = <<>>
    <3>1. exit' = "EmptyQueue" /\ UNCHANGED <<queue, index, next_queue>>
      BY <1>6, <2>2 DEF NextQueue
    <3> QED BY <2>1, <3>1, StutterMaps
  <2>3. CASE queue # <<>>
    <3>1. exit' = exit /\ queue' = next_queue /\ next_queue' = <<>> /\ index' = 1
      BY <1>6, <2>3 DEF NextQueue
    <3>2. Todo(queue, Len(queue) + 1, next_queue) = Todo(next_queue, 1, <<>>)
      BY <1>0, TodoNext
    <3> QED BY <2>1, <3>1, <3>2, StutterMaps
  <2> QED BY <2>2, <2>3
<1>7. CASE UNCHANGED runtimeVars
  BY <1>7 DEF runtimeVars, List!listVars, ActionsOf
<1> QED BY <1>1, <1>2, <1>3, <1>4, <1>5, <1>6, <1>7 DEF RuntimeNext

LEMMA InitMaps == RuntimeInit => List!ListInit
<1> SUFFICES ASSUME RuntimeInit PROVE List!ListInit
  OBVIOUS
<1>1. /\ queue = <<Unfulfilled("CallSelf")>> /\ next_queue = <<>> /\ index = 1
      /\ executed = <<>> /\ exit = "running"
  BY DEF RuntimeInit
<1>2. QueueInv
  BY RuntimeInvInit
<1>3. Len(queue) = 1 /\ queue[1].action = "CallSelf"
  BY <1>1 DEF Unfulfilled
<1>4. TodoIs(queue, 1, next_queue, 1)
  <2>1. 1 \in Nat \ {0} /\ Len(queue) + 1 = 1 + 1
    BY <1>3
  <2> QED BY <1>2, <2>1, TodoSeq DEF QueueInv
<1>5. Todo(queue, index, next_queue) = <<"CallSelf">>
  <2> DEFINE t == Todo(queue, index, next_queue)
  <2>1. t \in Seq(Actions) /\ Len(t) = 1 + Len(next_queue)
        /\ \A k \in 1..1 : t[k] = queue[(1 + k) - 1].action
    BY <1>1, <1>4 DEF TodoIs
  <2> HIDE DEF t
  <2>2. Len(t) = 1 /\ t[1] = "CallSelf"
    BY <1>1, <1>3, <2>1
  <2>3. t = <<"CallSelf">>
    <3>1. /\ <<"CallSelf">> \in Seq(Actions) /\ Len(<<"CallSelf">>) = 1
          /\ <<"CallSelf">>[1] = "CallSelf"
      BY DEF Actions
    <3>2. Len(t) = Len(<<"CallSelf">>) /\ \A k \in 1..Len(t) : t[k] = <<"CallSelf">>[k]
      BY <2>2, <3>1
    <3> QED BY <2>1, <3>1, <3>2, SameSequence, Zenon
  <2> QED BY <2>3 DEF t
<1> QED BY <1>1, <1>5 DEF List!ListInit, Todo

\* For any bounds, the two queues of the runtime implement one list of promises
\* that are executed once and in the order in which they were made, if the task
\* makes at most one call per queue (runtime.rs:114-122, 204, 271-283).
THEOREM PromisesRunInOrderHolds ==
    ASSUME SingleCall = TRUE
    PROVE  RuntimeSpec => PromisesRunInOrder
<1>1. QueueInv /\ ResultsInv /\ CallInv /\ [RuntimeNext]_runtimeVars => CallInv'
  BY CallInvStep
<1>2. QueueInv /\ ResultsInv /\ CallInv /\ [RuntimeNext]_runtimeVars => [List!ListNext]_(List!listVars)
  BY StepMaps
<1>3. RuntimeInit => CallInv
  BY RuntimeInvInit, CallInvInit
<1> QED BY <1>1, <1>2, <1>3, InitMaps, RuntimeInvariant, PTL
       DEF RuntimeSpec, PromisesRunInOrder, List!ListSpec

-----------------------------------------------------------------------------
\* What rests on the library, which is brought in only here: facts about finite
\* sets.
INSTANCE FiniteSetTheorems

\* A caller that has started MaxRuns runs has used up the bound of all.
LEMMA BegunByOne ==
    ASSUME NEW c \in Callers, runs \in [Callers -> 0..MaxRuns], Cardinality(Begun) < MaxRuns
    PROVE  runs[c] + 1 \in 0..MaxRuns
<1> DEFINE own == {c} \X (1..MaxRuns)
<1>1. MaxRuns \in Nat /\ IsFiniteSet(Callers)
  BY ChainClientAssumption DEF Callers
<1>2. IsFiniteSet(1..MaxRuns) /\ Cardinality(1..MaxRuns) = MaxRuns
  <2>1. IsFiniteSet(1..MaxRuns)
        /\ Cardinality(1..MaxRuns) = IF 1 > MaxRuns THEN 0 ELSE MaxRuns - 1 + 1
    BY <1>1, 1 \in Int, MaxRuns \in Int, FS_Interval
  <2> QED BY <1>1, <2>1
<1>3. IsFiniteSet(own) /\ Cardinality(own) = MaxRuns
  <2>1. IsFiniteSet({c}) /\ Cardinality({c}) = 1
    BY FS_Singleton, Zenon
  <2>2. IsFiniteSet(own) /\ Cardinality(own) = Cardinality({c}) * Cardinality(1..MaxRuns)
    BY <1>2, <2>1, FS_Product, Zenon
  <2> HIDE DEF own
  <2> QED BY <1>1, <1>2, <2>1, <2>2
<1>4. IsFiniteSet(Begun)
  <2>1. IsFiniteSet(Callers \X (1..MaxRuns))
    BY <1>1, <1>2, FS_Product
  <2>2. Begun \subseteq Callers \X (1..MaxRuns)
    BY DEF Begun
  <2> QED BY <2>1, <2>2, FS_Subset
<1>5. ASSUME runs[c] = MaxRuns PROVE FALSE
  <2>1. own \subseteq Begun
    BY <1>1, <1>5 DEF Begun
  <2>2. Cardinality(own) <= Cardinality(Begun)
    BY <1>4, <2>1, FS_Subset
  <2>3. Cardinality(Begun) \in Nat
    BY <1>4, FS_CardinalityType
  <2> HIDE DEF own
  <2> QED BY <1>1, <1>3, <2>2, <2>3
<1> QED BY <1>1, <1>5

LEMMA RunsStayInRange == RunsInRange
  BY BegunByOne DEF RunsInRange

\* Whatever callers, faults and time limits there are, no caller runs past the
\* end of its program (setup.rs:37-51), waits longer than the limit lets it
\* (near_chain.rs:155), or reports and sends anything outside of its runs.
THEOREM ClientTypeCorrect == Spec => []TypeOK
<1>1. ClientInv /\ RangeInv => TypeOK
  <2> SUFFICES ASSUME ClientInv, RangeInv PROVE TypeOK
    OBVIOUS
  <2>1. ASSUME NEW c \in Callers PROVE step[c] \in 1..Len(Program(c))
    <3>1. Len(Program(c)) \in Nat /\ step[c] \in 1..3 /\ step[c] <= Len(Program(c))
      BY ProgramSteps DEF ClientInv, ClientType
    <3> QED BY <3>1
  <2>2. {r.call : r \in told} \subseteq Calls
    BY Zenon DEF RangeInv
  <2> QED BY <2>1, <2>2, Zenon DEF ClientInv, ClientType, RangeInv, TypeOK, Places, Signers, Final
<1> QED BY <1>1, ClientInvariant, RangeInvInit, RangeInvStep, RunsStayInRange, PTL DEF Spec
=============================================================================
