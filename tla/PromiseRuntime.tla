--------------------------- MODULE PromiseRuntime ---------------------------
(***************************************************************************)
(* The runtime that executes a task (runtime/core/src/runtime.rs): a queue *)
(* of promises is executed in order; the promises that the task makes      *)
(* meanwhile are the next queue.  The first queue calls the entry point.   *)
(*                                                                         *)
(* The code of a task is any code: a call returns with any promises made,  *)
(* or fails.  A host action (database, chain, event) succeeds or fails.    *)
(***************************************************************************)
EXTENDS Integers, Sequences

CONSTANTS
    SingleCall,     \* the task makes at most one call promise per queue
    MaxPromises,    \* bound on the promises that a call makes
    MaxDepth        \* bound on the queues of a run

ASSUME RuntimeAssumption == SingleCall \in BOOLEAN /\ MaxPromises \in Nat /\ MaxDepth \in Nat

VARIABLES
    limited,        \* limited_runtime: what is not a call or an HTTP fetch is rejected
    queue,          \* promise_queue_mut
    index,          \* the promise that is executed
    busy,           \* it is being executed
    next_queue,     \* next_promise_queue
    last_queue,     \* the end of promise_queue_trace
    depth,          \* the number of queues so far
    exit,           \* exit_info, or "running"
    result,         \* VmResult.result
    executed        \* history: the actions that were executed, in order

runtimeVars ==
    <<limited, queue, index, busy, next_queue, last_queue, depth, exit, result, executed>>

Actions == {"CallSelf", "Http", "Host", "P2PBroadcast"}
is_limited_action(action) == action \notin {"CallSelf", "Http"}
Unfulfilled(action) == [action |-> action, status |-> "Unfulfilled"]

\* What code may promise in one call.
Makes ==
    {made \in UNION {[1..n -> Actions] : n \in 0..MaxPromises} :
        /\ (\E k \in DOMAIN made : made[k] = "CallSelf") => depth < MaxDepth
        /\ SingleCall => \A k, l \in DOMAIN made :
                            made[k] = "CallSelf" /\ made[l] = "CallSelf" => k = l}

-----------------------------------------------------------------------------
\* start_runtime: the entry point is the only promise of the first queue.
RuntimeInit ==
    /\ limited \in BOOLEAN
    /\ queue = <<Unfulfilled("CallSelf")>>
    /\ index = 1 /\ busy = FALSE
    /\ next_queue = <<>> /\ last_queue = <<>>
    /\ depth = 1
    /\ exit = "running" /\ result = "none"
    /\ executed = <<>>

\* The next promise of the queue is taken up.
BeginPromise ==
    /\ exit = "running" /\ ~busy /\ index <= Len(queue)
    /\ queue' = [queue EXCEPT ![index].status = "Pending"]
    /\ busy' = TRUE
    /\ UNCHANGED <<index, next_queue, last_queue, depth, exit, result, executed>>

\* Mutant: the outcome is not recorded.
EndUnrecorded(status) ==
    /\ queue' = queue
    /\ busy' = FALSE
    /\ index' = index + 1

\* It ends with a status.
End(status) ==
    /\ queue' = [queue EXCEPT ![index].status = status]
    /\ busy' = FALSE
    /\ index' = index + 1

Action == queue[index].action

Rejects == limited /\ is_limited_action(Action)

Reject ==
    /\ busy /\ Rejects
    /\ End("Rejected")
    /\ UNCHANGED <<next_queue, last_queue, depth, exit, result, executed>>

\* A call returns.  Its promises replace those of an earlier call of the queue.
CallSelf ==
    /\ busy /\ Action = "CallSelf"
    /\ \E made \in Makes : next_queue' = [k \in DOMAIN made |-> Unfulfilled(made[k])]
    /\ End("Fulfilled")
    /\ executed' = Append(executed, Action)
    /\ UNCHANGED <<last_queue, depth, exit, result>>

\* The value that start_runtime reads from the last queue that was completed.
ResultOf(completed) ==
    IF completed # <<>> /\ completed[Len(completed)].status \in {"Fulfilled", "Rejected"}
    THEN "data" ELSE "none"

\* The results of a run that end it before its promises have run.
Failures == {"FailedToGetWASMFn", "ExecutionError"}

\* A call traps, or its function or its pipes are missing: the run ends at once.
CallFails ==
    /\ busy /\ Action = "CallSelf"
    /\ exit' \in Failures
    /\ busy' = FALSE
    /\ result' = ResultOf(last_queue)
    /\ UNCHANGED <<queue, index, next_queue, last_queue, depth, executed>>

\* A fetch or an action of the host adapter; db_get may find nothing.
HostAction ==
    /\ busy /\ Action \in {"Http", "Host"} /\ ~Rejects
    /\ \/ End("Fulfilled")
       \/ End("FulfilledNone") /\ Action = "Host"
       \/ End("Rejected")
    /\ executed' = Append(executed, Action)
    /\ UNCHANGED <<next_queue, last_queue, depth, exit, result>>

\* A broadcast is handed to the network; its status is not updated.
P2PBroadcast ==
    /\ busy /\ Action = "P2PBroadcast" /\ ~Rejects
    /\ End("Pending")
    /\ executed' = Append(executed, Action)
    /\ UNCHANGED <<next_queue, last_queue, depth, exit, result>>

\* Mutant: the next queue is not emptied when it becomes the current one.
KeepNextQueue ==
    /\ exit = "running" /\ ~busy /\ index > Len(queue)
    /\ IF queue = <<>>
       THEN exit' = "EmptyQueue" /\ result' = ResultOf(last_queue)
            /\ UNCHANGED <<queue, index, next_queue, last_queue, depth>>
       ELSE last_queue' = queue /\ queue' = next_queue /\ index' = 1 /\ depth' = depth + 1
            /\ UNCHANGED <<next_queue, exit, result>>
    /\ UNCHANGED <<busy, executed>>

\* Mutant: an empty queue is executed like any other.
EmptyQueueGoesOn ==
    /\ exit = "running" /\ ~busy /\ index > Len(queue) /\ queue # <<>>
    /\ last_queue' = queue /\ queue' = next_queue /\ next_queue' = <<>>
    /\ index' = 1 /\ depth' = depth + 1
    /\ UNCHANGED <<busy, executed, exit, result>>

\* The queue is done: the next one follows, and an empty one ends the run.
NextQueue ==
    /\ exit = "running" /\ ~busy /\ index > Len(queue)
    /\ IF queue = <<>>
       THEN exit' = "EmptyQueue" /\ result' = ResultOf(last_queue)
            /\ UNCHANGED <<queue, index, next_queue, last_queue, depth>>
       ELSE last_queue' = queue /\ queue' = next_queue /\ next_queue' = <<>>
            /\ index' = 1 /\ depth' = depth + 1 /\ UNCHANGED <<exit, result>>
    /\ UNCHANGED <<busy, executed>>

RuntimeNext ==
    /\ \/ BeginPromise \/ Reject
       \/ CallSelf \/ CallFails \/ HostAction \/ P2PBroadcast
       \/ NextQueue
    /\ UNCHANGED limited

\* A worker runs the task to its end; calls and actions return.
RuntimeSpec == RuntimeInit /\ [][RuntimeNext]_runtimeVars /\ WF_runtimeVars(RuntimeNext)

-----------------------------------------------------------------------------
ActionsOf(promises) == [k \in DOMAIN promises |-> promises[k].action]

List == INSTANCE WorkList WITH
    Call <- "CallSelf",
    allowed <- IF limited THEN {"CallSelf", "Http"} ELSE Actions,
    todo <- ActionsOf(SubSeq(queue, index, Len(queue)) \o next_queue),
    done <- executed,
    stopped <- exit \notin {"running", "EmptyQueue"}

\* The queues implement one list of promises: each is executed once, in the
\* order in which the task made them, and a limited runtime executes only calls
\* and fetches (runtime.rs:114-122, 204, 271-283).
PromisesRunInOrder == List!ListSpec

\* When a call runs, Promise::result sees the outcome of every promise before
\* it, and no outcome of a later one (runtime.rs:148); a broadcast has none.
EarlierResultsKnown ==
    busy =>
        /\ \A k \in 1..index - 1 :
              queue[k].status = "Unfulfilled" \/ queue[k].status = "Pending"
                  => queue[k].action = "P2PBroadcast" /\ queue[k].status = "Pending"
        /\ \A k \in index + 1..Len(queue) : queue[k].status = "Unfulfilled"

\* The run of a task that stops calling itself comes to an end: the queues get
\* empty (runtime.rs:110-112).
RunEnds == <>(exit # "running")
=============================================================================
