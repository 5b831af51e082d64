----------------------------- MODULE JobManager -----------------------------
(***************************************************************************)
(* How a node schedules its tasks (node/src): events from the ticker, from *)
(* the peer-to-peer network and from running tasks are put in the event    *)
(* queue; every 200 ms the job manager takes one of them and sends it to   *)
(* the mailbox that the runtime workers, threads of a SyncArbiter, share.  *)
(* A command of the RPC server goes to that mailbox directly.              *)
(*                                                                         *)
(* An event is its id and a serial number that tells apart two events with *)
(* one id.  Module Node composes this with the host and the channels.      *)
(***************************************************************************)
EXTENDS Integers, Sequences

CONSTANTS
    CliId,      \* id of the events of the RPC server, "test" in the code
    TickId,     \* "BatchChainTick"
    P2PId,      \* "p2p-message"
    TriggerId,  \* the id of an event that a task triggers
    Workers,    \* runtime_worker_threads threads
    Idle,       \* what an idle worker handles
    Ended,      \* a worker whose thread has panicked
    Unwinds     \* a panic ends its thread; in the release build it aborts the process

VARIABLES
    event_queue,        \* App.event_queue
    running_event_ids,  \* App.running_event_ids
    mailbox,            \* the mailbox of the runtime workers
    worker,             \* the event each worker handles
    arrived             \* number of events so far

jobVars == <<event_queue, running_event_ids, mailbox, worker, arrived>>

EventIds == {CliId, TickId, P2PId, TriggerId}
Event == [id : EventIds, serial : Nat]

-----------------------------------------------------------------------------
add(queue, event) == Append(queue, event)

\* Positions of the events that may be taken, and the first of them.
Allowed(queue, skip_ids) == {k \in DOMAIN queue : queue[k].id \notin skip_ids}

\* Mutant: the last event that may be taken is taken.
NextFromEnd(queue, skip_ids) == CHOOSE k \in Allowed(queue, skip_ids) :
                                    \A l \in Allowed(queue, skip_ids) : l <= k
get_next(queue, skip_ids) == CHOOSE k \in Allowed(queue, skip_ids) :
                                    \A l \in Allowed(queue, skip_ids) : k <= l

NewEvent(id) == [id |-> id, serial |-> arrived + 1]

\* A worker reads the consensus binary when its thread starts and panics when
\* there is none.
FirstStates == IF Unwinds THEN {Idle, Ended} ELSE {Idle}

JobInit ==
    /\ event_queue = <<>>
    /\ running_event_ids = {}
    /\ mailbox = <<>>
    /\ \E state \in FirstStates : worker = [w \in Workers |-> state]

\* The queue, the mailbox and the threads of a process that has just started.
JobRestart ==
    /\ event_queue' = <<>>
    /\ running_event_ids' = {}
    /\ mailbox' = <<>>
    /\ \E state \in FirstStates : worker' = [w \in Workers |-> state]

\* A tick, a message of a peer or an event that a task triggers.
AddEventToQueue(event) ==
    /\ event_queue' = add(event_queue, event)
    /\ UNCHANGED <<running_event_ids, mailbox, worker>>

\* Mutant: the job manager handles an event only when the queue holds another.
DispatchFromTwo ==
    /\ Len(event_queue) > 1
    /\ mailbox' = Append(mailbox, Head(event_queue))
    /\ event_queue' = Tail(event_queue)
    /\ UNCHANGED <<running_event_ids, worker, arrived>>

\* One round of the job manager.  running_event_ids is read and never written.
StartJobManager ==
    /\ Allowed(event_queue, running_event_ids) # {}
    /\ LET k == get_next(event_queue, running_event_ids)
       IN  /\ mailbox' = Append(mailbox, event_queue[k])
           /\ event_queue' = SubSeq(event_queue, 1, k - 1) \o SubSeq(event_queue, k + 1, Len(event_queue))
    /\ UNCHANGED <<running_event_ids, worker, arrived>>

\* The RPC server sends the command to the workers itself.
cli ==
    /\ mailbox' = Append(mailbox, NewEvent(CliId))
    /\ arrived' = arrived + 1
    /\ UNCHANGED <<event_queue, running_event_ids, worker>>

\* A worker handles the next RuntimeJob of the mailbox ...
TakeJob(w) ==
    /\ worker[w] = Idle /\ mailbox # <<>>
    /\ worker' = [worker EXCEPT ![w] = Head(mailbox)]
    /\ mailbox' = Tail(mailbox)
    /\ UNCHANGED <<event_queue, running_event_ids, arrived>>

\* ... of which a message that is not text ends its thread at once ...
PanicOnJob(w) ==
    /\ Unwinds
    /\ worker[w] = Idle /\ mailbox # <<>> /\ Head(mailbox).id = P2PId
    /\ worker' = [worker EXCEPT ![w] = Ended]
    /\ mailbox' = Tail(mailbox)
    /\ UNCHANGED <<event_queue, running_event_ids, arrived>>

Running(w) == worker[w] \notin {Idle, Ended}

\* ... until the runtime has executed its promises ...
FinishJob(w) ==
    /\ Running(w)
    /\ worker' = [worker EXCEPT ![w] = Idle]
    /\ UNCHANGED <<event_queue, running_event_ids, mailbox, arrived>>

\* ... or its thread panics, which the pool does not start again.
EndWorker(w) ==
    /\ Unwinds
    /\ worker' = [worker EXCEPT ![w] = Ended]
    /\ UNCHANGED <<event_queue, running_event_ids, mailbox, arrived>>
=============================================================================
