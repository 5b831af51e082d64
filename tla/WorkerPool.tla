----------------------------- MODULE WorkerPool -----------------------------
(***************************************************************************)
(* What the node promises about events (the task of the job manager, the   *)
(* event queue and the pool of runtime workers together): an event is      *)
(* started at most once, by one worker, and events of one origin are       *)
(* started in the order in which they arrived.  An event is lost only with *)
(* the worker that cannot run it or with the process.                      *)
(***************************************************************************)
EXTENDS Sequences

CONSTANTS
    Events,     \* what can be submitted
    Origins,    \* the ways into the pool
    Workers,
    Idle        \* what an idle worker runs

VARIABLES
    waiting,    \* events of each origin that no worker has started
    running     \* what each worker runs

poolVars == <<waiting, running>>

PoolInit ==
    /\ waiting = [o \in Origins |-> <<>>]
    /\ running = [w \in Workers |-> Idle]

Submit(o, e) ==
    /\ e \in Events
    /\ waiting' = [waiting EXCEPT ![o] = Append(@, e)]
    /\ UNCHANGED running

Start(w, o) ==
    /\ running[w] = Idle
    /\ waiting[o] # <<>>
    /\ running' = [running EXCEPT ![w] = Head(waiting[o])]
    /\ waiting' = [waiting EXCEPT ![o] = Tail(@)]

\* A worker that cannot run the event drops it.
Drop(w, o) ==
    /\ running[w] = Idle
    /\ waiting[o] # <<>>
    /\ waiting' = [waiting EXCEPT ![o] = Tail(@)]
    /\ UNCHANGED running

Finish(w) ==
    /\ running[w] # Idle
    /\ running' = [running EXCEPT ![w] = Idle]
    /\ UNCHANGED waiting

\* The process is started again.
Reset ==
    /\ waiting' = [o \in Origins |-> <<>>]
    /\ running' = [w \in Workers |-> Idle]

PoolNext ==
    \/ \E o \in Origins : \E k \in DOMAIN waiting'[o] : Submit(o, waiting'[o][k])
    \/ \E w \in Workers, o \in Origins : Start(w, o) \/ Drop(w, o)
    \/ \E w \in Workers : Finish(w)
    \/ Reset

PoolSpec == PoolInit /\ [][PoolNext]_poolVars
=============================================================================
