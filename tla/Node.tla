-------------------------------- MODULE Node --------------------------------
(***************************************************************************)
(* A running node (node/src/lib.rs, node/src/app): the job manager and its *)
(* workers, the host that the tasks on the workers call, and the channels  *)
(* to and from the peer-to-peer server, with the steps in which they meet. *)
(* The process may be stopped and started again.                           *)
(***************************************************************************)
EXTENDS Host, P2PChannels, FiniteSets

CONSTANTS
    MaxEvents,      \* bound on the events up to which a command may come
    MaxMessages,    \* bound on the events and restarts up to which a message or a later tick may come
    MaxRestarts     \* bound on the restarts of the process

ASSUME NodeAssumption ==
    /\ MaxEvents \in Nat /\ MaxMessages \in Nat /\ MaxRestarts \in Nat
    /\ IsFiniteSet(Workers) /\ Workers \cap {"SetAppAddress", "BatchTickManager"} = {}
    /\ CliId \notin {TickId, P2PId, TriggerId}
    /\ Unwinds \in BOOLEAN

VARIABLE restarts   \* number of restarts so far

vars == <<jobVars, hostVars, channelVars, restarts>>

\* Every event has a serial number of its own; only the first tick of a process
\* and the events of tasks come without regard to the bounds.
MaxSerial == MaxEvents + MaxMessages + MaxCalls + MaxRestarts + 1
Arrives == arrived' = arrived + 1

Init ==
    /\ JobInit /\ arrived = 0
    /\ HostInit
    /\ ChannelsInit
    /\ restarts = 0

-----------------------------------------------------------------------------
AppStarts ==
    /\ Started
    /\ UNCHANGED <<jobVars, channelVars, restarts>>

ManageJobs ==
    /\ started
    /\ StartJobManager
    /\ UNCHANGED <<hostVars, channelVars, restarts>>

RpcCli ==
    /\ arrived < MaxEvents
    /\ cli
    /\ UNCHANGED <<hostVars, channelVars, restarts>>

RpcPeers ==
    /\ SendCommand
    /\ UNCHANGED <<jobVars, hostVars, restarts>>

\* A tick adds an event once the host knows the app.
FirstTick ==
    /\ BatchTickManager
    /\ IF app_actor_addr THEN AddEventToQueue(NewEvent(TickId)) /\ Arrives
                         ELSE UNCHANGED jobVars
    /\ UNCHANGED <<channelVars, restarts>>

Tick ==
    /\ arrived + restarts < MaxMessages
    /\ NextTick
    /\ AddEventToQueue(NewEvent(TickId)) /\ Arrives
    /\ UNCHANGED <<channelVars, restarts>>

HostLearnsApp ==
    /\ SetAppAddress
    /\ UNCHANGED <<jobVars, channelVars, restarts>>

GossipArrives ==
    /\ arrived + restarts < MaxMessages
    /\ Gossip(NewEvent(P2PId)) /\ Arrives
    /\ UNCHANGED <<event_queue, running_event_ids, mailbox, worker, hostVars, restarts>>

\* Mutant: messages are taken up only while no worker is busy.
ListenWhenIdle ==
    /\ Receive
    /\ \A w \in Workers : worker[w] = Idle
    /\ AddEventToQueue(Head(p2p_messages))
    /\ UNCHANGED <<arrived, hostVars, restarts>>

listen ==
    /\ Receive
    /\ AddEventToQueue(Head(p2p_messages))
    /\ UNCHANGED <<arrived, hostVars, restarts>>

\* The loop of the peer-to-peer server.
P2PLoop == SendMessage \/ HandleCommand
LoopSteps ==
    /\ P2PLoop
    /\ UNCHANGED <<jobVars, hostVars, restarts>>

LoopEnds ==
    /\ Unwinds
    /\ LoopPanics
    /\ UNCHANGED <<jobVars, hostVars, restarts>>

-----------------------------------------------------------------------------
Take(w) ==
    /\ TakeJob(w)
    /\ UNCHANGED <<hostVars, channelVars, restarts>>

\* A task runs: it makes a call, or it ends.
TaskAsks(w) ==
    /\ Running(w)
    /\ \E request \in Requests : Ask(w, request)
    /\ UNCHANGED <<jobVars, channelVars, restarts>>

Finish(w) ==
    /\ call[w] = NoCall
    /\ FinishJob(w)
    /\ UNCHANGED <<hostVars, channelVars, restarts>>

NotText(w) ==
    /\ PanicOnJob(w)
    /\ UNCHANGED <<hostVars, channelVars, restarts>>

Broadcast(w) ==
    /\ SendCommand
    /\ BroadcastEnds(w)
    /\ UNCHANGED <<jobVars, restarts>>

\* The channel is closed, and the expect of the runtime panics.
BroadcastFails(w) ==
    /\ p2p_loop = Halted
    /\ BroadcastEnds(w)
    /\ EndWorker(w)
    /\ UNCHANGED <<channelVars, restarts>>

\* The event of a task comes to the queue of the app.
Trigger(w) ==
    /\ TriggerEvent(w)
    /\ IF app_actor_addr THEN AddEventToQueue(NewEvent(TriggerId)) /\ Arrives
                         ELSE UNCHANGED jobVars
    /\ UNCHANGED <<channelVars, restarts>>

\* The host takes up the call of worker w ...
TakeUp(w) ==
    /\ HandleDatabase(w) \/ HandleRemote(w)
    /\ UNCHANGED <<jobVars, channelVars, restarts>>

\* ... and worker w gets its answer, or an error.
Answer(w) ==
    /\ DatabaseAnswers(w) \/ MailboxClosed(w)
    /\ UNCHANGED <<jobVars, channelVars, restarts>>

Network(w) ==
    /\ RemoteAnswers(w) \/ HttpFetchPanics(w)
    /\ UNCHANGED <<jobVars, channelVars, restarts>>

DatabaseThread ==
    /\ ExecuteDatabase
    /\ UNCHANGED <<jobVars, channelVars, restarts>>

\* The process ends, by ctrl-c or by any panic of a build that aborts, and is
\* started again.
Restart ==
    /\ restarts < MaxRestarts
    /\ restarts' = restarts + 1
    /\ JobRestart
    /\ HostRestarts
    /\ ChannelsRestart
    /\ UNCHANGED arrived

Next ==
    \/ AppStarts \/ ManageJobs \/ RpcCli \/ RpcPeers
    \/ HostLearnsApp \/ FirstTick \/ Tick
    \/ GossipArrives \/ listen \/ LoopSteps \/ LoopEnds
    \/ \E w \in Workers :
        \/ Take(w) \/ TaskAsks(w) \/ Finish(w) \/ NotText(w)
        \/ Broadcast(w) \/ BroadcastFails(w) \/ Trigger(w) \/ TakeUp(w) \/ Answer(w) \/ Network(w)
    \/ DatabaseThread
    \/ Restart

\* Actors, threads and the loop go on while they have something to do, a task
\* ends, and the senders to a full channel are served in turn.  Nothing makes
\* the network answer: no request has a timeout.
AppGoesOn == AppStarts \/ ManageJobs
HostHandles == HostLearnsApp \/ FirstTick \/ \E w \in Workers : Trigger(w) \/ TakeUp(w)
WorkerGoesOn(w) == Take(w) \/ Finish(w) \/ Answer(w) \/ BroadcastFails(w)
Fairness ==
    /\ WF_vars(AppGoesOn) /\ WF_vars(HostHandles) /\ WF_vars(DatabaseThread)
    /\ WF_vars(listen) /\ WF_vars(LoopSteps)
    /\ \A w \in Workers : WF_vars(WorkerGoesOn(w)) /\ SF_vars(Broadcast(w))

Spec == Init /\ [][Next]_vars /\ Fairness

-----------------------------------------------------------------------------
TypeOK ==
    /\ event_queue \in Seq(Event) /\ mailbox \in Seq(Event)
    /\ running_event_ids = {}
    /\ worker \in [Workers -> Event \cup {Idle, Ended}]
    /\ arrived \in 0..MaxSerial
    /\ call \in [Workers -> [op : DatabaseOps \cup {"none", "remote", "trigger_event", "p2p_broadcast"},
                             key : Keys \cup {None}, value : Values \cup OldValues \cup {None},
                             stage : {"none", "sent", "db", "remote", "done", "failed"}]]
    /\ started \in BOOLEAN /\ host_alive \in BOOLEAN /\ app_actor_addr \in BOOLEAN
    /\ host_mailbox \in Seq(Workers \cup {"SetAppAddress", "BatchTickManager"})
    /\ db_calls \in Seq([from : SUBSET Workers, op : DatabaseOps,
                         key : Keys, value : Values \cup OldValues \cup {None}])
    /\ rows \in Seq(Keys \X (Values \cup OldValues))
    /\ retrieved \subseteq Keys \X (Values \cup OldValues)
    /\ acknowledged \subseteq Keys \X Values
    /\ calls \in 0..MaxCalls
    /\ Len(p2p_messages) <= Capacity /\ p2p_commands \in 0..Capacity
    /\ p2p_loop \in Event \cup {Ready, Halted}
    /\ restarts \in 0..MaxRestarts

\* The events of a sequence that have one of the ids, in their order.
WithIds(sequence, ids) ==
    LET upTo[n \in 0..Len(sequence)] ==
            IF n = 0 THEN <<>>
            ELSE IF sequence[n].id \in ids THEN Append(upTo[n - 1], sequence[n]) ELSE upTo[n - 1]
    IN  upTo[Len(sequence)]

\* The queue and the mailbox together are the pool's queue; commands have a
\* place of their own because they overtake what the job manager still holds.
Pool == INSTANCE WorkerPool WITH
    Events <- Event,
    Origins <- {"queue", "rpc"},
    waiting <- [queue |-> WithIds(mailbox, EventIds \ {CliId}) \o event_queue,
                rpc |-> WithIds(mailbox, {CliId})],
    running <- [w \in Workers |-> IF Running(w) THEN worker[w] ELSE Idle]

\* The event queue, the job manager and the workers implement the pool: every
\* event is started at most once, in the order of arrival of its origin, by
\* whichever worker is free, also when workers end and tasks add events while
\* they run (job_manager.rs:31-39, event_queue.rs:14-25).
EventsRunOnceInOrder == Pool!PoolSpec

\* Every event is started in the end while there is a worker and no call to the
\* network waits for ever, whether or not the host or the loop of the
\* peer-to-peer server is still there: all of the events that arrive, which are
\* finitely many, leave the channel, the queue and the mailbox.
EveryEventRuns ==
    (\A w \in Workers : []<>(call[w].stage # "remote"))
        => <>[](\/ event_queue = <<>> /\ mailbox = <<>> /\ p2p_messages = <<>> /\ ~Sending
                \/ \A w \in Workers : worker[w] = Ended)

\* The bounded channels do not block the node: the loop gets rid of the message
\* that it is sending, and a task that broadcasts goes on, although each of them
\* may wait for room that only the other side makes (lib.rs:36-37, mod.rs:216,
\* runtime.rs:262).
ChannelsDrain ==
    /\ []<>~Sending
    /\ \A w \in Workers : []<>(call[w].op # "p2p_broadcast")

\* The event that a task of the queue triggers finds the app: the address is
\* before it in the mailbox of the host.  A command of the RPC server may run
\* before the app has started, and is refused (trigger_event.rs:21-27).
TriggersReachApp ==
    \A w \in Workers :
        (call[w].op = "trigger_event" /\ worker[w].id # CliId /\ NextMessage(w))
            => app_actor_addr
=============================================================================
