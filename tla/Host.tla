-------------------------------- MODULE Host --------------------------------
(***************************************************************************)
(* The host actor of a node (node/src/host): it serves the runtime workers *)
(* that call it through RuntimeAdapter, one call each at a time, and owns  *)
(* the connection to the database, whose thread executes what it is handed *)
(* in order.  The database file outlives the process.                      *)
(*                                                                         *)
(* A fetch that fails panics inside the actor.  The actor is gone then for *)
(* the rest of the process: who waits for an answer, and who calls later,  *)
(* gets an error, while the thread of the database goes on.                *)
(***************************************************************************)
EXTENDS JobManager

CONSTANTS
    Keys, Values,   \* what tasks write to the table "data"
    OldValues,      \* what an earlier process has written to it
    None,           \* no key or no value
    MaxCalls        \* bound on the calls of the tasks

ASSUME HostAssumption == None \notin Values \cup OldValues /\ MaxCalls \in Nat

VARIABLES
    call,           \* the call that each worker waits for
    started,        \* App::started has run
    host_alive,     \* the actor handles messages
    app_actor_addr, \* Host.app_actor_addr is set
    host_mailbox,   \* messages to the host: of the app, or the call of a worker
    db_calls,       \* closures that the thread of the database has yet to run
    rows,           \* the table "data"
    retrieved,      \* history: <<key, value>> of the reads that were fulfilled
    acknowledged,   \* history: <<key, value>> of the writes that were fulfilled
    calls           \* number of calls so far

actorVars == <<started, host_alive, app_actor_addr, host_mailbox>>
dbVars == <<db_calls, rows>>
historyVars == <<retrieved, acknowledged>>
hostVars == <<call, actorVars, dbVars, historyVars, calls>>

NoCall == [op |-> "none", key |-> None, value |-> None, stage |-> "none"]
Request(op, key, value) == [op |-> op, key |-> key, value |-> value, stage |-> "sent"]

DatabaseOps == {"db_get", "db_set"}

\* What execute_promise_queue asks of others: of the host or, a broadcast, of
\* the peer-to-peer server.  A remote call is a fetch, a call or a view of a
\* chain.
Requests ==
    {Request("db_get", key, None) : key \in Keys}
        \cup {Request("db_set", key, value) : key \in Keys, value \in Values}
        \cup {Request(op, None, None) : op \in {"remote", "trigger_event", "p2p_broadcast"}}

-----------------------------------------------------------------------------
\* The rows of a key, and what query_row yields: the first of them, or no
\* value, which is an error.
RowsOf(key) == {k \in DOMAIN rows : rows[k][1] = key}

\* Mutant: the row that was added last is read.
LastRow(key) ==
    IF RowsOf(key) = {} THEN None
    ELSE rows[CHOOSE k \in RowsOf(key) : \A l \in RowsOf(key) : l <= k][2]

query_row(key) ==
    IF RowsOf(key) = {} THEN None
    ELSE rows[CHOOSE k \in RowsOf(key) : \A l \in RowsOf(key) : k <= l][2]

-----------------------------------------------------------------------------
\* Host::default opens the database, whose table may have been there before.
HostStarts ==
    /\ call' = [w \in Workers |-> NoCall]
    /\ started' = FALSE
    /\ host_alive' = TRUE
    /\ app_actor_addr' = FALSE
    /\ host_mailbox' = <<>>
    /\ db_calls' = <<>>

HostInit ==
    /\ call = [w \in Workers |-> NoCall]
    /\ started = FALSE
    /\ host_alive = TRUE
    /\ app_actor_addr = FALSE
    /\ host_mailbox = <<>>
    /\ db_calls = <<>>
    /\ rows \in IF OldValues = {} THEN {<<>>} ELSE {<<row>> : row \in Keys \X OldValues}
    /\ retrieved = {} /\ acknowledged = {}
    /\ calls = 0

\* Mutant: the address is left to be sent with a later tick.
StartedWithoutAddress ==
    /\ ~started
    /\ started' = TRUE
    /\ host_mailbox' = Append(host_mailbox, "BatchTickManager")
    /\ UNCHANGED <<call, host_alive, app_actor_addr, dbVars, historyVars, calls>>

\* App::started: the host learns the address of the app and begins to tick.
Started ==
    /\ ~started
    /\ started' = TRUE
    /\ host_mailbox' = IF host_alive THEN host_mailbox \o <<"SetAppAddress", "BatchTickManager">>
                                     ELSE host_mailbox
    /\ UNCHANGED <<call, host_alive, app_actor_addr, dbVars, historyVars, calls>>

\* A promise of the task on worker w is executed: RuntimeAdapter sends a message
\* to the host and waits.
Ask(w, request) ==
    /\ call[w] = NoCall /\ calls < MaxCalls
    /\ call' = [call EXCEPT ![w] = request]
    /\ host_mailbox' = IF host_alive /\ request.op # "p2p_broadcast"
                       THEN Append(host_mailbox, w) ELSE host_mailbox
    /\ calls' = calls + 1
    /\ UNCHANGED <<started, host_alive, app_actor_addr, dbVars, historyVars>>

Return(w) == call' = [call EXCEPT ![w] = NoCall]

\* The host takes the next message.
NextMessage(message) == host_alive /\ host_mailbox # <<>> /\ Head(host_mailbox) = message
Handles(message) ==
    /\ NextMessage(message)
    /\ host_mailbox' = Tail(host_mailbox)
    /\ UNCHANGED <<started, host_alive>>

SetAppAddress ==
    /\ Handles("SetAppAddress")
    /\ app_actor_addr' = TRUE
    /\ UNCHANGED <<call, dbVars, historyVars, calls>>

\* The first tick; its handler makes the next one by notify_later.
BatchTickManager ==
    /\ Handles("BatchTickManager")
    /\ UNCHANGED <<call, app_actor_addr, dbVars, historyVars, calls>>

NextTick ==
    /\ host_alive /\ app_actor_addr
    /\ \A k \in DOMAIN host_mailbox : host_mailbox[k] # "BatchTickManager"
    /\ UNCHANGED hostVars

\* TriggerEvent: answered at once, with an error while the app is unknown.
TriggerEvent(w) ==
    /\ Handles(w) /\ call[w].op = "trigger_event"
    /\ Return(w)
    /\ UNCHANGED <<app_actor_addr, dbVars, historyVars, calls>>

\* DatabaseGet and DatabaseSet: a closure is handed to the database.
HandleDatabase(w) ==
    /\ Handles(w) /\ call[w].op \in DatabaseOps
    /\ call' = [call EXCEPT ![w].stage = "db"]
    /\ db_calls' = Append(db_calls, [from |-> {w}, op |-> call[w].op,
                                     key |-> call[w].key, value |-> call[w].value])
    /\ UNCHANGED <<app_actor_addr, rows, historyVars, calls>>

\* HttpFetch, ChainCall and ChainView: the answer comes over the network.
HandleRemote(w) ==
    /\ Handles(w) /\ call[w].op = "remote"
    /\ call' = [call EXCEPT ![w].stage = "remote"]
    /\ UNCHANGED <<app_actor_addr, dbVars, historyVars, calls>>

\* The outcome of a closure is kept for the worker that still waits for it.
With(c, stage, value) == [op |-> c.op, key |-> c.key, value |-> value, stage |-> stage]
Outcome(from, stage, value) ==
    call' = [w \in Workers |-> IF w \in from THEN With(call[w], stage, value) ELSE call[w]]

\* Mutant: a key that is in the table is left as it is.
InsertUnlessPresent(key, value) ==
    rows' = IF RowsOf(key) = {} THEN Append(rows, <<key, value>>) ELSE rows

\* INSERT adds a row, whether or not the key is in the table.
execute_insert(key, value) == rows' = Append(rows, <<key, value>>)

\* The thread of the database runs the next closure, which may fail.
ExecuteDatabase ==
    /\ db_calls # <<>>
    /\ LET next == Head(db_calls)
       IN  \/ /\ next.op = "db_set"
              /\ execute_insert(next.key, next.value)
              /\ Outcome(next.from, "done", next.value)
           \/ /\ next.op = "db_get" /\ RowsOf(next.key) # {}
              /\ Outcome(next.from, "done", query_row(next.key))
              /\ UNCHANGED rows
           \/ /\ Outcome(next.from, "failed", None)
              /\ UNCHANGED rows
    /\ db_calls' = Tail(db_calls)
    /\ UNCHANGED <<actorVars, historyVars, calls>>

Row(w) == <<call[w].key, call[w].value>>
Fulfilled(w, op) == IF call[w].op = op /\ call[w].stage = "done" THEN {Row(w)} ELSE {}

\* The future of the handler ends with the outcome, and the promise of the task
\* is fulfilled or rejected.
DatabaseAnswers(w) ==
    /\ host_alive /\ call[w].stage \in {"done", "failed"}
    /\ retrieved' = retrieved \cup Fulfilled(w, "db_get")
    /\ acknowledged' = acknowledged \cup Fulfilled(w, "db_set")
    /\ Return(w)
    /\ UNCHANGED <<actorVars, dbVars, calls>>

\* The network answers, with an error of a chain or a node on it included.
RemoteAnswers(w) ==
    /\ host_alive /\ call[w].stage = "remote"
    /\ Return(w)
    /\ UNCHANGED <<actorVars, dbVars, historyVars, calls>>

\* A fetch fails, and unwrap panics in the actor: the messages it had and the
\* futures of all its callers are dropped with it.
HttpFetchPanics(w) ==
    /\ Unwinds
    /\ host_alive /\ call[w].stage = "remote"
    /\ host_alive' = FALSE
    /\ app_actor_addr' = FALSE
    /\ host_mailbox' = <<>>
    /\ db_calls' = [k \in DOMAIN db_calls |-> [db_calls[k] EXCEPT !.from = {}]]
    /\ UNCHANGED <<call, started, rows, historyVars, calls>>

\* MailboxError: the actor that should answer is gone.
MailboxClosed(w) ==
    /\ ~host_alive /\ call[w].op \notin {"none", "p2p_broadcast"}
    /\ Return(w)
    /\ UNCHANGED <<actorVars, dbVars, historyVars, calls>>

\* A broadcast is over for worker w.
BroadcastEnds(w) ==
    /\ call[w].op = "p2p_broadcast"
    /\ Return(w)
    /\ UNCHANGED <<actorVars, dbVars, historyVars, calls>>

\* The process ends and is started again; the database file is kept.
HostRestarts ==
    /\ HostStarts
    /\ UNCHANGED <<rows, historyVars, calls>>

-----------------------------------------------------------------------------
\* What a task has ever been given for a key is the value of the key's first
\* row, whatever workers wrote to the key before or after and however often the
\* process was restarted: db_set.rs:25 adds a row to those of the key, and
\* db_get.rs:25 takes the first of them.
ReadsFirstRow ==
    \A r \in retrieved : \E k \in DOMAIN rows :
        rows[k] = r /\ \A l \in 1..(k - 1) : rows[l][1] # r[1]

\* A write that a task was told has succeeded is in the table, also when the
\* host died or the process was restarted after it (db_set.rs:21-34).
AcknowledgedStored == \A row \in acknowledged : \E k \in DOMAIN rows : rows[k] = row
=============================================================================
