----------------------------- MODULE NodeProofs -----------------------------
(***************************************************************************)
(* Proofs about a running node, for all values of its constants: what the  *)
(* table of its database holds against what tasks were told about it, and  *)
(* that the host knows the app when a task of the queue triggers an event; *)
(* that events are started once and in order; and the bounds of channels,  *)
(* calls and events.                                                       *)
(***************************************************************************)
EXTENDS NodeInvariants

-----------------------------------------------------------------------------
(* The events of one origin.                                               *)

\* The function that WithIds computes with, and the step of its recursion.
Step(sequence, ids, n, before) ==
    IF sequence[n].id \in ids THEN Append(before, sequence[n]) ELSE before
Filters(g, sequence, ids, m) ==
    g = [n \in 0..m |-> IF n = 0 THEN <<>> ELSE Step(sequence, ids, n, g[n - 1])]

LEMMA FilterExists ==
    ASSUME LeastElements, NEW sequence, NEW ids, NEW m \in Nat
    PROVE  \E g : Filters(g, sequence, ids, m)
<1> DEFINE Bad == {n \in Nat : ~\E g : Filters(g, sequence, ids, n)}
<1>1. SUFFICES ASSUME Bad # {} PROVE FALSE
  OBVIOUS
<1>2. PICK k \in Bad : \A l \in Bad : k <= l
  BY <1>1, LeastExists, Zenon
<1>3. CASE k = 0
  <2> DEFINE g == [n \in 0..0 |-> <<>>]
  <2>1. Filters(g, sequence, ids, 0)
    BY DEF Filters
  <2> QED BY <1>2, <1>3, <2>1
<1>4. CASE k # 0
  <2>1. k \in Nat /\ k - 1 \in Nat /\ k - 1 \notin Bad
    BY <1>2, <1>4
  <2>2. PICK g : Filters(g, sequence, ids, k - 1)
    BY <2>1
  <2> DEFINE h == [n \in 0..k |-> IF n = k THEN Step(sequence, ids, k, g[k - 1]) ELSE g[n]]
             f == [n \in 0..k |-> IF n = 0 THEN <<>> ELSE Step(sequence, ids, n, h[n - 1])]
  <2>3. ASSUME NEW n \in 0..k PROVE h[n] = f[n]
    <3>1. CASE n = 0
      BY <1>4, <2>1, <2>2, <3>1 DEF Filters
    <3>2. CASE n = k
      <4>1. h[k - 1] = g[k - 1]
        BY <2>1
      <4> QED BY <1>4, <2>1, <3>2, <4>1, Zenon
    <3>3. CASE n # 0 /\ n # k
      <4>1. n \in 0..(k - 1) /\ n - 1 \in 0..(k - 1) /\ n - 1 \in 0..k /\ n - 1 # k
        BY <2>1, <3>3
      <4>2. g[n] = Step(sequence, ids, n, g[n - 1])
        BY <2>2, <3>3, <4>1 DEF Filters
      <4>3. h[n] = g[n] /\ h[n - 1] = g[n - 1]
        BY <3>3, <4>1
      <4> QED BY <3>3, <4>2, <4>3, Zenon
    <3> QED BY <3>1, <3>2, <3>3, Zenon
  <2>4. h = f
    BY <2>3, Zenon
  <2>5. Filters(h, sequence, ids, k)
    <3> HIDE DEF h
    <3> QED BY <2>4 DEF Filters
  <2> QED BY <1>2, <2>5
<1> QED BY <1>3, <1>4

LEMMA FilterOf ==
    ASSUME LeastElements, NEW sequence \in Seq(Event), NEW ids
    PROVE  \E g : /\ Filters(g, sequence, ids, Len(sequence))
                  /\ WithIds(sequence, ids) = g[Len(sequence)]
<1> DEFINE Body(g) == [n \in 0..Len(sequence) |->
                          IF n = 0 THEN <<>>
                          ELSE IF sequence[n].id \in ids THEN Append(g[n - 1], sequence[n]) ELSE g[n - 1]]
           upTo == CHOOSE g : g = Body(g)
<1>1. WithIds(sequence, ids) = upTo[Len(sequence)]
  BY DEF WithIds
<1>2. \E g : g = Body(g)
  <2>1. PICK g : Filters(g, sequence, ids, Len(sequence))
    BY Len(sequence) \in Nat, FilterExists, Zenon
  <2>2. g = Body(g)
    BY <2>1, Zenon DEF Filters, Step
  <2> QED BY <2>2, Zenon
<1>3. upTo = Body(upTo)
  <2> HIDE DEF Body
  <2> QED BY <1>2
<1>4. Filters(upTo, sequence, ids, Len(sequence))
  <2> HIDE DEF upTo
  <2> QED BY <1>3, Zenon DEF Filters, Step
<1> QED BY <1>1, <1>4, Zenon

\* What the function does at its first position and at a later one.
LEMMA FilterSteps ==
    ASSUME NEW g, NEW sequence, NEW ids, NEW m \in Nat, Filters(g, sequence, ids, m)
    PROVE  /\ g[0] = <<>>
           /\ \A n \in 1..m : g[n] = Step(sequence, ids, n, g[n - 1])
<1>1. 0 \in 0..m /\ \A n \in 1..m : n \in 0..m /\ n # 0
  OBVIOUS
<1> QED BY <1>1 DEF Filters

\* It depends on the events before the position only.
LEMMA FilterAgrees ==
    ASSUME LeastElements, NEW s, NEW t, NEW ids, NEW m \in Nat, NEW p \in Nat, NEW g, NEW h,
           Filters(g, s, ids, m), Filters(h, t, ids, p),
           NEW k \in 0..m, k <= p, \A l \in 1..k : s[l] = t[l]
    PROVE  g[k] = h[k]
<1> DEFINE Bad == {n \in 0..k : g[n] # h[n]}
<1>1. SUFFICES ASSUME Bad # {} PROVE FALSE
  BY <1>1
<1>2. Bad \in SUBSET Nat
  OBVIOUS
<1>3. PICK n \in Bad : \A l \in Bad : n <= l
  BY <1>1, <1>2, LeastExists, Zenon
<1>4. n # 0
  BY <1>3, FilterSteps
<1>5. n \in 1..m /\ n \in 1..p /\ n \in 1..k /\ n - 1 \in 0..k /\ n - 1 \notin Bad
  BY <1>3, <1>4
<1>6. g[n - 1] = h[n - 1] /\ s[n] = t[n]
  BY <1>5
<1>7. g[n] = Step(s, ids, n, g[n - 1]) /\ h[n] = Step(t, ids, n, h[n - 1])
  BY <1>5, FilterSteps
<1> QED BY <1>3, <1>6, <1>7 DEF Step

\* It consists of events of the sequence that have one of the ids.
LEMMA FilterType ==
    ASSUME LeastElements, NEW s \in Seq(Event), NEW ids, NEW g, Filters(g, s, ids, Len(s))
    PROVE  \A n \in 0..Len(s) : g[n] \in Seq(Event)
<1> DEFINE Bad == {n \in 0..Len(s) : g[n] \notin Seq(Event)}
<1>1. SUFFICES ASSUME Bad # {} PROVE FALSE
  OBVIOUS
<1>2. Len(s) \in Nat /\ Bad \in SUBSET Nat
  OBVIOUS
<1>3. PICK n \in Bad : \A l \in Bad : n <= l
  BY <1>1, <1>2, LeastExists, Zenon
<1>4. n # 0
  BY <1>2, <1>3, FilterSteps, EmptySequence, Zenon
<1>5. n \in 1..Len(s) /\ n - 1 \in 0..Len(s) /\ n - 1 \notin Bad
  BY <1>2, <1>3, <1>4
<1>6. g[n - 1] \in Seq(Event) /\ s[n] \in Event
  BY <1>5, Element
<1>7. g[n] = Step(s, ids, n, g[n - 1])
  BY <1>2, <1>5, FilterSteps
<1>8. Append(g[n - 1], s[n]) \in Seq(Event)
  BY <1>6, AppendProperties
<1> QED BY <1>3, <1>6, <1>7, <1>8, Zenon DEF Step


LEMMA WithIdsType ==
    ASSUME LeastElements, NEW s \in Seq(Event), NEW ids
    PROVE  WithIds(s, ids) \in Seq(Event)
<1>1. PICK g : Filters(g, s, ids, Len(s)) /\ WithIds(s, ids) = g[Len(s)]
  BY FilterOf
<1>2. Len(s) \in 0..Len(s)
  BY Len(s) \in Nat
<1> QED BY <1>1, <1>2, FilterType

LEMMA WithIdsEmpty ==
    ASSUME LeastElements, NEW ids
    PROVE  WithIds(<<>>, ids) = <<>>
<1>1. <<>> \in Seq(Event) /\ Len(<<>>) = 0
  OBVIOUS
<1>2. PICK g : Filters(g, <<>>, ids, 0) /\ WithIds(<<>>, ids) = g[0]
  BY <1>1, FilterOf, Zenon
<1> QED BY <1>2, FilterSteps

\* An event at the end of the sequence comes to the end of its origin.
LEMMA WithIdsAppend ==
    ASSUME LeastElements, NEW s \in Seq(Event), NEW ids, NEW e \in Event
    PROVE  WithIds(Append(s, e), ids) =
               IF e.id \in ids THEN Append(WithIds(s, ids), e) ELSE WithIds(s, ids)
<1> DEFINE t == Append(s, e)
           m == Len(s)
<1>1. /\ t \in Seq(Event) /\ Len(t) = m + 1 /\ m \in Nat
      /\ t[m + 1] = e /\ \A l \in 1..m : s[l] = t[l]
  BY AppendProperties
<1> HIDE DEF t
<1>2. PICK g : Filters(g, s, ids, m) /\ WithIds(s, ids) = g[m]
  BY FilterOf
<1>3. PICK h : Filters(h, t, ids, m + 1) /\ WithIds(t, ids) = h[m + 1]
  BY <1>1, FilterOf
<1> HIDE DEF m
<1>4. g[m] = h[m]
  BY <1>1, <1>2, <1>3, FilterAgrees
<1>5. h[m + 1] = Step(t, ids, m + 1, h[m])
  <2>1. m + 1 \in 1..(m + 1) /\ (m + 1) - 1 = m /\ m + 1 \in Nat
    BY <1>1
  <2>2. h[m + 1] = Step(t, ids, m + 1, h[(m + 1) - 1])
    BY <1>3, <2>1, FilterSteps
  <2> QED BY <2>1, <2>2
<1>6. WithIds(t, ids) = IF e.id \in ids THEN Append(WithIds(s, ids), e) ELSE WithIds(s, ids)
  BY <1>1, <1>2, <1>3, <1>4, <1>5 DEF Step
<1> QED BY <1>6 DEF t

\* An event in front of a sequence.
LEMMA AppendBehind ==
    ASSUME NEW S, NEW q \in Seq(S), NEW x \in S, NEW y \in S
    PROVE  Append(<<x>> \o q, y) = <<x>> \o Append(q, y)
<1>1. <<x>> \in Seq(S) /\ <<y>> \in Seq(S)
  OBVIOUS
<1>2. Append(q, y) = q \o <<y>> /\ Append(<<x>> \o q, y) = (<<x>> \o q) \o <<y>>
  BY <1>1, AppendIsConcat, ConcatProperties
<1> QED BY <1>1, <1>2, ConcatAssociative

\* The first event of the sequence is the first of its origin.
LEMMA WithIdsHead ==
    ASSUME LeastElements, NEW s \in Seq(Event), NEW ids, s # <<>>
    PROVE  WithIds(s, ids) =
               IF Head(s).id \in ids THEN <<Head(s)>> \o WithIds(Tail(s), ids) ELSE WithIds(Tail(s), ids)
<1> DEFINE t == Tail(s)
           m == Len(t)
           x == s[1]
           Before(q) == IF x.id \in ids THEN <<x>> \o q ELSE q
<1>1. /\ t \in Seq(Event) /\ Len(s) = m + 1 /\ m \in Nat
      /\ Head(s) = x /\ x \in Event /\ \A l \in 1..m : s[l + 1] = t[l]
  BY HeadTailProperties, EmptySeq
<1> HIDE DEF t, x
<1>2. PICK h : Filters(h, t, ids, m) /\ WithIds(t, ids) = h[m]
  BY <1>1, FilterOf
<1>3. PICK g : Filters(g, s, ids, m + 1) /\ WithIds(s, ids) = g[m + 1]
  BY <1>1, FilterOf
<1>4. \A n \in 0..m : h[n] \in Seq(Event)
  BY <1>1, <1>2, FilterType
<1>5. /\ \A n \in 1..m : h[n] = Step(t, ids, n, h[n - 1])
      /\ \A n \in 1..(m + 1) : g[n] = Step(s, ids, n, g[n - 1])
      /\ h[0] = <<>> /\ g[0] = <<>>
  BY <1>1, <1>2, <1>3, m + 1 \in Nat, FilterSteps, Zenon
<1> HIDE DEF m
<1>6. \A n \in 0..m : g[n + 1] = Before(h[n])
  <2> DEFINE Bad == {n \in 0..m : g[n + 1] # Before(h[n])}
  <2>1. SUFFICES ASSUME Bad # {} PROVE FALSE
    BY <2>1
  <2>2. Bad \in SUBSET Nat
    BY <1>1
  <2>3. PICK n \in Bad : \A l \in Bad : n <= l
    BY <2>1, <2>2, LeastExists, Zenon
  <2>4. CASE n = 0
    <3>1. 1 \in 1..(m + 1) /\ 1 - 1 = 0 /\ 0 + 1 = 1
      BY <1>1
    <3>2. g[1] = Step(s, ids, 1, g[0])
      BY <1>5, <3>1
    <3>3. g[1] = IF x.id \in ids THEN Append(<<>>, x) ELSE <<>>
      BY <1>5, <3>2 DEF Step, x
    <3>4. Append(<<>>, x) = <<x>> /\ <<x>> \o <<>> = <<x>>
      OBVIOUS
    <3>5. g[1] = Before(h[0])
      BY <1>5, <3>3, <3>4
    <3> QED BY <2>3, <2>4, <3>1, <3>5
  <2>5. CASE n # 0
    <3>1. /\ n \in 1..m /\ n + 1 \in 1..(m + 1) /\ n - 1 \in 0..m /\ n - 1 \notin Bad
          /\ (n + 1) - 1 = n /\ (n - 1) + 1 = n
      BY <1>1, <2>3, <2>5
    <3>2. g[n] = Before(h[n - 1])
      BY <3>1
    <3>3. g[n + 1] = Step(s, ids, n + 1, g[n]) /\ h[n] = Step(t, ids, n, h[n - 1])
      BY <1>5, <3>1
    <3>4. s[n + 1] = t[n] /\ t[n] \in Event /\ h[n - 1] \in Seq(Event)
      BY <1>1, <1>4, <3>1, Element DEF m
    <3>5. ASSUME NEW q \in Seq(Event), NEW y \in Event
          PROVE  Append(<<x>> \o q, y) = <<x>> \o Append(q, y)
      <4>1. x \in Event
        BY <1>1
      <4> QED BY <4>1, AppendBehind, ZenonT(30)
    <3>6. Append(<<x>> \o h[n - 1], t[n]) = <<x>> \o Append(h[n - 1], t[n])
      BY <3>4, <3>5, Zenon
    <3>7. g[n + 1] = Before(h[n])
      BY <3>2, <3>3, <3>4, <3>6, Zenon DEF Step
    <3> QED BY <2>3, <3>7
  <2> QED BY <2>4, <2>5
<1>7. WithIds(s, ids) = Before(WithIds(t, ids))
  BY <1>1, <1>2, <1>3, <1>6
<1> QED BY <1>1, <1>7 DEF t


-----------------------------------------------------------------------------
\* What the job manager and the network hold is never a command.
QueueIds == EventIds \ {CliId}
Queued == [id : QueueIds, serial : Nat]

QueueInv ==
    /\ running_event_ids = {}
    /\ event_queue \in Seq(Queued) /\ p2p_messages \in Seq(Queued)
    /\ Sending => p2p_loop \in Queued

LEMMA QueuedEvent ==
    ASSUME JobType
    PROVE  /\ Queued \subseteq Event
           /\ \A id \in {TickId, P2PId, TriggerId} : NewEvent(id) \in Queued
  BY NodeAssumption DEF JobType, Queued, QueueIds, EventIds, Event, NewEvent

\* The job manager takes the first event of the queue: no id is ever skipped.
LEMMA FirstTaken ==
    ASSUME QueueInv, StartJobManager
    PROVE  /\ event_queue # <<>>
           /\ mailbox' = Append(mailbox, Head(event_queue))
           /\ event_queue' = Tail(event_queue)
<1> DEFINE q == event_queue
           k == get_next(q, running_event_ids)
<1>1. q \in Seq(Queued) /\ Len(q) \in Nat /\ DOMAIN q = 1..Len(q)
  BY DEF QueueInv
<1>2. Allowed(q, running_event_ids) = DOMAIN q /\ DOMAIN q # {}
  BY Zenon DEF QueueInv, Allowed, StartJobManager
<1>3. q # <<>> /\ 1 \in DOMAIN q
  BY <1>1, <1>2
<1>4. k = CHOOSE n \in DOMAIN q : \A l \in DOMAIN q : n <= l
  BY <1>2, Zenon DEF get_next
<1>5. \A n \in DOMAIN q : (\A l \in DOMAIN q : n <= l) <=> n = 1
  BY <1>1, <1>3
<1>6. k = 1
  BY <1>3, <1>4, <1>5, Zenon
<1>7. /\ mailbox' = Append(mailbox, q[k])
      /\ event_queue' = SubSeq(q, 1, k - 1) \o SubSeq(q, k + 1, Len(q))
  BY DEF StartJobManager
<1> HIDE DEF k
<1>8. event_queue' = SubSeq(q, 1, 0) \o SubSeq(q, 2, Len(q))
  BY <1>6, <1>7
<1>9. SubSeq(q, 1, 0) = <<>> /\ SubSeq(q, 2, Len(q)) = Tail(q) /\ Tail(q) \in Seq(Queued)
  BY <1>1, <1>3, TailIsSubSeq, HeadTailProperties, SubSeqEmpty
<1>10. <<>> \o Tail(q) = Tail(q)
  BY <1>9, ConcatEmptySeq
<1> QED BY <1>3, <1>6, <1>7, <1>8, <1>9, <1>10

\* The queue gets an event.
LEMMA QueueGets ==
    ASSUME QueueInv, NEW e \in Queued, AddEventToQueue(e)
    PROVE  /\ running_event_ids' = {} /\ event_queue' \in Seq(Queued)
           /\ event_queue' = Append(event_queue, e) /\ UNCHANGED <<mailbox, worker>>
<1>1. event_queue' = Append(event_queue, e) /\ UNCHANGED <<mailbox, worker, running_event_ids>>
  BY DEF AddEventToQueue, add
<1> QED BY <1>1, AppendProperties DEF QueueInv

LEMMA QueueStep == JobType /\ QueueInv /\ [Next]_vars => QueueInv'
<1> SUFFICES ASSUME JobType, QueueInv, [Next]_vars PROVE QueueInv'
  OBVIOUS
<1>1. CASE UNCHANGED <<running_event_ids, event_queue, p2p_messages, p2p_loop>>
  BY <1>1 DEF QueueInv, Sending
<1>2. CASE UNCHANGED vars
  BY <1>1, <1>2 DEF vars, jobVars, channelVars
<1>3. CASE AppStarts \/ HostLearnsApp \/ DatabaseThread \/ RpcPeers \/ RpcCli
  BY <1>1, <1>3 DEF AppStarts, HostLearnsApp, DatabaseThread, RpcPeers, RpcCli, cli, SendCommand,
     jobVars, channelVars
<1>4. CASE \E w \in Workers : TaskAsks(w) \/ TakeUp(w) \/ Answer(w) \/ Network(w) \/ Broadcast(w)
  BY <1>1, <1>4 DEF TaskAsks, TakeUp, Answer, Network, Broadcast, SendCommand, jobVars, channelVars
<1>5. CASE \E w \in Workers : Take(w) \/ NotText(w) \/ Finish(w) \/ BroadcastFails(w)
  BY <1>1, <1>5, Zenon DEF Take, NotText, Finish, BroadcastFails, TakeJob, PanicOnJob, FinishJob, EndWorker, channelVars
<1>6. CASE ManageJobs
  <2>1. event_queue # <<>> /\ event_queue' = Tail(event_queue)
        /\ UNCHANGED <<running_event_ids, p2p_messages, p2p_loop>>
    BY <1>6, FirstTaken, Zenon DEF ManageJobs, StartJobManager, channelVars
  <2>2. event_queue' \in Seq(Queued)
    BY <2>1, HeadTailProperties DEF QueueInv
  <2> QED BY <2>1, <2>2 DEF QueueInv, Sending
<1>7. CASE FirstTick \/ Tick \/ \E w \in Workers : Trigger(w)
  <2>1. UNCHANGED <<p2p_messages, p2p_loop>>
    BY <1>7 DEF FirstTick, Tick, Trigger, channelVars
  <2>2. \/ \E id \in {TickId, TriggerId} : AddEventToQueue(NewEvent(id))
        \/ UNCHANGED <<event_queue, running_event_ids>>
    BY <1>7 DEF FirstTick, Tick, Trigger, jobVars
  <2> QED BY <1>1, <2>1, <2>2, QueuedEvent, QueueGets DEF QueueInv, Sending
<1>8. CASE GossipArrives
  <2>1. p2p_loop' = NewEvent(P2PId) /\ UNCHANGED <<event_queue, running_event_ids, p2p_messages>>
    BY <1>8 DEF GossipArrives, Gossip
  <2> QED BY <2>1, QueuedEvent DEF QueueInv
<1>9. CASE listen
  <2>1. /\ p2p_messages # <<>> /\ p2p_messages' = Tail(p2p_messages) /\ p2p_loop' = p2p_loop
        /\ AddEventToQueue(Head(p2p_messages))
    BY <1>9 DEF listen, Receive
  <2>2. Head(p2p_messages) \in Queued /\ p2p_messages' \in Seq(Queued)
    BY <2>1, HeadTailProperties DEF QueueInv
  <2> QED BY <2>1, <2>2, QueueGets DEF QueueInv, Sending
<1>10. CASE LoopSteps \/ LoopEnds
  <2>1. UNCHANGED <<event_queue, running_event_ids>>
    BY <1>10 DEF LoopSteps, LoopEnds, jobVars
  <2>2. CASE SendMessage
    <3>1. p2p_loop \in Queued /\ p2p_messages' = Append(p2p_messages, p2p_loop) /\ p2p_loop' = Ready
      BY <2>2 DEF SendMessage, QueueInv
    <3>2. p2p_messages' \in Seq(Queued)
      BY <3>1, AppendProperties DEF QueueInv
    <3> QED BY <2>1, <3>1, <3>2 DEF QueueInv, Sending
  <2>3. CASE HandleCommand
    BY <1>1, <2>1, <2>3 DEF HandleCommand
  <2>4. CASE LoopPanics
    BY <2>1, <2>4 DEF LoopPanics, QueueInv, Sending
  <2> QED BY <1>10, <2>2, <2>3, <2>4 DEF LoopSteps, LoopEnds, P2PLoop
<1>11. CASE Restart
  BY <1>11, EmptySequence DEF Restart, JobRestart, FirstStates, ChannelsRestart, QueueInv, Sending
<1> QED
  BY <1>2, <1>3, <1>4, <1>5, <1>6, <1>7, <1>8, <1>9, <1>10, <1>11 DEF Next


-----------------------------------------------------------------------------
(* The node implements the pool.                                           *)

OfQueue == WithIds(mailbox, EventIds \ {CliId}) \o event_queue
OfRpc == WithIds(mailbox, {CliId})
Runs == [w \in Workers |-> IF Running(w) THEN worker[w] ELSE Idle]

LEMMA PoolKept ==
    ASSUME OfQueue' = OfQueue, OfRpc' = OfRpc, Runs' = Runs
    PROVE  UNCHANGED Pool!poolVars
  BY Zenon DEF Pool!poolVars, OfQueue, OfRpc, Runs

LEMMA LastOfAppend ==
    ASSUME NEW q \in Seq(Event), NEW e \in Event
    PROVE  \E k \in DOMAIN Append(q, e) : Append(q, e)[k] = e
<1>1. /\ Len(q) + 1 \in DOMAIN Append(q, e)
      /\ Append(q, e)[Len(q) + 1] = e
  BY Len(q) \in Nat
<1> QED BY <1>1

LEMMA WaitingChanged ==
    ASSUME NEW x, NEW o \in {"queue", "rpc"},
           \/ o = "queue" /\ OfQueue' = x /\ OfRpc' = OfRpc
           \/ o = "rpc" /\ OfRpc' = x /\ OfQueue' = OfQueue
    PROVE  [queue |-> OfQueue, rpc |-> OfRpc]' = [[queue |-> OfQueue, rpc |-> OfRpc] EXCEPT ![o] = x]
  OBVIOUS

LEMMA PoolGets ==
    ASSUME NEW e \in Event, OfQueue \in Seq(Event), OfRpc \in Seq(Event), Runs' = Runs,
           \/ OfQueue' = Append(OfQueue, e) /\ OfRpc' = OfRpc
           \/ OfRpc' = Append(OfRpc, e) /\ OfQueue' = OfQueue
    PROVE  Pool!PoolNext
<1> DEFINE waiting == [queue |-> OfQueue, rpc |-> OfRpc]
<1>1. ASSUME NEW o \in {"queue", "rpc"}, waiting' = [waiting EXCEPT ![o] = Append(waiting[o], e)]
      PROVE  Pool!PoolNext
  <2>1. waiting[o] \in Seq(Event)
    OBVIOUS
  <2>2. waiting'[o] = Append(waiting[o], e)
    BY <1>1
  <2>3. PICK k \in DOMAIN waiting'[o] : waiting'[o][k] = e
    BY <2>1, <2>2, LastOfAppend
  <2>4. waiting' = [waiting EXCEPT ![o] = Append(waiting[o], waiting'[o][k])] /\ waiting'[o][k] \in Event
    BY <1>1, <2>3, Zenon
  <2>5. Pool!Submit(o, waiting'[o][k])
    BY <2>4, Zenon DEF Pool!Submit, OfQueue, OfRpc, Runs
  <2> QED BY <2>3, <2>5, Zenon DEF Pool!PoolNext, OfQueue, OfRpc
<1>2. CASE OfQueue' = Append(OfQueue, e) /\ OfRpc' = OfRpc
  <2> PICK longer : longer = Append(OfQueue, e)
    BY Zenon
  <2>1. waiting' = [waiting EXCEPT !["queue"] = longer]
    BY <1>2, WaitingChanged, Zenon
  <2>2. waiting["queue"] = OfQueue
    OBVIOUS
  <2> QED BY <1>1, <2>1, <2>2
<1>3. CASE OfRpc' = Append(OfRpc, e) /\ OfQueue' = OfQueue
  <2> PICK longer : longer = Append(OfRpc, e)
    BY Zenon
  <2>1. waiting' = [waiting EXCEPT !["rpc"] = longer]
    BY <1>3, WaitingChanged, Zenon
  <2>2. waiting["rpc"] = OfRpc
    OBVIOUS
  <2> QED BY <1>1, <2>1, <2>2
<1> QED BY <1>2, <1>3

LEMMA PoolStarts ==
    ASSUME NEW w \in Workers, Runs[w] = Idle, NEW head,
           \/ /\ OfQueue # <<>> /\ head = Head(OfQueue)
              /\ OfQueue' = Tail(OfQueue) /\ OfRpc' = OfRpc
           \/ /\ OfRpc # <<>> /\ head = Head(OfRpc)
              /\ OfRpc' = Tail(OfRpc) /\ OfQueue' = OfQueue,
           Runs' = Runs \/ Runs' = [Runs EXCEPT ![w] = head]
    PROVE  Pool!PoolNext
<1> DEFINE waiting == [queue |-> OfQueue, rpc |-> OfRpc]
<1>1. PICK o \in {"queue", "rpc"} : /\ waiting[o] # <<>> /\ head = Head(waiting[o])
                                    /\ waiting' = [waiting EXCEPT ![o] = Tail(@)]
  <2>1. CASE /\ OfQueue # <<>> /\ head = Head(OfQueue)
             /\ OfQueue' = Tail(OfQueue) /\ OfRpc' = OfRpc
    <3>1. /\ waiting["queue"] # <<>> /\ head = Head(waiting["queue"])
          /\ waiting' = [waiting EXCEPT !["queue"] = Tail(@)]
      BY <2>1, SMTT(30)
    <3> QED BY <3>1
  <2>2. CASE /\ OfRpc # <<>> /\ head = Head(OfRpc)
             /\ OfRpc' = Tail(OfRpc) /\ OfQueue' = OfQueue
    <3>1. /\ waiting["rpc"] # <<>> /\ head = Head(waiting["rpc"])
          /\ waiting' = [waiting EXCEPT !["rpc"] = Tail(@)]
      BY <2>2, SMTT(30)
    <3> QED BY <3>1
  <2> QED BY <2>1, <2>2, Zenon
<1>2. CASE Runs' = Runs
  BY <1>1, <1>2, Zenon DEF Pool!PoolNext, Pool!Drop, OfQueue, OfRpc, Runs
<1>3. CASE Runs' = [Runs EXCEPT ![w] = head]
  <2>1. Runs' = [Runs EXCEPT ![w] = Head(waiting[o])]
    BY <1>1, <1>3
  <2>2. Pool!Start(w, o)
    BY <1>1, <2>1, Zenon DEF Pool!Start, OfQueue, OfRpc, Runs
  <2> QED BY <1>1, <2>2, Zenon DEF Pool!PoolNext
<1> QED BY <1>2, <1>3

LEMMA PoolEnds ==
    ASSUME NEW w \in Workers, OfQueue' = OfQueue, OfRpc' = OfRpc,
           Runs[w] # Idle, Runs' = [Runs EXCEPT ![w] = Idle]
    PROVE  Pool!PoolNext
  BY Zenon DEF Pool!PoolNext, Pool!Finish, OfQueue, OfRpc, Runs

LEMMA PoolResets ==
    ASSUME OfQueue' = <<>>, OfRpc' = <<>>, Runs' = [w \in Workers |-> Idle]
    PROVE  Pool!PoolNext
<1>1. [queue |-> OfQueue, rpc |-> OfRpc]' = [o \in {"queue", "rpc"} |-> <<>>]
  OBVIOUS
<1> QED BY <1>1, Zenon DEF Pool!PoolNext, Pool!Reset, OfQueue, OfRpc, Runs


\* The types of what waits, and what the parts of a step do to it.
LEMMA PoolType ==
    ASSUME LeastElements, JobType
    PROVE  OfQueue \in Seq(Event) /\ OfRpc \in Seq(Event)
<1>1. event_queue \in Seq(Event) /\ mailbox \in Seq(Event)
  BY DEF JobType
<1>2. WithIds(mailbox, EventIds \ {CliId}) \in Seq(Event) /\ WithIds(mailbox, {CliId}) \in Seq(Event)
  BY <1>1, WithIdsType
<1> QED BY <1>1, <1>2, ConcatProperties DEF OfQueue, OfRpc

LEMMA RunsKept ==
    ASSUME worker' = worker
    PROVE  Runs' = Runs
  BY DEF Runs, Running

\* An event in the queue waits behind everything that its origin has sent.
LEMMA PoolQueues ==
    ASSUME LeastElements, JobType, QueueInv, NEW e \in Queued, AddEventToQueue(e)
    PROVE  Pool!PoolNext
<1>1. event_queue' = Append(event_queue, e) /\ UNCHANGED <<mailbox, worker>> /\ e \in Event
  BY QueueGets, QueuedEvent
<1> DEFINE front == WithIds(mailbox, EventIds \ {CliId})
<1>2. front \in Seq(Event) /\ event_queue \in Seq(Event)
  BY WithIdsType DEF JobType
<1>3. OfRpc' = OfRpc /\ OfQueue' = front \o Append(event_queue, e) /\ OfQueue = front \o event_queue
  BY <1>1 DEF OfQueue, OfRpc
<1> HIDE DEF front
<1>4. front \o Append(event_queue, e) = Append(front \o event_queue, e)
  <2>1. <<e>> \in Seq(Event) /\ front \o event_queue \in Seq(Event)
    BY <1>1, <1>2, ConcatProperties
  <2>2. /\ Append(event_queue, e) = event_queue \o <<e>>
        /\ Append(front \o event_queue, e) = (front \o event_queue) \o <<e>>
    BY <1>1, <1>2, <2>1, AppendIsConcat
  <2> QED BY <1>2, <2>1, <2>2, ConcatAssociative
<1>5. Runs' = Runs
  BY <1>1, RunsKept
<1> QED BY <1>1, <1>3, <1>4, <1>5, PoolType, PoolGets

\* The job manager moves an event from the queue to the mailbox: for the pool
\* nothing happens.
LEMMA PoolManages ==
    ASSUME LeastElements, JobType, QueueInv, ManageJobs
    PROVE  UNCHANGED Pool!poolVars
<1> DEFINE e == Head(event_queue)
           rest == Tail(event_queue)
           front == WithIds(mailbox, EventIds \ {CliId})
<1>1. /\ event_queue # <<>> /\ mailbox' = Append(mailbox, e) /\ event_queue' = rest
      /\ worker' = worker
  BY FirstTaken, Zenon DEF ManageJobs, StartJobManager
<1>2. e \in Queued /\ e \in Event /\ rest \in Seq(Event)
  BY <1>1, HeadTailProperties, QueuedEvent DEF QueueInv, JobType
<1>3. e.id \in EventIds \ {CliId} /\ e.id \notin {CliId}
  BY <1>2 DEF Queued, QueueIds
<1>4. mailbox \in Seq(Event) /\ event_queue \in Seq(Event) /\ front \in Seq(Event)
  BY WithIdsType DEF JobType
<1>5. event_queue = <<e>> \o rest
  BY <1>1, <1>4, HeadTailProperties
<1> HIDE DEF e, rest
<1>6. OfRpc' = OfRpc /\ OfQueue' = Append(front, e) \o rest
  BY <1>1, <1>2, <1>3, <1>4, WithIdsAppend, Zenon DEF OfRpc, OfQueue
<1>7. OfQueue = front \o event_queue
  BY DEF OfQueue
<1> HIDE DEF front
<1>8. Append(front, e) \o rest = front \o event_queue
  <2>1. <<e>> \in Seq(Event) /\ Append(front, e) = front \o <<e>>
    BY <1>2, <1>4, AppendIsConcat
  <2> QED BY <1>2, <1>4, <1>5, <2>1, ConcatAssociative
<1>9. Runs' = Runs
  BY <1>1, RunsKept
<1> QED BY <1>6, <1>7, <1>8, <1>9, PoolKept

\* A worker takes an event of the mailbox, which is the first of its origin.
LEMMA PoolTakes ==
    ASSUME LeastElements, JobType, NEW w \in Workers, Take(w) \/ NotText(w)
    PROVE  Pool!PoolNext
<1> DEFINE e == Head(mailbox)
           rest == Tail(mailbox)
           Q == EventIds \ {CliId}
<1>1. /\ worker[w] = Idle /\ mailbox # <<>> /\ mailbox' = rest /\ event_queue' = event_queue
      /\ \E state \in {e, Ended} : worker' = [worker EXCEPT ![w] = state]
  BY DEF Take, NotText, TakeJob, PanicOnJob
<1>2. mailbox \in Seq(Event) /\ event_queue \in Seq(Event) /\ e \in Event /\ rest \in Seq(Event)
  BY <1>1, HeadTailProperties DEF JobType
<1>3. Runs[w] = Idle /\ (Runs' = Runs \/ Runs' = [Runs EXCEPT ![w] = e])
  <2>1. worker \in [Workers -> Event \cup {Idle, Ended}]
    BY DEF JobType
  <2>2. PICK state \in {e, Ended} : worker' = [worker EXCEPT ![w] = state]
    BY <1>1, Zenon
  <2>3. worker'[w] = state /\ \A v \in Workers \ {w} : worker'[v] = worker[v]
    BY <2>1, <2>2
  <2> HIDE DEF e
  <2>4. CASE state \in {Idle, Ended}
    <3>1. \A v \in Workers : Runs'[v] = Runs[v]
      BY <1>1, <2>3, <2>4 DEF Runs, Running
    <3>2. Runs' = Runs
      BY <3>1 DEF Runs
    <3> QED BY <1>1, <3>2 DEF Runs, Running
  <2>5. CASE state \notin {Idle, Ended}
    <3>1. state = e
      BY <2>5
    <3>2. \A v \in Workers : Runs'[v] = [Runs EXCEPT ![w] = e][v]
      BY <2>3, <2>5, <3>1 DEF Runs, Running
    <3>3. Runs' = [Runs EXCEPT ![w] = e]
      BY <3>2, Zenon DEF Runs
    <3> QED BY <1>1, <3>3 DEF Runs, Running
  <2> QED BY <2>4, <2>5
<1>4. /\ WithIds(mailbox, Q) = IF e.id \in Q THEN <<e>> \o WithIds(rest, Q) ELSE WithIds(rest, Q)
      /\ WithIds(mailbox, {CliId}) =
             IF e.id \in {CliId} THEN <<e>> \o WithIds(rest, {CliId}) ELSE WithIds(rest, {CliId})
  BY <1>1, <1>2, WithIdsHead, Zenon
<1>5. WithIds(rest, Q) \in Seq(Event) /\ WithIds(rest, {CliId}) \in Seq(Event)
  BY <1>2, WithIdsType, Zenon
<1>6. /\ OfQueue' = WithIds(rest, Q) \o event_queue /\ OfRpc' = WithIds(rest, {CliId})
      /\ OfQueue = WithIds(mailbox, Q) \o event_queue /\ OfRpc = WithIds(mailbox, {CliId})
  BY <1>1 DEF OfQueue, OfRpc
<1>7. ASSUME NEW q \in Seq(Event)
      PROVE  <<e>> \o q # <<>> /\ Head(<<e>> \o q) = e /\ Tail(<<e>> \o q) = q
  <2> HIDE DEF e
  <2> QED BY <1>2, <1>7
<1> HIDE DEF e, rest
<1>8. CASE e.id = CliId
  <2>1. OfQueue' = OfQueue /\ OfRpc = <<e>> \o OfRpc' /\ OfRpc' \in Seq(Event)
    BY <1>4, <1>5, <1>6, <1>8, Zenon
  <2> QED BY <1>3, <1>7, <2>1, PoolStarts, Zenon
<1>9. CASE e.id # CliId
  <2>1. e.id \in Q
    BY <1>2, <1>9 DEF Event
  <2>2. OfRpc' = OfRpc /\ OfQueue = (<<e>> \o WithIds(rest, Q)) \o event_queue
    BY <1>4, <1>6, <1>9, <2>1, Zenon
  <2>3. OfQueue = <<e>> \o OfQueue' /\ OfQueue' \in Seq(Event)
    <3> DEFINE front == WithIds(rest, Q)
    <3>1. <<e>> \in Seq(Event) /\ front \in Seq(Event) /\ front \o event_queue \in Seq(Event)
      BY <1>2, <1>5, ConcatProperties
    <3> HIDE DEF front
    <3>2. (<<e>> \o front) \o event_queue = <<e>> \o (front \o event_queue)
      BY <1>2, <3>1, ConcatAssociative
    <3> QED BY <1>6, <2>2, <3>1, <3>2, Zenon DEF front
  <2> QED BY <1>3, <1>7, <2>2, <2>3, PoolStarts, Zenon
<1> QED BY <1>8, <1>9


\* A task ends, or ends its worker.
LEMMA PoolFinishes ==
    ASSUME JobType, NEW w \in Workers, Finish(w) \/ BroadcastFails(w)
    PROVE  [Pool!PoolNext]_(Pool!poolVars)
<1>1. /\ UNCHANGED <<event_queue, mailbox>>
      /\ \E state \in {Idle, Ended} : worker' = [worker EXCEPT ![w] = state]
  BY DEF Finish, BroadcastFails, FinishJob, EndWorker
<1>2. OfQueue' = OfQueue /\ OfRpc' = OfRpc
  BY <1>1 DEF OfQueue, OfRpc
<1>3. worker'[w] \in {Idle, Ended} /\ \A v \in Workers \ {w} : worker'[v] = worker[v]
  BY <1>1 DEF JobType
<1>4. \A v \in Workers : Runs'[v] = [Runs EXCEPT ![w] = Idle][v]
  BY <1>3, Zenon DEF Runs, Running
<1>5. Runs' = [Runs EXCEPT ![w] = Idle]
  BY <1>4, Zenon DEF Runs
<1>6. CASE Runs[w] = Idle
  <2>1. Runs' = Runs
    BY <1>5, <1>6, Zenon DEF Runs
  <2> QED BY <1>2, <2>1, PoolKept
<1>7. CASE Runs[w] # Idle
  BY <1>2, <1>5, <1>7, PoolEnds, Zenon
<1> QED BY <1>6, <1>7

LEMMA PoolRestarts ==
    ASSUME LeastElements, Restart
    PROVE  Pool!PoolNext
<1>1. /\ event_queue' = <<>> /\ mailbox' = <<>>
      /\ \E state \in {Idle, Ended} : worker' = [w \in Workers |-> state]
  BY DEF Restart, JobRestart, FirstStates
<1>2. OfQueue' = <<>> \o <<>> /\ OfRpc' = <<>>
  BY <1>1, WithIdsEmpty DEF OfQueue, OfRpc
<1>3. <<>> \o <<>> = <<>>
  BY EmptySequence, ConcatEmptySeq
<1>4. Runs' = [w \in Workers |-> Idle]
  BY <1>1 DEF Runs, Running
<1> QED BY <1>2, <1>3, <1>4, PoolResets

LEMMA PoolStep ==
    ASSUME LeastElements, JobType, QueueInv, [Next]_vars
    PROVE  [Pool!PoolNext]_(Pool!poolVars)
<1>1. CASE UNCHANGED <<event_queue, mailbox, worker>>
  <2>1. OfQueue' = OfQueue /\ OfRpc' = OfRpc
    BY <1>1 DEF OfQueue, OfRpc
  <2> QED BY <1>1, <2>1, RunsKept, PoolKept
<1>2. CASE UNCHANGED vars
  BY <1>1, <1>2 DEF vars, jobVars
<1>3. CASE AppStarts \/ HostLearnsApp \/ DatabaseThread \/ RpcPeers \/ LoopSteps \/ LoopEnds \/ GossipArrives
  BY <1>1, <1>3 DEF AppStarts, HostLearnsApp, DatabaseThread, RpcPeers, LoopSteps, LoopEnds, GossipArrives, jobVars
<1>4. CASE \E w \in Workers : TaskAsks(w) \/ TakeUp(w) \/ Answer(w) \/ Network(w) \/ Broadcast(w)
  BY <1>1, <1>4 DEF TaskAsks, TakeUp, Answer, Network, Broadcast, jobVars
<1>5. CASE RpcCli
  <2>1. /\ mailbox' = Append(mailbox, NewEvent(CliId)) /\ UNCHANGED <<event_queue, worker>>
        /\ NewEvent(CliId) \in Event /\ NewEvent(CliId).id = CliId
    BY <1>5, NewEventType DEF RpcCli, cli, EventIds
  <2>2. mailbox \in Seq(Event)
    BY DEF JobType
  <2>3. OfQueue' = OfQueue /\ OfRpc' = Append(OfRpc, NewEvent(CliId))
    BY <2>1, <2>2, WithIdsAppend, Zenon DEF OfQueue, OfRpc
  <2> QED BY <2>1, <2>3, RunsKept, PoolType, PoolGets
<1>6. CASE FirstTick \/ Tick \/ \E w \in Workers : Trigger(w)
  <2>1. \/ \E id \in {TickId, TriggerId} : AddEventToQueue(NewEvent(id))
        \/ UNCHANGED <<event_queue, mailbox, worker>>
    BY <1>6 DEF FirstTick, Tick, Trigger, jobVars
  <2> QED BY <1>1, <2>1, QueuedEvent, PoolQueues
<1>7. CASE listen
  <2>1. p2p_messages # <<>> /\ AddEventToQueue(Head(p2p_messages))
    BY <1>7 DEF listen, Receive
  <2>2. Head(p2p_messages) \in Queued
    BY <2>1, HeadTailProperties DEF QueueInv
  <2> QED BY <2>1, <2>2, PoolQueues
<1> QED
  BY <1>2, <1>3, <1>4, <1>5, <1>6, <1>7, PoolManages, PoolTakes, PoolFinishes, PoolRestarts DEF Next

LEMMA PoolStarted == LeastElements /\ Init => Pool!PoolInit
<1> SUFFICES ASSUME LeastElements, Init PROVE Pool!PoolInit
  OBVIOUS
<1>1. /\ event_queue = <<>> /\ mailbox = <<>>
      /\ \E state \in {Idle, Ended} : worker = [w \in Workers |-> state]
  BY DEF Init, JobInit, FirstStates
<1>2. OfQueue = <<>> \o <<>> /\ OfRpc = <<>>
  BY <1>1, WithIdsEmpty DEF OfQueue, OfRpc
<1>3. <<>> \o <<>> = <<>>
  BY EmptySequence, ConcatEmptySeq
<1>4. Runs = [w \in Workers |-> Idle]
  BY <1>1 DEF Runs, Running
<1>5. [queue |-> OfQueue, rpc |-> OfRpc] = [o \in {"queue", "rpc"} |-> <<>>]
  BY <1>2, <1>3
<1> QED BY <1>4, <1>5 DEF Pool!PoolInit, OfQueue, OfRpc, Runs

-----------------------------------------------------------------------------
\* Types and bounds.  What is acknowledged is a value of a task: rows of an
\* earlier process are never written again.
Writes(c) == (c.op = "db_set" /\ c.stage # "failed") => c.value \in Values
WriteInv ==
    /\ \A w \in Workers : Writes(call[w])
    /\ \A k \in DOMAIN db_calls : db_calls[k].op = "db_set" => db_calls[k].value \in Values
    /\ acknowledged \subseteq Keys \X Values

LEMMA NoCallWrites == Writes(NoCall) /\ NoCall.op = "none"
BY DEF Writes, NoCall

LEMMA WritesKept ==
    ASSUME WriteInv, \A v \in Workers : call'[v] = call[v] \/ Writes(call'[v]),
           UNCHANGED <<db_calls, acknowledged>>
    PROVE  WriteInv'
<1>1. \A v \in Workers : Writes(call'[v])
  BY Zenon DEF WriteInv
<1> QED BY <1>1 DEF WriteInv, Writes

LEMMA RequestWrites ==
    ASSUME NEW request \in Requests
    PROVE  Writes(request)
BY DEF Requests, Request, Writes

\* The closure of a call carries its value, and its outcome the value of the closure.
LEMMA HandedWrites ==
    ASSUME HostInv, WriteInv, NEW w \in Workers, HandleDatabase(w)
    PROVE  WriteInv'
<1>1. host_mailbox # <<>> /\ Head(host_mailbox) = w /\ call[w].op \in DatabaseOps
  BY DEF HandleDatabase, Handles, NextMessage
<1>2. Sent(w)
  <2>1. 1 \in DOMAIN host_mailbox /\ host_mailbox[1] = w
    BY <1>1, HeadTailProperties, EmptySeq DEF HostInv, MailInv
  <2> QED BY <2>1 DEF HostInv, MailInv
<1>3. call[w] \in CallType /\ call \in [Workers -> CallType] /\ db_calls \in Closures
  BY Zenon DEF HostInv, StoreInv, StoreType
<1>4. \A v \in Workers : Writes(call'[v])
  <2>1. /\ call'[w].op = call[w].op /\ call'[w].value = call[w].value
        /\ \A v \in Workers \ {w} : call'[v] = call[v]
    BY <1>3 DEF HandleDatabase, CallType
  <2>2. Writes(call[w]) /\ call[w].stage # "failed"
    BY <1>2 DEF WriteInv, Sent
  <2> QED BY <2>1, <2>2, Zenon DEF WriteInv, Writes
<1> DEFINE closure == [from |-> {w}, op |-> call[w].op, key |-> call[w].key, value |-> call[w].value]
<1>5. closure.op = "db_set" => closure.value \in Values
  BY <1>2, Zenon DEF WriteInv, Writes, Sent
<1>6. db_calls' = Append(db_calls, closure) /\ UNCHANGED acknowledged
  BY DEF HandleDatabase, historyVars
<1> HIDE DEF closure
<1>7. /\ DOMAIN db_calls' = 1..(Len(db_calls) + 1) /\ DOMAIN db_calls = 1..Len(db_calls)
      /\ Len(db_calls) \in Nat
      /\ \A k \in 1..Len(db_calls) : db_calls'[k] = db_calls[k]
      /\ db_calls'[Len(db_calls) + 1] = closure
  BY <1>3, <1>6, AppendIsConcat, AppendProperties DEF Closures
<1>8. \A k \in DOMAIN db_calls' : db_calls'[k].op = "db_set" => db_calls'[k].value \in Values
  BY <1>5, <1>7 DEF WriteInv
<1> QED BY <1>4, <1>6, <1>8 DEF WriteInv

LEMMA ExecutedWrites ==
    ASSUME HostInv, WriteInv, ExecuteDatabase
    PROVE  WriteInv'
<1> DEFINE next == Head(db_calls)
<1>1. db_calls # <<>> /\ db_calls \in Closures /\ db_calls' = Tail(db_calls) /\ UNCHANGED acknowledged
  BY Zenon DEF HostInv, StoreInv, StoreType, ExecuteDatabase, historyVars
<1>2. /\ DOMAIN db_calls' = 1..(Len(db_calls) - 1) /\ DOMAIN db_calls = 1..Len(db_calls)
      /\ Len(db_calls) \in Nat \ {0} /\ next = db_calls[1]
      /\ \A k \in 1..(Len(db_calls) - 1) : db_calls'[k] = db_calls[k + 1]
  BY <1>1, HeadTailProperties, EmptySeq DEF Closures
<1> HIDE DEF next
<1>3. Owed(next) /\ (next.op = "db_set" => next.value \in Values)
  <2>1. 1 \in DOMAIN db_calls /\ next = db_calls[1]
    BY <1>2
  <2>2. Owed(db_calls[1]) /\ (db_calls[1].op = "db_set" => db_calls[1].value \in Values)
    BY <2>1, Zenon DEF HostInv, StoreInv, WriteInv
  <2> QED BY <2>1, <2>2, Zenon
<1>4. \A k \in DOMAIN db_calls' : db_calls'[k].op = "db_set" => db_calls'[k].value \in Values
  <2> SUFFICES ASSUME NEW k \in DOMAIN db_calls', db_calls'[k].op = "db_set"
               PROVE  db_calls'[k].value \in Values
    OBVIOUS
  <2>1. k + 1 \in DOMAIN db_calls /\ db_calls'[k] = db_calls[k + 1]
    BY <1>2
  <2> QED BY <2>1 DEF WriteInv
<1>5. PICK stage, value :
          /\ stage \in {"done", "failed"}
          /\ Outcome(next.from, stage, value)
          /\ stage = "done" => (next.op = "db_set" /\ value = next.value) \/ next.op = "db_get"
  BY DEF ExecuteDatabase, next
<1>6. ASSUME NEW v \in Workers PROVE Writes(call'[v])
  <2>1. CASE v \notin next.from
    BY <1>5, <2>1 DEF Outcome, WriteInv
  <2>2. CASE v \in next.from
    <3>1. call[v].op = next.op
      BY <1>3, <2>2 DEF Owed
    <3>2. call'[v] = With(call[v], stage, value)
      BY <1>5, <2>2 DEF Outcome
    <3>3. call'[v].op = next.op /\ call'[v].stage = stage /\ call'[v].value = value
      BY <3>1, <3>2 DEF With
    <3> QED BY <1>3, <1>5, <3>3 DEF Writes
  <2> QED BY <2>1, <2>2
<1> QED BY <1>1, <1>4, <1>6, Zenon DEF WriteInv

LEMMA AnsweredWrites ==
    ASSUME HostInv, WriteInv, NEW w \in Workers, DatabaseAnswers(w)
    PROVE  WriteInv'
<1>1. /\ call' = [call EXCEPT ![w] = NoCall] /\ db_calls' = db_calls
      /\ acknowledged' = acknowledged \cup Fulfilled(w, "db_set")
  BY DEF DatabaseAnswers, Return, dbVars
<1>2. \A v \in Workers : Writes(call'[v])
  BY <1>1, NoCallWrites, Zenon DEF HostInv, StoreInv, StoreType, WriteInv
<1>3. Fulfilled(w, "db_set") \subseteq Keys \X Values
  <2>1. CallComplete(call[w]) /\ Writes(call[w])
    BY DEF HostInv, StoreInv, WriteInv
  <2>2. CASE call[w].op = "db_set" /\ call[w].stage = "done"
    BY <2>1, <2>2 DEF Fulfilled, Row, CallComplete, Writes, DatabaseOps
  <2>3. CASE ~(call[w].op = "db_set" /\ call[w].stage = "done")
    BY <2>3 DEF Fulfilled
  <2> QED BY <2>2, <2>3, Zenon
<1> QED BY <1>1, <1>2, <1>3 DEF WriteInv


LEMMA WriteStep == HostInv /\ WriteInv /\ [Next]_vars => WriteInv'
<1> SUFFICES ASSUME HostInv, WriteInv, [Next]_vars PROVE WriteInv'
  OBVIOUS
<1>1. CASE UNCHANGED <<call, db_calls, acknowledged>>
  BY <1>1, WritesKept
<1>2. CASE UNCHANGED hostVars
  BY <1>1, <1>2 DEF hostVars, dbVars, historyVars
<1>3. CASE ManageJobs \/ RpcCli \/ RpcPeers \/ Tick \/ UNCHANGED vars
  BY <1>2, <1>3 DEF ManageJobs, RpcCli, RpcPeers, Tick, NextTick, vars
<1>4. CASE GossipArrives \/ listen \/ LoopSteps \/ LoopEnds
  BY <1>2, <1>4 DEF GossipArrives, listen, LoopSteps, LoopEnds
<1>5. CASE \E w \in Workers : Take(w) \/ Finish(w) \/ NotText(w)
  BY <1>2, <1>5 DEF Take, Finish, NotText
<1>6. CASE AppStarts \/ HostLearnsApp \/ FirstTick
  BY <1>1, <1>6 DEF AppStarts, Started, HostLearnsApp, SetAppAddress, FirstTick, BatchTickManager,
                    dbVars, historyVars
<1>7. ASSUME NEW w \in Workers, NEW c, Writes(c), call' = [call EXCEPT ![w] = c],
             UNCHANGED <<db_calls, acknowledged>>
      PROVE  WriteInv'
  <2>1. \A v \in Workers : call'[v] = call[v] \/ Writes(call'[v])
    BY <1>7, Zenon DEF HostInv, StoreInv, StoreType
  <2> QED BY <1>7, <2>1, WritesKept
<1>8. ASSUME NEW w \in Workers, TaskAsks(w) PROVE WriteInv'
  BY <1>7, <1>8, RequestWrites, Zenon DEF TaskAsks, Ask, dbVars, historyVars
<1>9. ASSUME NEW w \in Workers,
             \/ TriggerEvent(w) \/ MailboxClosed(w) \/ RemoteAnswers(w) \/ BroadcastEnds(w)
      PROVE  WriteInv'
  BY <1>7, <1>9, NoCallWrites
     DEF TriggerEvent, MailboxClosed, RemoteAnswers, BroadcastEnds, Return, dbVars, historyVars
<1>10. ASSUME NEW w \in Workers, TakeUp(w) PROVE WriteInv'
  <2>1. CASE HandleRemote(w)
    <3>1. call[w] \in CallType /\ call[w].op = "remote" /\ UNCHANGED <<db_calls, acknowledged>>
          /\ call' = [call EXCEPT ![w] = [call[w] EXCEPT !.stage = "remote"]]
      BY <2>1 DEF HandleRemote, HostInv, StoreInv, StoreType, dbVars, historyVars
    <3>2. Writes([call[w] EXCEPT !.stage = "remote"])
      BY <3>1 DEF Writes, CallType
    <3> QED BY <1>7, <3>1, <3>2, Zenon
  <2> QED BY <1>10, <2>1, HandedWrites DEF TakeUp
<1>11. ASSUME NEW w \in Workers, HttpFetchPanics(w) PROVE WriteInv'
  <2>1. /\ UNCHANGED <<call, acknowledged>>
        /\ db_calls' = [k \in DOMAIN db_calls |-> [db_calls[k] EXCEPT !.from = {}]]
    BY <1>11 DEF HttpFetchPanics, historyVars
  <2>2. ASSUME NEW k \in DOMAIN db_calls
        PROVE  db_calls'[k].op = db_calls[k].op /\ db_calls'[k].value = db_calls[k].value
    <3> db_calls \in Closures
      BY Zenon DEF HostInv, StoreInv, StoreType
    <3>1. db_calls[k] \in [from : SUBSET Workers, op : DatabaseOps,
                           key : Keys \cup {None}, value : Value \cup {None}]
      BY Element, Zenon DEF Closures
    <3>2. db_calls'[k] = [db_calls[k] EXCEPT !.from = {}]
      BY <2>1
    <3> QED BY <3>1, <3>2
  <2>3. DOMAIN db_calls' = DOMAIN db_calls
    BY <2>1
  <2> QED BY <2>1, <2>2, <2>3 DEF WriteInv, Writes
<1>12. CASE DatabaseThread
  BY <1>12, ExecutedWrites DEF DatabaseThread
<1>13. CASE Restart
  <2>1. \A w \in Workers : call'[w] = NoCall
    BY <1>13 DEF Restart, HostRestarts, HostStarts
  <2>2. DOMAIN db_calls' = {} /\ UNCHANGED acknowledged
    BY <1>13, EmptySequence DEF Restart, HostRestarts, HostStarts, historyVars
  <2> QED BY <2>1, <2>2, NoCallWrites, Zenon DEF WriteInv, Writes
<1>14. ASSUME NEW w \in Workers,
              \/ Broadcast(w) \/ BroadcastFails(w) \/ Trigger(w) \/ Answer(w) \/ Network(w)
       PROVE  WriteInv'
  BY <1>9, <1>11, <1>14, AnsweredWrites DEF Broadcast, BroadcastFails, Trigger, Answer, Network
<1> QED BY <1>3, <1>4, <1>5, <1>6, <1>8, <1>10, <1>12, <1>13, <1>14 DEF Next

-----------------------------------------------------------------------------
\* What only counts or flags.
SizeInv ==
    /\ started \in BOOLEAN /\ host_alive \in BOOLEAN /\ app_actor_addr \in BOOLEAN
    /\ calls \in 0..MaxCalls /\ restarts \in 0..MaxRestarts
    /\ Len(p2p_messages) <= Capacity /\ p2p_commands \in 0..Capacity

LEMMA FlagStep == SizeInv /\ [Next]_vars =>
                    started' \in BOOLEAN /\ host_alive' \in BOOLEAN /\ app_actor_addr' \in BOOLEAN
<1> SUFFICES ASSUME SizeInv, [Next]_vars
             PROVE  started' \in BOOLEAN /\ host_alive' \in BOOLEAN /\ app_actor_addr' \in BOOLEAN
  OBVIOUS
<1> USE DEF SizeInv
<1>1. CASE UNCHANGED <<started, host_alive, app_actor_addr>>
  BY <1>1
<1>2. CASE UNCHANGED hostVars
  BY <1>1, <1>2 DEF hostVars, actorVars
<1>3. CASE ManageJobs \/ RpcCli \/ RpcPeers \/ Tick \/ UNCHANGED vars
  BY <1>2, <1>3 DEF ManageJobs, RpcCli, RpcPeers, Tick, NextTick, vars
<1>4. CASE GossipArrives \/ listen \/ LoopSteps \/ LoopEnds
  BY <1>2, <1>4 DEF GossipArrives, listen, LoopSteps, LoopEnds
<1>5. CASE \E w \in Workers : Take(w) \/ Finish(w) \/ NotText(w)
  BY <1>2, <1>5 DEF Take, Finish, NotText
<1>6. CASE AppStarts
  BY <1>6 DEF AppStarts, Started
<1>7. CASE HostLearnsApp \/ FirstTick
  BY <1>7, Zenon DEF HostLearnsApp, SetAppAddress, FirstTick, BatchTickManager, Handles
<1>8. ASSUME NEW w \in Workers, TaskAsks(w) \/ TakeUp(w) \/ Trigger(w)
      PROVE  UNCHANGED <<started, host_alive, app_actor_addr>>
  BY <1>8 DEF TaskAsks, Ask, TakeUp, HandleDatabase, HandleRemote, Trigger, TriggerEvent, Handles
<1>9. ASSUME NEW w \in Workers, Answer(w) \/ Broadcast(w) \/ BroadcastFails(w)
      PROVE  UNCHANGED <<started, host_alive, app_actor_addr>>
  BY <1>9, Zenon DEF Answer, DatabaseAnswers, MailboxClosed, Broadcast, BroadcastFails, BroadcastEnds, actorVars
<1>10. ASSUME NEW w \in Workers, Network(w)
       PROVE  started' \in BOOLEAN /\ host_alive' \in BOOLEAN /\ app_actor_addr' \in BOOLEAN
  BY <1>10, Zenon DEF Network, RemoteAnswers, HttpFetchPanics, actorVars
<1>11. CASE DatabaseThread
  BY <1>1, <1>11, Zenon DEF DatabaseThread, ExecuteDatabase, actorVars
<1>12. CASE Restart
  BY <1>12, Zenon DEF Restart, HostRestarts, HostStarts
<1> QED BY <1>1, <1>3, <1>4, <1>5, <1>6, <1>7, <1>8, <1>9, <1>10, <1>11, <1>12 DEF Next


\* Calls and restarts are only ever counted up.
LEMMA CounterStep == SizeInv /\ [Next]_vars =>
                       calls' \in calls..MaxCalls /\ restarts' \in restarts..MaxRestarts
<1> SUFFICES ASSUME SizeInv, [Next]_vars
             PROVE  calls' \in calls..MaxCalls /\ restarts' \in restarts..MaxRestarts
  OBVIOUS
<1> USE DEF SizeInv
<1>1. CASE UNCHANGED <<calls, restarts>>
  BY <1>1
<1>2. CASE UNCHANGED <<hostVars, restarts>>
  BY <1>1, <1>2 DEF hostVars
<1>3. CASE ManageJobs \/ RpcCli \/ RpcPeers \/ Tick \/ UNCHANGED vars
  BY <1>2, <1>3 DEF ManageJobs, RpcCli, RpcPeers, Tick, NextTick, vars
<1>4. CASE GossipArrives \/ listen \/ LoopSteps \/ LoopEnds
  BY <1>2, <1>4 DEF GossipArrives, listen, LoopSteps, LoopEnds
<1>5. CASE \E w \in Workers : Take(w) \/ Finish(w) \/ NotText(w)
  BY <1>2, <1>5 DEF Take, Finish, NotText
<1>6. CASE AppStarts \/ HostLearnsApp \/ FirstTick \/ DatabaseThread
  BY <1>1, <1>6, Zenon DEF AppStarts, Started, HostLearnsApp, SetAppAddress, FirstTick, BatchTickManager,
                    DatabaseThread, ExecuteDatabase
<1>7. ASSUME NEW w \in Workers, TaskAsks(w)
      PROVE  calls' \in calls..MaxCalls /\ UNCHANGED restarts
  BY <1>7, HostAssumption DEF TaskAsks, Ask
<1>8. ASSUME NEW w \in Workers, TakeUp(w) \/ Trigger(w) \/ Broadcast(w) \/ BroadcastFails(w)
      PROVE  UNCHANGED <<calls, restarts>>
  BY <1>8 DEF TakeUp, HandleDatabase, HandleRemote, Trigger, TriggerEvent,
              Broadcast, BroadcastFails, BroadcastEnds
<1>9. ASSUME NEW w \in Workers, Answer(w) \/ Network(w)
      PROVE  UNCHANGED <<calls, restarts>>
  BY <1>9 DEF Answer, DatabaseAnswers, MailboxClosed, Network, RemoteAnswers, HttpFetchPanics
<1>10. CASE Restart
  BY <1>10, NodeAssumption DEF Restart, HostRestarts
<1>11. CASE \E w \in Workers : \/ TaskAsks(w) \/ Broadcast(w) \/ BroadcastFails(w) \/ Trigger(w)
                               \/ TakeUp(w) \/ Answer(w) \/ Network(w)
  BY <1>1, <1>7, <1>8, <1>9, <1>11
<1> QED BY <1>3, <1>4, <1>5, <1>6, <1>10, <1>11, Zenon DEF Next

LEMMA ChannelStep == JobType /\ SizeInv /\ [Next]_vars =>
                       Len(p2p_messages)' <= Capacity /\ p2p_commands' \in 0..Capacity
<1> SUFFICES ASSUME JobType, SizeInv, [Next]_vars
             PROVE  Len(p2p_messages)' <= Capacity /\ p2p_commands' \in 0..Capacity
  OBVIOUS
<1> USE CapacityAssumption DEF SizeInv
<1>1. CASE UNCHANGED channelVars
  BY <1>1 DEF channelVars
<1>2. p2p_messages \in Seq(Event) /\ Len(p2p_messages) \in Nat
  BY DEF JobType
<1>3. CASE SendCommand
  BY <1>3 DEF SendCommand
<1>4. CASE SendMessage
  <2>1. Len(p2p_messages)' = Len(p2p_messages) + 1 /\ Len(p2p_messages) < Capacity
    BY <1>2, <1>4 DEF SendMessage
  <2> QED BY <1>2, <1>4, <2>1 DEF SendMessage
<1>5. CASE HandleCommand
  BY <1>5 DEF HandleCommand
<1>6. CASE Receive
  <2>1. Len(p2p_messages)' <= Len(p2p_messages) /\ Len(p2p_messages)' \in Nat
    BY <1>2, <1>6, HeadTailProperties DEF Receive
  <2> QED BY <1>2, <1>6, <2>1 DEF Receive
<1>7. CASE Gossip(NewEvent(P2PId)) \/ LoopPanics
  BY <1>7 DEF Gossip, LoopPanics
<1>8. CASE ChannelsRestart
  BY <1>8 DEF ChannelsRestart
<1>9. CASE AppStarts \/ ManageJobs \/ RpcCli \/ HostLearnsApp \/ FirstTick \/ Tick
           \/ DatabaseThread \/ UNCHANGED vars
  BY <1>1, <1>9 DEF AppStarts, ManageJobs, RpcCli, HostLearnsApp, FirstTick, Tick, DatabaseThread, vars
<1>10. CASE RpcPeers \/ GossipArrives \/ listen \/ LoopSteps \/ LoopEnds \/ Restart
  BY <1>3, <1>4, <1>5, <1>6, <1>7, <1>8, <1>10
     DEF RpcPeers, GossipArrives, listen, LoopSteps, P2PLoop, LoopEnds, Restart
<1>11. ASSUME NEW w \in Workers,
              \/ Take(w) \/ TaskAsks(w) \/ Finish(w) \/ NotText(w) \/ BroadcastFails(w)
              \/ Trigger(w) \/ TakeUp(w) \/ Answer(w) \/ Network(w)
       PROVE  UNCHANGED channelVars
  BY <1>11 DEF Take, TaskAsks, Finish, NotText, BroadcastFails, Trigger, TakeUp, Answer, Network
<1>12. ASSUME NEW w \in Workers, Broadcast(w) PROVE SendCommand
  BY <1>12 DEF Broadcast
<1> QED BY <1>1, <1>3, <1>9, <1>10, <1>11, <1>12 DEF Next

LEMMA SizeStep == JobType /\ SizeInv /\ [Next]_vars => SizeInv'
  BY FlagStep, CounterStep, ChannelStep DEF SizeInv


-----------------------------------------------------------------------------
\* How many events arrive.  Beyond the bounds there are the first tick of every
\* process and one event for each call that triggers one, so what is still to
\* come of both is counted with the events that have arrived.
FirstTickIn(messages) == \E k \in DOMAIN messages : messages[k] = "BatchTickManager"
OneTick(messages) == \A k, l \in DOMAIN messages :
    (messages[k] = "BatchTickManager" /\ messages[l] = "BatchTickManager") => k = l
TickInv == OneTick(host_mailbox) /\ (~started => ~FirstTickIn(host_mailbox))

Awaited == IF ~started \/ FirstTickIn(host_mailbox) THEN 1 ELSE 0
Triggering == {w \in Workers : call[w].op = "trigger_event"}
Coming == Cardinality(Triggering) + Awaited
Occasions == calls + restarts + 1

Balanced(events, coming, occasions) ==
    /\ coming <= occasions
    /\ events + coming <= MaxEvents + MaxMessages + occasions
ArrivalInv == Balanced(arrived, Coming, Occasions)

LEMMA TickTaken ==
    ASSUME NEW s \in Seq(Messages), s # <<>>, OneTick(s)
    PROVE  /\ OneTick(Tail(s)) /\ (FirstTickIn(Tail(s)) => FirstTickIn(s))
           /\ Head(s) = "BatchTickManager" => FirstTickIn(s) /\ ~FirstTickIn(Tail(s))
<1> DEFINE rest == Tail(s)
<1>1. /\ DOMAIN rest = 1..(Len(s) - 1) /\ DOMAIN s = 1..Len(s) /\ Len(s) \in Nat \ {0}
      /\ \A k \in 1..(Len(s) - 1) : rest[k] = s[k + 1]
      /\ Head(s) = s[1]
  BY HeadTailProperties, EmptySeq
<1> HIDE DEF rest
<1>2. \A k \in DOMAIN rest : k + 1 \in DOMAIN s /\ rest[k] = s[k + 1] /\ k + 1 # 1 /\ k \in Nat
  BY <1>1
<1>3. OneTick(rest)
  <2> SUFFICES ASSUME NEW k \in DOMAIN rest, NEW l \in DOMAIN rest,
                      rest[k] = "BatchTickManager", rest[l] = "BatchTickManager"
               PROVE  k = l
    BY DEF OneTick
  <2>1. k + 1 = l + 1
    BY <1>2 DEF OneTick
  <2> QED BY <1>2, <2>1
<1>4. FirstTickIn(rest) => FirstTickIn(s)
  BY <1>2 DEF FirstTickIn
<1>5. ASSUME Head(s) = "BatchTickManager" PROVE FirstTickIn(s) /\ ~FirstTickIn(rest)
  <2>1. 1 \in DOMAIN s /\ s[1] = "BatchTickManager"
    BY <1>1, <1>5
  <2> QED BY <1>2, <2>1 DEF FirstTickIn, OneTick
<1> QED BY <1>3, <1>4, <1>5 DEF rest

LEMMA TickPassed ==
    ASSUME NEW s \in Seq(Messages), NEW w \in Workers, OneTick(s)
    PROVE  OneTick(Append(s, w)) /\ (FirstTickIn(Append(s, w)) => FirstTickIn(s))
<1> DEFINE longer == Append(s, w)
<1>1. w # "BatchTickManager" /\ w \in Messages
  BY NodeAssumption DEF Messages
<1>2. /\ DOMAIN longer = 1..(Len(s) + 1) /\ DOMAIN s = 1..Len(s) /\ Len(s) \in Nat
      /\ \A k \in 1..Len(s) : longer[k] = s[k]
      /\ longer[Len(s) + 1] = w
  <2>1. longer \in Seq(Messages) /\ Len(longer) = Len(s) + 1
    BY <1>1
  <2>2. \A k \in 1..Len(s) : longer[k] = s[k]
    OBVIOUS
  <2>3. longer[Len(s) + 1] = w
    OBVIOUS
  <2> HIDE DEF longer
  <2> QED BY <2>1, <2>2, <2>3
<1> HIDE DEF longer
<1>3. \A k \in DOMAIN longer : longer[k] = "BatchTickManager" => k \in DOMAIN s /\ longer[k] = s[k]
  BY <1>1, <1>2
<1> QED BY <1>3, Zenon DEF OneTick, FirstTickIn, longer

LEMMA TickSent ==
    ASSUME NEW s \in Seq(Messages), ~FirstTickIn(s)
    PROVE  OneTick(s \o <<"SetAppAddress", "BatchTickManager">>)
<1> DEFINE longer == s \o <<"SetAppAddress", "BatchTickManager">>
<1>1. <<"SetAppAddress", "BatchTickManager">> \in Seq(Messages)
  BY DEF Messages
<1>2. /\ DOMAIN longer = 1..(Len(s) + 2) /\ DOMAIN s = 1..Len(s) /\ Len(s) \in Nat
      /\ \A k \in 1..Len(s) : longer[k] = s[k]
      /\ longer[Len(s) + 1] = "SetAppAddress"
  <2>1. Len(<<"SetAppAddress", "BatchTickManager">>) = 2
    OBVIOUS
  <2>2. /\ longer \in Seq(Messages) /\ Len(longer) = Len(s) + 2 /\ Len(s) \in Nat
        /\ \A k \in 1..(Len(s) + 2) : longer[k] =
             IF k <= Len(s) THEN s[k] ELSE <<"SetAppAddress", "BatchTickManager">>[k - Len(s)]
    BY <1>1, <2>1, ConcatProperties
  <2> HIDE DEF longer
  <2>3. DOMAIN longer = 1..(Len(s) + 2) /\ DOMAIN s = 1..Len(s)
    BY <2>2
  <2>4. \A k \in 1..Len(s) : longer[k] = s[k]
    BY <2>2
  <2>5. (Len(s) + 1) - Len(s) = 1 /\ Len(s) + 1 \in 1..(Len(s) + 2) /\ ~(Len(s) + 1 <= Len(s))
    BY <2>2
  <2>6. longer[Len(s) + 1] = "SetAppAddress"
    BY <2>2, <2>5
  <2> QED BY <2>2, <2>3, <2>4, <2>6
<1> HIDE DEF longer
<1>3. \A k \in DOMAIN longer : longer[k] = "BatchTickManager" => k = Len(s) + 2
  BY <1>2 DEF FirstTickIn
<1> QED BY <1>3 DEF OneTick, longer


\* Only a restart makes a further first tick come.
Passed == TickInv' /\ Awaited' <= Awaited

LEMMA AwaitedType == Awaited \in {0, 1} /\ Awaited' \in {0, 1}
BY DEF Awaited

LEMMA TickHandled ==
    ASSUME HostInv, TickInv, NEW message, Handles(message)
    PROVE  Passed /\ (message = "BatchTickManager" => Awaited = 1 /\ Awaited' = 0)
<1>1. /\ host_mailbox \in Seq(Messages) /\ host_mailbox # <<>> /\ Head(host_mailbox) = message
      /\ host_mailbox' = Tail(host_mailbox) /\ started' = started
  BY DEF HostInv, MailInv, Handles, NextMessage
<1>2. /\ OneTick(host_mailbox') /\ (FirstTickIn(host_mailbox') => FirstTickIn(host_mailbox))
      /\ message = "BatchTickManager" => FirstTickIn(host_mailbox) /\ ~FirstTickIn(host_mailbox')
  BY <1>1, TickTaken, Zenon DEF TickInv
<1> QED BY <1>1, <1>2 DEF Passed, TickInv, Awaited

LEMMA TickStep ==
    ASSUME HostInv, TickInv, [Next]_vars
    PROVE  Passed \/ (Restart /\ TickInv' /\ Awaited' = 1)
<1>1. CASE UNCHANGED <<started, host_mailbox>>
  <2>1. TickInv' /\ Awaited' = Awaited
    BY <1>1 DEF TickInv, Awaited
  <2> QED BY <2>1, AwaitedType DEF Passed
<1>2. CASE UNCHANGED hostVars
  BY <1>1, <1>2 DEF hostVars, actorVars
<1>3. CASE ManageJobs \/ RpcCli \/ RpcPeers \/ Tick \/ UNCHANGED vars
  BY <1>2, <1>3 DEF ManageJobs, RpcCli, RpcPeers, Tick, NextTick, vars
<1>4. CASE GossipArrives \/ listen \/ LoopSteps \/ LoopEnds
  BY <1>2, <1>4 DEF GossipArrives, listen, LoopSteps, LoopEnds
<1>5. CASE \E w \in Workers : Take(w) \/ Finish(w) \/ NotText(w)
  BY <1>2, <1>5 DEF Take, Finish, NotText
<1>6. CASE AppStarts
  <2>1. /\ ~started /\ started'
        /\ \/ host_mailbox' = host_mailbox
           \/ host_mailbox' = host_mailbox \o <<"SetAppAddress", "BatchTickManager">>
    BY <1>6 DEF AppStarts, Started
  <2>2. OneTick(host_mailbox')
    BY <2>1, TickSent, Zenon DEF TickInv, HostInv, MailInv
  <2>3. Awaited = 1
    BY <2>1 DEF Awaited
  <2> QED BY <2>1, <2>2, <2>3, AwaitedType DEF Passed, TickInv
<1>7. CASE HostLearnsApp \/ FirstTick
  BY <1>7, TickHandled DEF HostLearnsApp, SetAppAddress, FirstTick, BatchTickManager
<1>8. ASSUME NEW w \in Workers, TakeUp(w) \/ Trigger(w) PROVE Passed
  BY <1>8, TickHandled DEF TakeUp, HandleDatabase, HandleRemote, Trigger, TriggerEvent
<1>9. ASSUME NEW w \in Workers, TaskAsks(w) PROVE Passed
  <2>1. started' = started /\ (host_mailbox' = host_mailbox \/ host_mailbox' = Append(host_mailbox, w))
    BY <1>9 DEF TaskAsks, Ask
  <2>2. OneTick(host_mailbox') /\ (FirstTickIn(host_mailbox') => FirstTickIn(host_mailbox))
    BY <2>1, TickPassed, Zenon DEF TickInv, HostInv, MailInv
  <2> QED BY <2>1, <2>2 DEF Passed, TickInv, Awaited
<1>10. ASSUME NEW w \in Workers, Answer(w) \/ Broadcast(w) \/ BroadcastFails(w)
       PROVE  UNCHANGED <<started, host_mailbox>>
  BY <1>10, Zenon DEF Answer, DatabaseAnswers, MailboxClosed, Broadcast, BroadcastFails, BroadcastEnds, actorVars
<1>11. ASSUME NEW w \in Workers, Network(w) PROVE Passed
  <2>1. CASE RemoteAnswers(w)
    <3>1. UNCHANGED <<started, host_mailbox>>
      BY <2>1 DEF RemoteAnswers, actorVars
    <3>2. TickInv' /\ Awaited' = Awaited
      BY <3>1 DEF TickInv, Awaited
    <3> QED BY <3>2, AwaitedType DEF Passed
  <2>2. CASE HttpFetchPanics(w)
    <3>1. DOMAIN host_mailbox' = {} /\ started' = started
      BY <2>2, EmptySequence DEF HttpFetchPanics
    <3>2. ~FirstTickIn(host_mailbox') /\ OneTick(host_mailbox')
      BY <3>1 DEF FirstTickIn, OneTick
    <3> QED BY <3>1, <3>2 DEF Passed, TickInv, Awaited
  <2> QED BY <1>11, <2>1, <2>2 DEF Network
<1>12. CASE DatabaseThread
  BY <1>1, <1>12, Zenon DEF DatabaseThread, ExecuteDatabase, actorVars
<1>13. CASE Restart
  <2>1. DOMAIN host_mailbox' = {} /\ ~started'
    BY <1>13, EmptySequence DEF Restart, HostRestarts, HostStarts
  <2>2. ~FirstTickIn(host_mailbox') /\ OneTick(host_mailbox')
    BY <2>1 DEF FirstTickIn, OneTick
  <2> QED BY <1>13, <2>1, <2>2 DEF TickInv, Awaited
<1> QED BY <1>1, <1>3, <1>4, <1>5, <1>6, <1>7, <1>8, <1>9, <1>10, <1>11, <1>12, <1>13 DEF Next


\* Calls end or go on as what they are; only Ask makes new ones.
Settles(v) == call'[v].op = call[v].op \/ call'[v].op = "none"

LEMMA CallsSettle ==
    ASSUME HostInv, [Next]_vars
    PROVE  \/ \A v \in Workers : Settles(v)
           \/ \E w \in Workers : /\ TaskAsks(w) /\ calls' = calls + 1 /\ UNCHANGED restarts
                                 /\ \A v \in Workers \ {w} : Settles(v)
<1> USE DEF Settles
<1>1. CASE UNCHANGED call
  BY <1>1
<1>2. CASE UNCHANGED hostVars
  BY <1>1, <1>2 DEF hostVars
<1>3. CASE ManageJobs \/ RpcCli \/ RpcPeers \/ Tick \/ UNCHANGED vars
  BY <1>2, <1>3, Zenon DEF ManageJobs, RpcCli, RpcPeers, Tick, NextTick, vars
<1>4. CASE GossipArrives \/ listen \/ LoopSteps \/ LoopEnds
  BY <1>2, <1>4, Zenon DEF GossipArrives, listen, LoopSteps, LoopEnds
<1>5. CASE \E w \in Workers : Take(w) \/ Finish(w) \/ NotText(w)
  BY <1>2, <1>5, Zenon DEF Take, Finish, NotText
<1>6. CASE AppStarts \/ HostLearnsApp \/ FirstTick
  BY <1>1, <1>6, Zenon DEF AppStarts, Started, HostLearnsApp, SetAppAddress, FirstTick, BatchTickManager
<1>7. call \in [Workers -> CallType]
  BY Zenon DEF HostInv, StoreInv, StoreType
<1>8. ASSUME NEW w \in Workers, TaskAsks(w)
      PROVE  /\ calls' = calls + 1 /\ UNCHANGED restarts
             /\ \A v \in Workers \ {w} : Settles(v)
  BY <1>7, <1>8 DEF TaskAsks, Ask
<1>9. ASSUME NEW w \in Workers, Return(w) PROVE \A v \in Workers : Settles(v)
  BY <1>7, <1>9, NoCallWrites DEF Return
<1>10. ASSUME NEW w \in Workers,
              \/ Broadcast(w) \/ BroadcastFails(w) \/ Trigger(w) \/ Answer(w) \/ RemoteAnswers(w)
       PROVE  \A v \in Workers : Settles(v)
  <2>1. Return(w)
    BY <1>10, Zenon DEF Broadcast, BroadcastFails, BroadcastEnds, Trigger, TriggerEvent, Answer,
                 DatabaseAnswers, MailboxClosed, RemoteAnswers
  <2> QED BY <1>9, <2>1
<1>11. ASSUME NEW w \in Workers, TakeUp(w) PROVE \A v \in Workers : Settles(v)
  <2>1. PICK stage \in {"db", "remote"} : call' = [call EXCEPT ![w].stage = stage]
    BY <1>11 DEF TakeUp, HandleDatabase, HandleRemote
  <2>2. call[w] \in CallType
    BY <1>7
  <2>3. call'[w].op = call[w].op
    BY <1>7, <2>1, <2>2 DEF CallType
  <2> QED BY <1>7, <2>1, <2>3
<1>12. ASSUME NEW w \in Workers, Network(w) PROVE \A v \in Workers : Settles(v)
  BY <1>1, <1>10, <1>12, Zenon DEF Network, HttpFetchPanics
<1>13. CASE DatabaseThread
  <2>1. PICK from, stage, value : Outcome(from, stage, value)
    BY <1>13, Zenon DEF DatabaseThread, ExecuteDatabase
  <2> QED BY <2>1, Zenon DEF Outcome, With
<1>14. CASE Restart
  <2>1. \A v \in Workers : call'[v] = NoCall
    BY <1>14, Zenon DEF Restart, HostRestarts, HostStarts
  <2> QED BY <2>1, NoCallWrites
<1> QED BY <1>3, <1>4, <1>5, <1>6, <1>8, <1>10, <1>11, <1>12, <1>13, <1>14, Zenon DEF Next

\* Where the bounds do not hold an event back, one that was to come has come.
LEMMA ArrivedStep ==
    ASSUME [Next]_vars
    PROVE  \/ UNCHANGED arrived
           \/ /\ arrived' = arrived + 1 /\ (arrived < MaxEvents \/ arrived + restarts < MaxMessages)
              /\ UNCHANGED hostVars /\ UNCHANGED restarts
           \/ FirstTick /\ arrived' = arrived + 1 /\ UNCHANGED <<call, calls, restarts>>
           \/ \E w \in Workers : Trigger(w) /\ arrived' = arrived + 1 /\ UNCHANGED <<calls, restarts>>
<1>1. CASE UNCHANGED jobVars \/ UNCHANGED vars
  BY <1>1 DEF jobVars, vars
<1>2. CASE AppStarts \/ RpcPeers \/ HostLearnsApp \/ LoopSteps \/ LoopEnds \/ DatabaseThread
  BY <1>1, <1>2 DEF AppStarts, RpcPeers, HostLearnsApp, LoopSteps, LoopEnds, DatabaseThread
<1>3. CASE ManageJobs \/ listen \/ Restart
  BY <1>3 DEF ManageJobs, StartJobManager, listen, Restart
<1>4. CASE RpcCli \/ Tick \/ GossipArrives
  BY <1>4 DEF RpcCli, cli, Tick, NextTick, GossipArrives, Arrives
<1>5. CASE FirstTick
  BY <1>5, Zenon DEF FirstTick, BatchTickManager, Arrives, jobVars
<1>6. ASSUME NEW w \in Workers, Trigger(w)
      PROVE  (UNCHANGED arrived \/ arrived' = arrived + 1) /\ UNCHANGED <<calls, restarts>>
  BY <1>6 DEF Trigger, TriggerEvent, Arrives, jobVars
<1>7. ASSUME NEW w \in Workers, Take(w) \/ Finish(w) \/ NotText(w) \/ BroadcastFails(w)
      PROVE  UNCHANGED arrived
  BY <1>7, Zenon DEF Take, TakeJob, Finish, FinishJob, NotText, PanicOnJob, BroadcastFails, EndWorker
<1>8. ASSUME NEW w \in Workers, TaskAsks(w) \/ Broadcast(w) \/ TakeUp(w) \/ Answer(w) \/ Network(w)
      PROVE  UNCHANGED jobVars
  BY <1>8 DEF TaskAsks, Broadcast, TakeUp, Answer, Network
<1> QED BY <1>1, <1>2, <1>3, <1>4, <1>5, <1>6, <1>7, <1>8, Zenon DEF Next


\* Fewer are coming, or a further occasion is counted for the one that is new.
Settled(c, d, o, p) ==
    c \in Nat /\ d \in Nat /\ o \in Nat /\ p \in Nat /\ d + o <= c + p

LEMMA SettledSum ==
    ASSUME NEW n \in Nat, NEW m \in Nat, NEW a \in {0, 1}, NEW b \in {0, 1},
           NEW o \in Nat, NEW p \in Nat, o <= p,
           \/ b <= a /\ (m <= n \/ (m <= n + 1 /\ p = o + 1))
           \/ m <= n /\ p = o + 1
    PROVE  Settled(n + a, m + b, o, p)
BY DEF Settled

LEMMA BalanceKept ==
    ASSUME NEW x \in Nat, NEW y, NEW c, NEW d, NEW o, NEW p, Settled(c, d, o, p), Balanced(x, c, o),
           \/ y = x
           \/ y = x + 1 /\ (x < MaxEvents \/ x < MaxMessages)
           \/ y = x + 1 /\ d + 1 <= c /\ p = o
    PROVE  Balanced(y, d, p)
BY NodeAssumption DEF Settled, Balanced

\* n and m count the calls that are to trigger an event, before a step and after it.
Counts(n, m) ==
    /\ n \in Nat /\ m \in Nat
    /\ (\A v \in Workers : Settles(v)) => m <= n
    /\ \A w \in Workers : (\A v \in Workers \ {w} : Settles(v)) => m <= n + 1
    /\ \A w \in Workers : TriggerEvent(w) => m + 1 <= n
    /\ UNCHANGED call => m = n

LEMMA ComingStep ==
    ASSUME HostInv, SizeInv, TickInv, [Next]_vars, NEW n, NEW m, Counts(n, m)
    PROVE  TickInv' /\ Settled(n + Awaited, m + Awaited', Occasions, Occasions')
<1> DEFINE a == Awaited
           b == Awaited'
           o == calls + restarts + 1
           p == calls' + restarts' + 1
<1>1. n \in Nat /\ m \in Nat /\ a \in {0, 1} /\ b \in {0, 1}
  BY AwaitedType DEF Counts
<1>2. /\ calls \in Nat /\ restarts \in Nat /\ calls' \in Nat /\ restarts' \in Nat
      /\ calls' >= calls /\ restarts' >= restarts
  BY CounterStep, HostAssumption, NodeAssumption DEF SizeInv
<1>3. o \in Nat /\ p \in Nat /\ o <= p
  <2>1. \A i, j, k, l \in Nat : k >= i /\ l >= j =>
            i + j + 1 \in Nat /\ k + l + 1 \in Nat /\ i + j + 1 <= k + l + 1
    OBVIOUS
  <2> QED BY <1>2, <2>1, Zenon
<1>4. Occasions = o /\ Occasions' = p
  BY DEF Occasions
<1>5. \/ m <= n
      \/ m <= n + 1 /\ p = o + 1
  <2>1. CASE \A v \in Workers : Settles(v)
    BY <2>1 DEF Counts
  <2>2. ASSUME NEW w \in Workers, calls' = calls + 1, UNCHANGED restarts,
               \A v \in Workers \ {w} : Settles(v)
        PROVE  m <= n + 1 /\ p = o + 1
    <3>1. m <= n + 1
      BY <2>2 DEF Counts
    <3>2. p = o + 1
      BY <1>2, <2>2
    <3> QED BY <3>1, <3>2
  <2> QED BY <2>1, <2>2, CallsSettle
<1>6. CASE Passed
  <2>1. TickInv' /\ b <= a
    BY <1>6 DEF Passed
  <2>2. Settled(n + a, m + b, o, p)
    BY <1>1, <1>3, <1>5, <2>1, SettledSum, Zenon
  <2> QED BY <1>4, <2>1, <2>2, Zenon
<1>7. CASE Restart /\ TickInv'
  <2>1. p = o + 1
    BY <1>2, <1>7 DEF Restart, HostRestarts
  <2>2. \A v \in Workers : Settles(v)
    BY <1>7, NoCallWrites DEF Restart, HostRestarts, HostStarts, Settles
  <2>3. m <= n
    BY <2>2 DEF Counts
  <2>4. Settled(n + a, m + b, o, p)
    BY <1>1, <1>3, <2>1, <2>3, SettledSum, Zenon
  <2> QED BY <1>4, <1>7, <2>4, Zenon
<1> QED BY <1>6, <1>7, TickStep

LEMMA ArrivalStep ==
    ASSUME HostInv, JobType, SizeInv, TickInv, [Next]_vars,
           NEW n, NEW m, Counts(n, m), Balanced(arrived, n + Awaited, Occasions)
    PROVE  TickInv' /\ Balanced(arrived', m + Awaited', Occasions')
<1> DEFINE a == Awaited
           b == Awaited'
<1>1. TickInv' /\ Settled(n + a, m + b, Occasions, Occasions')
  BY ComingStep
<1>2. arrived \in Nat /\ n \in Nat /\ m \in Nat /\ a \in {0, 1} /\ b \in {0, 1}
  BY AwaitedType DEF JobType, Counts
<1>3. CASE arrived' = arrived
  BY <1>1, <1>2, <1>3, BalanceKept, Zenon
<1>4. CASE arrived' = arrived + 1 /\ (arrived < MaxEvents \/ arrived + restarts < MaxMessages)
  <2>1. restarts \in Nat
    BY DEF SizeInv
  <2>2. arrived < MaxEvents \/ arrived < MaxMessages
    BY <1>2, <1>4, <2>1, NodeAssumption
  <2> QED BY <1>1, <1>2, <1>4, <2>2, BalanceKept, Zenon
<1>5. ASSUME arrived' = arrived + 1, (m + b) + 1 <= n + a, Occasions' = Occasions
      PROVE  Balanced(arrived', m + b, Occasions')
  BY <1>1, <1>2, <1>5, BalanceKept, Zenon
<1>6. CASE FirstTick /\ arrived' = arrived + 1 /\ UNCHANGED <<call, calls, restarts>>
  <2>1. a = 1 /\ b = 0
    BY <1>6, TickHandled DEF FirstTick, BatchTickManager
  <2>2. m = n
    BY <1>6 DEF Counts
  <2> HIDE DEF a, b
  <2>3. (m + b) + 1 <= n + a
    BY <1>2, <2>1, <2>2
  <2>4. arrived' = arrived + 1 /\ Occasions' = Occasions
    BY <1>6 DEF Occasions
  <2> QED BY <1>1, <1>5, <2>3, <2>4, Zenon DEF a, b
<1>7. ASSUME NEW w \in Workers, Trigger(w), arrived' = arrived + 1, UNCHANGED <<calls, restarts>>
      PROVE  Balanced(arrived', m + b, Occasions')
  <2>1. TriggerEvent(w)
    BY <1>7 DEF Trigger
  <2>2. m + 1 <= n
    BY <2>1 DEF Counts
  <2>3. b <= a
    BY <2>1, TickHandled, AwaitedType DEF TriggerEvent, Passed
  <2> HIDE DEF a, b
  <2>4. (m + b) + 1 <= n + a
    BY <1>2, <2>2, <2>3
  <2>5. Occasions' = Occasions
    BY <1>7 DEF Occasions
  <2> QED BY <1>5, <1>7, <2>4, <2>5, Zenon DEF a, b
<1> QED BY <1>1, <1>3, <1>4, <1>6, <1>7, ArrivedStep

LEMMA BoundsInit == Init => WriteInv /\ SizeInv /\ TickInv /\ (Cardinality({}) = 0 => ArrivalInv)
<1> SUFFICES ASSUME Init PROVE WriteInv /\ SizeInv /\ TickInv /\ (Cardinality({}) = 0 => ArrivalInv)
  OBVIOUS
<1>1. /\ \A w \in Workers : call[w] = NoCall
      /\ ~started /\ DOMAIN host_mailbox = {} /\ DOMAIN db_calls = {}
      /\ acknowledged = {} /\ calls = 0 /\ restarts = 0 /\ arrived = 0
  BY EmptySequence DEF Init, HostInit
<1>2. WriteInv
  BY <1>1, NoCallWrites DEF WriteInv
<1>3. SizeInv
  <2>1. /\ started = FALSE /\ host_alive = TRUE /\ app_actor_addr = FALSE
        /\ p2p_messages = <<>> /\ p2p_commands = 0
    BY DEF Init, HostInit, ChannelsInit
  <2>2. Len(p2p_messages) = 0
    BY <2>1
  <2>3. 0 \in 0..MaxCalls /\ 0 \in 0..MaxRestarts /\ 0 \in 0..Capacity /\ 0 <= Capacity
    BY HostAssumption, NodeAssumption, CapacityAssumption
  <2> QED BY <1>1, <2>1, <2>2, <2>3, Zenon DEF SizeInv
<1>4. TickInv
  BY <1>1 DEF TickInv, OneTick, FirstTickIn
<1>5. ASSUME Cardinality({}) = 0 PROVE ArrivalInv
  <2>1. Triggering = {}
    BY <1>1, NoCallWrites DEF Triggering
  <2>2. Cardinality(Triggering) = 0 /\ Awaited = 1
    BY <1>1, <1>5, <2>1 DEF Awaited
  <2> QED BY <1>1, <2>2, NodeAssumption DEF ArrivalInv, Balanced, Coming, Occasions
<1> QED BY <1>2, <1>3, <1>4, <1>5

\* What a task reads is a row of the table.
LEMMA RowType ==
    ASSUME HostInv, NEW row \in retrieved
    PROVE  row \in Keys \X Value
<1>1. rows \in Table /\ IsFirst(rows, row)
  BY DEF HostInv, StoreInv, StoreType
<1>2. PICK k \in DOMAIN rows : rows[k] = row
  BY <1>1 DEF IsFirst
<1>3. rows[k] \in Keys \X Value
  BY <1>1, Element, Zenon DEF Table
<1> QED BY <1>2, <1>3, Zenon

LEMMA TypeFollows ==
    ASSUME HostInv, JobType, QueueInv, WriteInv, SizeInv, arrived \in 0..MaxSerial
    PROVE  TypeOK
<1>1. retrieved \subseteq Keys \X (Values \cup OldValues)
  BY RowType DEF Value
<1>2. db_calls \in Seq([from : SUBSET Workers, op : DatabaseOps,
                        key : Keys, value : Values \cup OldValues \cup {None}])
  <2> DEFINE T == [from : SUBSET Workers, op : DatabaseOps,
                   key : Keys, value : Values \cup OldValues \cup {None}]
  <2> db_calls \in Closures
    BY Zenon DEF HostInv, StoreInv, StoreType
  <2>1. ASSUME NEW k \in DOMAIN db_calls PROVE db_calls[k] \in T
    <3>1. db_calls[k] \in [from : SUBSET Workers, op : DatabaseOps,
                           key : Keys \cup {None}, value : Value \cup {None}]
      BY Element, Zenon DEF Closures
    <3>2. db_calls[k].key \in Keys
      BY DEF HostInv, StoreInv, ClosureComplete
    <3> QED BY <3>1, <3>2 DEF Value
  <2>2. DOMAIN db_calls = 1..Len(db_calls) /\ Len(db_calls) \in Nat
        /\ db_calls = [k \in 1..Len(db_calls) |-> db_calls[k]]
    BY DEF Closures
  <2> HIDE DEF T
  <2>3. \A k \in 1..Len(db_calls) : db_calls[k] \in T
    BY <2>1, <2>2
  <2>4. db_calls \in Seq(T)
    BY <2>2, <2>3
  <2> QED BY <2>4 DEF T
<1> QED BY <1>1, <1>2, Zenon
        DEF TypeOK, JobType, QueueInv, HostInv, StoreInv, StoreType, CallType, Table, Value,
            MailInv, Messages, WriteInv, SizeInv

LEMMA SettledTriggering ==
    ASSUME \A v \in Workers : Settles(v)
    PROVE  Triggering' \in SUBSET Triggering
BY DEF Settles, Triggering

LEMMA AskedTriggering ==
    ASSUME NEW w \in Workers, \A v \in Workers \ {w} : Settles(v)
    PROVE  Triggering' \subseteq Triggering \cup {w}
BY DEF Settles, Triggering

-----------------------------------------------------------------------------
\* The theorems.  Only here the library is brought in, on well-founded relations.
INSTANCE WellFoundedInduction

LEMMA NumbersFounded == LeastElements
<1> SUFFICES ASSUME NEW S \in SUBSET Nat, S # {} PROVE \E k \in S : \A l \in S : k <= l
  BY DEF LeastElements
<1>1. PICK k \in S : \A l \in S : ~(<<l, k>> \in OpToRel(<, Nat))
  BY NatLessThanWellFounded, WFMin, Zenon
<1>2. ASSUME NEW l \in S PROVE k <= l
  <2>1. ~(l < k)
    BY <1>1, Zenon DEF OpToRel
  <2> QED BY <2>1
<1> QED BY <1>2

LEMMA HostInvariant == Spec => []HostInv
<1>1. Init => HostInv
  BY HostInvInit DEF HostInv
<1>2. HostInv /\ [Next]_vars => HostInv'
  BY NumbersFounded, HostInvStep
<1> QED BY <1>1, <1>2, PTL DEF Spec

\* What a task has ever been given for a key is the value of the key's first row,
\* for any number of workers, keys, values, calls and restarts (db_get.rs:25,
\* db_set.rs:25).
THEOREM ReadsFirstRowHolds == Spec => []ReadsFirstRow
<1>1. HostInv => ReadsFirstRow
  BY Zenon DEF HostInv, StoreInv, IsFirst, ReadsFirstRow
<1> QED BY <1>1, HostInvariant, PTL

\* A write that a task was told has succeeded stays in the table, whatever fails
\* after it (db_set.rs:21-34).
THEOREM AcknowledgedStoredHolds == Spec => []AcknowledgedStored
<1>1. HostInv => AcknowledgedStored
  BY Zenon DEF HostInv, StoreInv, IsIn, AcknowledgedStored
<1> QED BY <1>1, HostInvariant, PTL

\* Two reads of one key agree, in whatever process and however far apart: a write
\* to a key that is in the table is never seen (db_set.rs:25).
ReadsAgree == \A r, s \in retrieved : r[1] = s[1] => r = s

THEOREM ReadsAgreeHolds == Spec => []ReadsAgree
<1>1. HostInv => ReadsAgree
  <2> SUFFICES ASSUME HostInv, NEW r \in retrieved, NEW s \in retrieved, r[1] = s[1] PROVE r = s
    BY DEF ReadsAgree
  <2>1. IsFirst(rows, r) /\ IsFirst(rows, s) /\ rows \in Table
    BY Zenon DEF HostInv, StoreInv, StoreType
  <2>2. PICK k \in DOMAIN rows : rows[k] = r /\ \A l \in 1..(k - 1) : rows[l][1] # r[1]
    BY <2>1 DEF IsFirst
  <2>3. PICK j \in DOMAIN rows : rows[j] = s /\ \A l \in 1..(j - 1) : rows[l][1] # s[1]
    BY <2>1 DEF IsFirst
  <2>4. k \in Nat \ {0} /\ j \in Nat \ {0}
    BY <2>1 DEF Table
  <2>5. ~(k < j) /\ ~(j < k)
    BY <2>2, <2>3, <2>4
  <2> QED BY <2>2, <2>3, <2>4, <2>5
<1> QED BY <1>1, HostInvariant, PTL

LEMMA NodeInvariant == Spec => []NodeInv
<1>1. NodeInv /\ [Next]_vars => NodeInv'
  BY NumbersFounded, HostInvStep, JobTypeStep, EventsStep, AddressStep DEF NodeInv
<1> QED BY <1>1, NodeInvInit, PTL DEF Spec

\* The host knows the app whenever it takes up an event that a task of the queue
\* triggers, for any number of workers, events and restarts (app/mod.rs:80-92,
\* trigger_event.rs:21-27).
THEOREM TriggersReachAppHolds == Spec => []TriggersReachApp
<1>1. NodeInv => TriggersReachApp
  <2> SUFFICES ASSUME NodeInv, NEW w \in Workers, worker[w].id # CliId, NextMessage(w) PROVE app_actor_addr
    BY DEF TriggersReachApp
  <2>1. host_mailbox \in Seq(Messages) /\ host_mailbox # <<>> /\ Head(host_mailbox) = w
    BY DEF NodeInv, HostInv, MailInv, NextMessage
  <2>2. 1 \in DOMAIN host_mailbox /\ host_mailbox[1] = w
    BY <2>1, HeadTailProperties, EmptySeq
  <2>3. Known(1)
    BY <2>2 DEF NodeInv, AddressInv
  <2> QED BY <2>3 DEF Known
<1> QED BY <1>1, NodeInvariant, PTL

\* The event queue, the job manager and the workers implement the pool, for any
\* workers, calls, bounds and restarts: every event is started at most once, in
\* the order of arrival of its origin (job_manager.rs:31-39, event_queue.rs:14-25).
THEOREM EventsDoRunOnceInOrder == Spec => EventsRunOnceInOrder
<1>1. Init => QueueInv
  BY EmptySequence DEF Init, JobInit, FirstStates, ChannelsInit, QueueInv, Sending
<1>2. NodeInv => JobType
  BY DEF NodeInv
<1>3. JobType /\ QueueInv /\ [Next]_vars => [Pool!PoolNext]_(Pool!poolVars)
  BY NumbersFounded, PoolStep
<1>4. Init => Pool!PoolInit
  BY NumbersFounded, PoolStarted
<1> QED
  BY <1>1, <1>2, <1>3, <1>4, QueueStep, NodeInvariant, PTL DEF Spec, EventsRunOnceInOrder, Pool!PoolSpec

-----------------------------------------------------------------------------
\* The bounds, which count the calls that trigger an event: facts about finite
\* sets are brought in only here.
INSTANCE FiniteSetTheorems

LEMMA TriggeringFinite ==
    /\ IsFiniteSet(Triggering) /\ Cardinality(Triggering) \in Nat
    /\ IsFiniteSet(Triggering') /\ Cardinality(Triggering') \in Nat
<1>1. IsFiniteSet(Workers) /\ Triggering \in SUBSET Workers /\ Triggering' \in SUBSET Workers
  BY NodeAssumption DEF Triggering
<1>2. IsFiniteSet(Triggering) /\ IsFiniteSet(Triggering')
  BY <1>1, FS_Subset, Zenon
<1> QED BY <1>2, FS_CardinalityType, Zenon

LEMMA TriggeringSettles ==
    ASSUME \A v \in Workers : Settles(v)
    PROVE  Triggering' \subseteq Triggering /\ Cardinality(Triggering') <= Cardinality(Triggering)
<1>1. Triggering' \in SUBSET Triggering
  BY SettledTriggering, Zenon
<1>2. Cardinality(Triggering') <= Cardinality(Triggering)
  BY <1>1, TriggeringFinite, FS_Subset, Zenon
<1> QED BY <1>1, <1>2, Zenon

\* A task that asks triggers at most one event more.
LEMMA TriggeringAsked ==
    ASSUME NEW w \in Workers, \A v \in Workers \ {w} : Settles(v)
    PROVE  Cardinality(Triggering') <= Cardinality(Triggering) + 1
<1>1. Triggering' \subseteq Triggering \cup {w}
  BY AskedTriggering, Zenon
<1>2. IsFiniteSet(Triggering \cup {w}) /\ Cardinality(Triggering \cup {w}) <= Cardinality(Triggering) + 1
  <2>1. /\ IsFiniteSet(Triggering \cup {w})
        /\ Cardinality(Triggering \cup {w}) =
             IF w \in Triggering THEN Cardinality(Triggering) ELSE Cardinality(Triggering) + 1
    BY TriggeringFinite, FS_AddElement, Zenon
  <2> QED BY <2>1, TriggeringFinite
<1>3. Cardinality(Triggering') <= Cardinality(Triggering \cup {w})
  BY <1>1, <1>2, FS_Subset
<1>4. Cardinality(Triggering \cup {w}) \in Nat
  BY <1>2, FS_CardinalityType
<1> QED BY <1>2, <1>3, <1>4, TriggeringFinite

\* A call that has triggered its event is over.
LEMMA TriggeringDone ==
    ASSUME HostInv, NEW w \in Workers, TriggerEvent(w)
    PROVE  Cardinality(Triggering') + 1 <= Cardinality(Triggering)
<1>1. w \in Triggering
  BY DEF TriggerEvent, Triggering
<1>2. Triggering' \subseteq Triggering \ {w}
  BY NoCallWrites, Zenon DEF TriggerEvent, Return, Triggering, HostInv, StoreInv, StoreType
<1>3. IsFiniteSet(Triggering \ {w}) /\ Cardinality(Triggering \ {w}) = Cardinality(Triggering) - 1
  BY <1>1, TriggeringFinite, FS_RemoveElement
<1>4. Cardinality(Triggering') <= Cardinality(Triggering \ {w})
  <2>1. Triggering' \in SUBSET (Triggering \ {w})
    BY <1>2, Zenon
  <2> QED BY <1>3, <2>1, FS_Subset, Zenon
<1>5. Cardinality(Triggering) \in Nat /\ Cardinality(Triggering') \in Nat
  BY TriggeringFinite, Zenon
<1> QED BY <1>3, <1>4, <1>5

\* The calls that are to trigger an event are counted.
LEMMA TriggeringCounted ==
    ASSUME HostInv
    PROVE  Counts(Cardinality(Triggering), Cardinality(Triggering'))
<1>1. UNCHANGED call => Triggering' = Triggering
  BY DEF Triggering
<1> QED BY <1>1, TriggeringFinite, TriggeringSettles, TriggeringAsked, TriggeringDone DEF Counts

\* For any workers, keys, values, capacities and bounds, the state of a node is
\* well formed: the channels hold no more than their capacity (lib.rs:36), what
\* was acknowledged is what tasks have written (db_set.rs:21-34), and no more
\* events arrive than there were occasions for (batch_tick.rs:22-30).
THEOREM NodeTypeCorrect == Spec => []TypeOK
<1> DEFINE Inv == HostInv /\ JobType /\ QueueInv /\ WriteInv /\ SizeInv /\ TickInv /\ ArrivalInv
<1>1. Inv => TypeOK
  <2> SUFFICES ASSUME Inv PROVE TypeOK
    OBVIOUS
  <2>1. arrived \in 0..MaxSerial
    <3>1. /\ Cardinality(Triggering) \in Nat /\ Awaited \in {0, 1} /\ arrived \in Nat
          /\ calls \in 0..MaxCalls /\ restarts \in 0..MaxRestarts
      BY TriggeringFinite, AwaitedType DEF JobType, SizeInv
    <3> QED BY <3>1, HostAssumption, NodeAssumption
            DEF ArrivalInv, Balanced, Coming, Occasions, MaxSerial
  <2> QED BY <2>1, TypeFollows
<1>2. Init => QueueInv /\ WriteInv /\ SizeInv /\ TickInv /\ ArrivalInv
  BY BoundsInit, FS_EmptySet, EmptySequence DEF Init, JobInit, FirstStates, ChannelsInit, QueueInv, Sending
<1>3. Inv /\ [Next]_vars => QueueInv' /\ WriteInv' /\ SizeInv' /\ TickInv' /\ ArrivalInv'
  <2>1. Inv /\ [Next]_vars => TickInv' /\ ArrivalInv'
    BY TriggeringCounted, ArrivalStep, Zenon DEF ArrivalInv, Coming
  <2> QED BY <2>1, QueueStep, WriteStep, SizeStep
<1>4. NodeInv => HostInv /\ JobType
  BY DEF NodeInv
<1> QED BY <1>1, <1>2, <1>3, <1>4, NodeInvariant, PTL DEF Spec
=============================================================================
