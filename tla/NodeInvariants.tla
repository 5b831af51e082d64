--------------------------- MODULE NodeInvariants ---------------------------
(***************************************************************************)
(* What every step of a running node preserves, for all values of its      *)
(* constants: the table of its database against what tasks were told about *)
(* it, the types of jobs and channels, the ids of events, and where the    *)
(* address of the app is.  NodeProofs draws the theorems from it.          *)
(***************************************************************************)
EXTENDS Node, TLAPS

-----------------------------------------------------------------------------
\* A non-empty set of natural numbers has a least element.  NodeProofs shows it
\* where it brings in the library, with the theorems; until then it is a
\* hypothesis of what rests on it.
LeastElements == \A S \in SUBSET Nat : S # {} => \E k \in S : \A l \in S : k <= l

LEMMA LeastExists ==
    ASSUME LeastElements, NEW S \in SUBSET Nat, S # {}
    PROVE  \E k \in S : \A l \in S : k <= l
BY DEF LeastElements

-----------------------------------------------------------------------------
\* Sequences.
LEMMA EmptySeq ==
    ASSUME NEW S
    PROVE  /\ <<>> \in Seq(S) /\ Len(<<>>) = 0
           /\ \A s \in Seq(S) : s # <<>> => Len(s) \in Nat \ {0}
OBVIOUS

LEMMA AppendProperties ==
    ASSUME NEW S, NEW s \in Seq(S), NEW x \in S
    PROVE  /\ Append(s, x) \in Seq(S) /\ Append(s, x) # <<>>
           /\ Len(Append(s, x)) = Len(s) + 1
           /\ \A k \in 1..Len(s) : Append(s, x)[k] = s[k]
           /\ Append(s, x)[Len(s) + 1] = x
OBVIOUS

LEMMA HeadTailProperties ==
    ASSUME NEW S, NEW s \in Seq(S), s # <<>>
    PROVE  /\ Head(s) \in S /\ Tail(s) \in Seq(S) /\ Len(Tail(s)) = Len(s) - 1
           /\ \A k \in 1..Len(Tail(s)) : Tail(s)[k] = s[k + 1]
OBVIOUS

LEMMA ConcatProperties ==
    ASSUME NEW S, NEW s \in Seq(S), NEW t \in Seq(S)
    PROVE  /\ s \o t \in Seq(S) /\ Len(s \o t) = Len(s) + Len(t)
           /\ \A k \in 1..(Len(s) + Len(t)) :
                (s \o t)[k] = IF k <= Len(s) THEN s[k] ELSE t[k - Len(s)]
OBVIOUS

LEMMA Same ==
    ASSUME NEW S, NEW s \in Seq(S), NEW t \in Seq(S), Len(s) = Len(t),
           \A k \in 1..Len(s) : s[k] = t[k]
    PROVE  s = t
OBVIOUS

LEMMA ConcatEmptySeq ==
    ASSUME NEW S, NEW s \in Seq(S)
    PROVE  s \o <<>> = s /\ <<>> \o s = s
BY ConcatProperties, EmptySeq, Same

LEMMA ConcatAssociative ==
    ASSUME NEW S, NEW s \in Seq(S), NEW t \in Seq(S), NEW u \in Seq(S)
    PROVE  (s \o t) \o u = s \o (t \o u)
<1>1. /\ s \o t \in Seq(S) /\ t \o u \in Seq(S) /\ (s \o t) \o u \in Seq(S) /\ s \o (t \o u) \in Seq(S)
  BY ConcatProperties
<1>2. Len((s \o t) \o u) = Len(s \o (t \o u))
  BY <1>1, ConcatProperties
<1>3. ASSUME NEW k \in 1..Len((s \o t) \o u) PROVE ((s \o t) \o u)[k] = (s \o (t \o u))[k]
  BY <1>1, <1>2, ConcatProperties
<1> QED BY <1>1, <1>2, <1>3, Same

LEMMA AppendIsConcat ==
    ASSUME NEW S, NEW s \in Seq(S), NEW x \in S
    PROVE  Append(s, x) = s \o <<x>>
OBVIOUS

LEMMA TailIsSubSeq ==
    ASSUME NEW S, NEW s \in Seq(S), s # <<>>
    PROVE  Tail(s) = SubSeq(s, 2, Len(s))
OBVIOUS

LEMMA SubSeqEmpty ==
    ASSUME NEW s, NEW m \in Int, NEW n \in Int, n < m
    PROVE  SubSeq(s, m, n) = <<>>
OBVIOUS

LEMMA SubSeqType ==
    ASSUME NEW S, NEW s \in Seq(S), NEW m \in 1..(Len(s) + 1), NEW n \in 0..Len(s)
    PROVE  SubSeq(s, m, n) \in Seq(S)
OBVIOUS
-----------------------------------------------------------------------------
\* The table.
Value == Values \cup OldValues
Table == Seq(Keys \X Value)

\* A row is the first of its key.
IsFirst(table, row) ==
    \E k \in DOMAIN table : table[k] = row /\ \A l \in 1..(k - 1) : table[l][1] # row[1]
IsIn(table, row) == \E k \in DOMAIN table : table[k] = row

\* A row that is added takes nothing from the rows before it.
LEMMA AddedRow ==
    ASSUME NEW table \in Table, NEW new \in Keys \X Value
    PROVE  /\ Append(table, new) \in Table
           /\ IsIn(Append(table, new), new)
           /\ \A row : IsFirst(table, row) => IsFirst(Append(table, new), row)
           /\ \A row : IsIn(table, row) => IsIn(Append(table, new), row)
<1> DEFINE longer == Append(table, new)
<1>1. /\ longer \in Table
      /\ Len(longer) = Len(table) + 1
      /\ \A k \in 1..Len(table) : longer[k] = table[k]
      /\ longer[Len(table) + 1] = new
      /\ DOMAIN table = 1..Len(table) /\ Len(table) \in Nat
      /\ DOMAIN longer = 1..(Len(table) + 1)
  BY AppendProperties DEF Table
<1> HIDE DEF longer
<1>2. IsIn(longer, new)
  BY <1>1 DEF IsIn
<1>3. ASSUME NEW row, IsIn(table, row) PROVE IsIn(longer, row)
  BY <1>1, <1>3 DEF IsIn
<1>4. ASSUME NEW row, IsFirst(table, row) PROVE IsFirst(longer, row)
  <2>1. PICK k \in DOMAIN table : table[k] = row /\ \A l \in 1..(k - 1) : table[l][1] # row[1]
    BY <1>4 DEF IsFirst
  <2>2. k \in DOMAIN longer /\ longer[k] = row
    BY <1>1, <2>1
  <2>3. \A l \in 1..(k - 1) : longer[l] = table[l]
    BY <1>1, <2>1
  <2> QED BY <2>1, <2>2, <2>3 DEF IsFirst
<1> QED BY <1>1, <1>2, <1>3, <1>4 DEF longer

\* What query_row yields is the first row of the key.
LEMMA QueriedRow ==
    ASSUME LeastElements, rows \in Table, NEW key \in Keys, RowsOf(key) # {}
    PROVE  IsFirst(rows, <<key, query_row(key)>>)
<1>1. RowsOf(key) \in SUBSET Nat
  BY DEF RowsOf, Table
<1> DEFINE first == CHOOSE k \in RowsOf(key) : \A l \in RowsOf(key) : k <= l
<1>2. first \in RowsOf(key) /\ \A l \in RowsOf(key) : first <= l
  <2>1. \E k \in RowsOf(key) : \A l \in RowsOf(key) : k <= l
    BY <1>1, LeastExists, Zenon
  <2> QED BY <2>1, Zenon
<1>3. query_row(key) = rows[first][2]
  BY DEF query_row
<1> HIDE DEF first
<1>4. first \in DOMAIN rows /\ first \in Nat /\ rows[first] \in Keys \X Value /\ rows[first][1] = key
  BY <1>1, <1>2 DEF RowsOf, Table
<1>5. rows[first] = <<key, query_row(key)>>
  BY <1>3, <1>4
<1>6. ASSUME NEW l \in 1..(first - 1) PROVE rows[l][1] # key
  <2>1. l \in DOMAIN rows /\ ~(first <= l)
    BY <1>4 DEF Table
  <2> QED BY <2>1, <1>2 DEF RowsOf
<1> QED BY <1>4, <1>5, <1>6 DEF IsFirst
-----------------------------------------------------------------------------
\* The inductive invariant of the store.
CallType == [op : DatabaseOps \cup {"none", "remote", "trigger_event", "p2p_broadcast"},
             key : Keys \cup {None}, value : Value \cup {None},
             stage : {"none", "sent", "db", "remote", "done", "failed"}]
Closures == Seq([from : SUBSET Workers, op : DatabaseOps,
                 key : Keys \cup {None}, value : Value \cup {None}])

\* A call to the database names its key, and a write its value.
CallComplete(c) ==
    /\ c.op \in DatabaseOps => c.key \in Keys
    /\ (c.op = "db_set" /\ c.stage # "failed") => c.value \in Value
ClosureComplete(c) == c.key \in Keys /\ (c.op = "db_set" => c.value \in Value)

\* A closure is owed to a worker that waits for just this one.
Owed(c) == \A w \in c.from : call[w].stage = "db" /\ call[w].op = c.op /\ call[w].key = c.key

\* An outcome that is on its way tells the truth.
OutcomeTrue(c) ==
    c.stage = "done" =>
        /\ c.op = "db_get" => IsFirst(rows, <<c.key, c.value>>)
        /\ c.op = "db_set" => IsIn(rows, <<c.key, c.value>>)

StoreType ==
    /\ rows \in Table
    /\ call \in [Workers -> CallType]
    /\ db_calls \in Closures

StoreInv ==
    /\ StoreType
    /\ \A w \in Workers : CallComplete(call[w]) /\ OutcomeTrue(call[w])
    /\ \A k \in DOMAIN db_calls : ClosureComplete(db_calls[k]) /\ Owed(db_calls[k])
    /\ \A k, l \in DOMAIN db_calls : k # l => db_calls[k].from \cap db_calls[l].from = {}
    /\ ~host_alive => \A k \in DOMAIN db_calls : db_calls[k].from = {}
    /\ \A row \in retrieved : IsFirst(rows, row)
    /\ \A row \in acknowledged : IsIn(rows, row)

\* The messages of the host: a worker is there at most once, while it waits for
\* its call to be taken up, and nothing is there when the actor is gone.
Messages == Workers \cup {"SetAppAddress", "BatchTickManager"}
Sent(w) == call[w].stage = "sent" /\ call[w].op \notin {"none", "p2p_broadcast"}
MailInv ==
    /\ host_mailbox \in Seq(Messages)
    /\ ~host_alive => host_mailbox = <<>>
    /\ \A k \in DOMAIN host_mailbox : host_mailbox[k] \in Workers => Sent(host_mailbox[k])
    /\ \A k, l \in DOMAIN host_mailbox :
        (k # l /\ host_mailbox[k] \in Workers) => host_mailbox[k] # host_mailbox[l]

LEMMA EmptySequence ==
    ASSUME NEW S
    PROVE  <<>> \in Seq(S) /\ DOMAIN <<>> = {}
OBVIOUS

LEMMA NoCallComplete ==
    NoCall \in CallType /\ CallComplete(NoCall) /\ OutcomeTrue(NoCall) /\ NoCall.stage = "none"
BY DEF NoCall, CallType, CallComplete, OutcomeTrue, DatabaseOps

LEMMA HostInvInit == Init => StoreInv /\ MailInv
<1> SUFFICES ASSUME Init PROVE StoreInv /\ MailInv
  OBVIOUS
<1>1. rows \in Table
  <2>1. rows = <<>> \/ \E row \in Keys \X OldValues : rows = <<row>>
    BY DEF Init, HostInit
  <2>2. ASSUME NEW row \in Keys \X OldValues PROVE <<row>> \in Seq(Keys \X Value)
    BY DEF Value
  <2> QED BY <2>1, <2>2, EmptySequence, Zenon DEF Table
<1>2. call = [w \in Workers |-> NoCall] /\ db_calls = <<>> /\ host_mailbox = <<>>
      /\ retrieved = {} /\ acknowledged = {}
  BY DEF Init, HostInit
<1>3. call \in [Workers -> CallType] /\ \A w \in Workers : CallComplete(call[w]) /\ OutcomeTrue(call[w])
  BY <1>2, NoCallComplete
<1>4. db_calls \in Closures /\ DOMAIN db_calls = {}
  BY <1>2, EmptySequence DEF Closures
<1>5. MailInv
  BY <1>2, EmptySequence DEF MailInv
<1> QED BY <1>1, <1>2, <1>3, <1>4, <1>5 DEF StoreInv, StoreType

-----------------------------------------------------------------------------
\* What a step of the host does to the mailbox.
LEMMA MailKept ==
    ASSUME MailInv, host_mailbox' = host_mailbox, host_alive' = host_alive,
           \A v \in Workers : Sent(v) => call'[v] = call[v]
    PROVE  MailInv'
BY DEF MailInv, Sent

LEMMA MailTaken ==
    ASSUME MailInv, host_mailbox # <<>>, host_mailbox' = Tail(host_mailbox), host_alive' = host_alive,
           \A v \in Workers : v # Head(host_mailbox) => call'[v] = call[v]
    PROVE  MailInv'
<1>1. host_mailbox \in Seq(Messages)
  BY DEF MailInv
<1>2. /\ host_mailbox' \in Seq(Messages)
      /\ DOMAIN host_mailbox' = 1..(Len(host_mailbox) - 1)
      /\ DOMAIN host_mailbox = 1..Len(host_mailbox) /\ Len(host_mailbox) \in Nat \ {0}
      /\ \A k \in 1..(Len(host_mailbox) - 1) : host_mailbox'[k] = host_mailbox[k + 1]
      /\ Head(host_mailbox) = host_mailbox[1]
  BY <1>1, HeadTailProperties, EmptySeq
<1>3. ASSUME NEW k \in DOMAIN host_mailbox', host_mailbox'[k] \in Workers
      PROVE  Sent(host_mailbox[k])'
  <2>1. k + 1 \in DOMAIN host_mailbox /\ 1 \in DOMAIN host_mailbox /\ k + 1 # 1
    BY <1>2
  <2>2. Sent(host_mailbox[k + 1]) /\ host_mailbox[k + 1] # Head(host_mailbox)
    BY <1>2, <1>3, <2>1 DEF MailInv
  <2> QED BY <1>2, <1>3, <2>2 DEF Sent
<1>4. ASSUME NEW k \in DOMAIN host_mailbox', NEW l \in DOMAIN host_mailbox', k # l,
             host_mailbox'[k] \in Workers
      PROVE  host_mailbox'[k] # host_mailbox'[l]
  <2>1. k + 1 \in DOMAIN host_mailbox /\ l + 1 \in DOMAIN host_mailbox /\ k + 1 # l + 1
    BY <1>2, <1>4
  <2> QED BY <1>2, <1>4, <2>1 DEF MailInv
<1>5. ~host_alive' => host_mailbox' = <<>>
  BY <1>2 DEF MailInv
<1> QED BY <1>2, <1>3, <1>4, <1>5 DEF MailInv

LEMMA MailAdded ==
    ASSUME MailInv, host_alive, NEW message \in Messages,
           host_mailbox' = Append(host_mailbox, message), host_alive' = host_alive,
           message \in Workers => ~Sent(message) /\ Sent(message)',
           \A v \in Workers : v # message => call'[v] = call[v]
    PROVE  MailInv'
<1>1. /\ host_mailbox' \in Seq(Messages)
      /\ DOMAIN host_mailbox' = 1..(Len(host_mailbox) + 1)
      /\ DOMAIN host_mailbox = 1..Len(host_mailbox) /\ Len(host_mailbox) \in Nat
      /\ \A k \in 1..Len(host_mailbox) : host_mailbox'[k] = host_mailbox[k]
      /\ host_mailbox'[Len(host_mailbox) + 1] = message
  BY AppendProperties DEF MailInv
<1>2. ASSUME NEW k \in DOMAIN host_mailbox, host_mailbox[k] \in Workers
      PROVE  host_mailbox[k] # message /\ Sent(host_mailbox[k]) /\ call'[host_mailbox[k]] = call[host_mailbox[k]]
  <2>1. Sent(host_mailbox[k])
    BY <1>2 DEF MailInv
  <2>2. host_mailbox[k] # message
    BY <1>2, <2>1
  <2> QED BY <1>2, <2>1, <2>2
<1>3. ASSUME NEW k \in DOMAIN host_mailbox', host_mailbox'[k] \in Workers
      PROVE  Sent(host_mailbox[k])'
  <2>1. CASE k = Len(host_mailbox) + 1
    BY <1>1, <1>3, <2>1 DEF Sent
  <2>2. CASE k \in DOMAIN host_mailbox
    <3>1. host_mailbox'[k] = host_mailbox[k]
      BY <1>1, <2>2
    <3>2. Sent(host_mailbox[k]) /\ call'[host_mailbox[k]] = call[host_mailbox[k]]
      BY <1>2, <1>3, <2>2, <3>1
    <3> QED BY <3>1, <3>2 DEF Sent
  <2> QED BY <1>1, <2>1, <2>2
<1>4. ASSUME NEW k \in DOMAIN host_mailbox', NEW l \in DOMAIN host_mailbox', k # l,
             host_mailbox'[k] \in Workers
      PROVE  host_mailbox'[k] # host_mailbox'[l]
  <2>1. CASE k \in DOMAIN host_mailbox /\ l \in DOMAIN host_mailbox
    BY <1>1, <1>4, <2>1 DEF MailInv
  <2>2. CASE k = Len(host_mailbox) + 1 /\ l \in DOMAIN host_mailbox
    BY <1>1, <1>2, <1>4, <2>2
  <2>3. CASE k \in DOMAIN host_mailbox /\ l = Len(host_mailbox) + 1
    BY <1>1, <1>2, <1>4, <2>3
  <2> QED BY <1>1, <1>4, <2>1, <2>2, <2>3
<1> QED BY <1>1, <1>3, <1>4 DEF MailInv

-----------------------------------------------------------------------------
LEMMA Element ==
    ASSUME NEW S, NEW s \in Seq(S), NEW k \in DOMAIN s
    PROVE  s[k] \in S
OBVIOUS

\* What a list of closures holds.
LEMMA ClosureType ==
    ASSUME NEW closures \in Closures, NEW k \in DOMAIN closures
    PROVE  /\ closures[k].from \subseteq Workers
           /\ closures[k].op \in DatabaseOps
           /\ closures[k].value \in Value \cup {None}
<1>1. closures[k] \in [from : SUBSET Workers, op : DatabaseOps,
                       key : Keys \cup {None}, value : Value \cup {None}]
  BY Element, Zenon DEF Closures
<1> QED BY <1>1

\* A step that leaves the database alone: who is owed an outcome keeps its call,
\* and no outcome is made up.
LEMMA StoreKept ==
    ASSUME StoreInv, rows' = rows, db_calls' = db_calls, host_alive' = host_alive,
           call' \in [Workers -> CallType],
           \A w \in Workers :
                \/ call'[w] = call[w]
                \/ /\ \A k \in DOMAIN db_calls : w \notin db_calls[k].from
                   /\ CallComplete(call'[w]) /\ call'[w].stage # "done",
           \A row \in retrieved' : IsFirst(rows, row),
           \A row \in acknowledged' : IsIn(rows, row)
    PROVE  StoreInv'
<1>1. StoreType'
  BY DEF StoreInv, StoreType
<1>2. ASSUME NEW w \in Workers PROVE (CallComplete(call[w]) /\ OutcomeTrue(call[w]))'
  <2>1. CASE call'[w] = call[w]
    BY <2>1 DEF StoreInv, CallComplete, OutcomeTrue
  <2>2. CASE CallComplete(call'[w]) /\ call'[w].stage # "done"
    BY <2>2 DEF CallComplete, OutcomeTrue
  <2> QED BY <2>1, <2>2
<1>3. ASSUME NEW k \in DOMAIN db_calls PROVE (ClosureComplete(db_calls[k]) /\ Owed(db_calls[k]))'
  <2>1. ClosureComplete(db_calls[k]) /\ Owed(db_calls[k]) /\ db_calls[k].from \subseteq Workers
    BY ClosureType DEF StoreInv, StoreType
  <2>2. \A w \in db_calls[k].from : call'[w] = call[w]
    BY <2>1
  <2>3. db_calls'[k] = db_calls[k]
    OBVIOUS
  <2> QED BY <2>1, <2>2, <2>3 DEF ClosureComplete, Owed
<1> QED BY <1>1, <1>2, <1>3 DEF StoreInv

\* A worker that waits for nothing from the database is owed nothing by it.
LEMMA NotOwed ==
    ASSUME StoreInv, NEW w \in Workers,
           call[w].stage # "db" \/ call[w].op \notin DatabaseOps \/ ~host_alive
    PROVE  \A k \in DOMAIN db_calls : w \notin db_calls[k].from
<1>1. \A k \in DOMAIN db_calls : Owed(db_calls[k]) /\ db_calls[k].op \in DatabaseOps
  BY ClosureType DEF StoreInv, StoreType
<1> QED BY <1>1 DEF StoreInv, Owed

\* A worker whose call ends, in whatever way.
LEMMA StoreReturned ==
    ASSUME StoreInv, NEW w \in Workers, Return(w), rows' = rows, db_calls' = db_calls,
           host_alive' = host_alive,
           call[w].stage # "db" \/ call[w].op \notin DatabaseOps \/ ~host_alive,
           \A row \in retrieved' : IsFirst(rows, row),
           \A row \in acknowledged' : IsIn(rows, row)
    PROVE  StoreInv'
<1>1. call \in [Workers -> CallType]
  BY DEF StoreInv, StoreType
<1>2. call' \in [Workers -> CallType]
  BY <1>1, NoCallComplete DEF Return
<1>3. \A v \in Workers : call'[v] = IF v = w THEN NoCall ELSE call[v]
  BY <1>1 DEF Return
<1>4. \A v \in Workers :
            \/ call'[v] = call[v]
            \/ /\ \A k \in DOMAIN db_calls : v \notin db_calls[k].from
               /\ CallComplete(call'[v]) /\ call'[v].stage # "done"
  BY <1>3, NoCallComplete, NotOwed
<1> QED BY <1>2, <1>4, StoreKept

\* The host hands a closure to the database for a worker that was owed none.
LEMMA StoreHanded ==
    ASSUME StoreInv, host_alive, NEW w \in Workers, Sent(w), HandleDatabase(w)
    PROVE  StoreInv'
<1> DEFINE new == [from |-> {w}, op |-> call[w].op, key |-> call[w].key, value |-> call[w].value]
<1>1. call \in [Workers -> CallType] /\ db_calls \in Closures /\ call[w] \in CallType
  BY DEF StoreInv, StoreType
<1>2. /\ call' = [call EXCEPT ![w].stage = "db"] /\ call[w].op \in DatabaseOps
      /\ db_calls' = Append(db_calls, new)
      /\ host_alive' = host_alive
      /\ UNCHANGED <<rows, retrieved, acknowledged>>
  BY DEF HandleDatabase, Handles, historyVars
<1>3. call' \in [Workers -> CallType]
  BY <1>1, <1>2 DEF CallType
<1>4. \A v \in Workers : v # w => call'[v] = call[v]
  BY <1>1, <1>2
<1>5. call'[w].stage = "db" /\ call'[w].op = call[w].op /\ call'[w].key = call[w].key
      /\ call'[w].value = call[w].value
  BY <1>1, <1>2 DEF CallType
<1>6. CallComplete(call[w]) /\ call[w].stage = "sent"
  BY DEF StoreInv, Sent
<1>7. new \in [from : SUBSET Workers, op : DatabaseOps,
               key : Keys \cup {None}, value : Value \cup {None}]
  BY <1>1, <1>2 DEF CallType
<1>8. /\ new.from = {w} /\ new.op = call[w].op /\ new.key = call[w].key /\ new.value = call[w].value
  OBVIOUS
<1> HIDE DEF new
<1>9. /\ db_calls' \in Closures
      /\ DOMAIN db_calls = 1..Len(db_calls) /\ Len(db_calls) \in Nat
      /\ DOMAIN db_calls' = 1..(Len(db_calls) + 1)
      /\ \A k \in 1..Len(db_calls) : db_calls'[k] = db_calls[k]
      /\ db_calls'[Len(db_calls) + 1] = new
  BY <1>1, <1>2, <1>7, AppendProperties DEF Closures
<1>10. ASSUME NEW v \in Workers PROVE (CallComplete(call[v]) /\ OutcomeTrue(call[v]))'
  <2>1. CASE v # w
    BY <2>1, <1>2, <1>4 DEF StoreInv, CallComplete, OutcomeTrue
  <2>2. CASE v = w
    BY <2>2, <1>5, <1>6 DEF CallComplete, OutcomeTrue
  <2> QED BY <2>1, <2>2
<1>11. \A k \in DOMAIN db_calls : w \notin db_calls[k].from /\ db_calls[k].from \subseteq Workers
  BY <1>1, <1>6, NotOwed, ClosureType
<1>12. ASSUME NEW k \in DOMAIN db_calls' PROVE (ClosureComplete(db_calls[k]) /\ Owed(db_calls[k]))'
  <2>1. CASE k = Len(db_calls) + 1
    BY <2>1, <1>2, <1>5, <1>6, <1>8, <1>9 DEF ClosureComplete, Owed, CallComplete
  <2>2. CASE k \in DOMAIN db_calls
    <3>1. ClosureComplete(db_calls[k]) /\ Owed(db_calls[k]) /\ db_calls'[k] = db_calls[k]
      BY <2>2, <1>9 DEF StoreInv
    <3>2. \A v \in db_calls[k].from : call'[v] = call[v]
      BY <2>2, <1>4, <1>11
    <3> QED BY <3>1, <3>2 DEF ClosureComplete, Owed
  <2> QED BY <1>9, <2>1, <2>2
<1>13. ASSUME NEW k \in DOMAIN db_calls', NEW l \in DOMAIN db_calls', k # l
       PROVE  db_calls'[k].from \cap db_calls'[l].from = {}
  <2>1. CASE k \in DOMAIN db_calls /\ l \in DOMAIN db_calls
    BY <2>1, <1>9, <1>13 DEF StoreInv
  <2>2. CASE k = Len(db_calls) + 1 /\ l \in DOMAIN db_calls
    BY <2>2, <1>8, <1>9, <1>11
  <2>3. CASE k \in DOMAIN db_calls /\ l = Len(db_calls) + 1
    BY <2>3, <1>8, <1>9, <1>11
  <2> QED BY <1>9, <1>13, <2>1, <2>2, <2>3
<1>14. StoreType'
  BY <1>2, <1>3, <1>9 DEF StoreInv, StoreType
<1>15. (\A row \in retrieved : IsFirst(rows, row))' /\ (\A row \in acknowledged : IsIn(rows, row))'
  BY <1>2 DEF StoreInv
<1> QED BY <1>2, <1>10, <1>12, <1>13, <1>14, <1>15 DEF StoreInv

LEMMA WithOutcome ==
    ASSUME NEW c \in CallType, NEW stage \in {"done", "failed"}, NEW value \in Value \cup {None}
    PROVE  /\ With(c, stage, value) \in CallType
           /\ With(c, stage, value).op = c.op /\ With(c, stage, value).key = c.key
           /\ With(c, stage, value).stage = stage /\ With(c, stage, value).value = value
BY Zenon DEF With, CallType

\* A closure has run, and its outcome is true of the table after it.
LEMMA StoreExecuted ==
    ASSUME StoreInv, db_calls # <<>>, db_calls' = Tail(db_calls), host_alive' = host_alive,
           UNCHANGED <<retrieved, acknowledged>>,
           rows' \in Table,
           \A row : IsFirst(rows, row) => IsFirst(rows', row),
           \A row : IsIn(rows, row) => IsIn(rows', row),
           NEW stage \in {"done", "failed"}, NEW value \in Value \cup {None},
           Outcome(Head(db_calls).from, stage, value),
           stage = "done" =>
                /\ Head(db_calls).op = "db_get" => IsFirst(rows', <<Head(db_calls).key, value>>)
                /\ Head(db_calls).op = "db_set" =>
                        value \in Value /\ IsIn(rows', <<Head(db_calls).key, value>>)
    PROVE  StoreInv'
<1>1. call \in [Workers -> CallType] /\ db_calls \in Closures
  BY DEF StoreInv, StoreType
<1>2. /\ db_calls' \in Closures
      /\ DOMAIN db_calls = 1..Len(db_calls) /\ Len(db_calls) \in Nat \ {0}
      /\ DOMAIN db_calls' = 1..(Len(db_calls) - 1)
      /\ \A k \in 1..(Len(db_calls) - 1) : db_calls'[k] = db_calls[k + 1]
      /\ Head(db_calls) = db_calls[1]
  BY <1>1, HeadTailProperties, EmptySeq DEF Closures
<1> DEFINE next == db_calls[1]
<1>3. 1 \in DOMAIN db_calls /\ Owed(next) /\ ClosureComplete(next)
  BY <1>2 DEF StoreInv
<1>4. \A w \in Workers :
        call'[w] = IF w \in next.from THEN With(call[w], stage, value) ELSE call[w]
  BY <1>2 DEF Outcome
<1>5. ASSUME NEW w \in Workers
      PROVE  /\ With(call[w], stage, value) \in CallType
             /\ With(call[w], stage, value).op = call[w].op
             /\ With(call[w], stage, value).key = call[w].key
             /\ With(call[w], stage, value).stage = stage
             /\ With(call[w], stage, value).value = value
  <2>1. call[w] \in CallType
    BY <1>1
  <2> QED BY <2>1, WithOutcome
<1>6. call' \in [Workers -> CallType]
  <2>1. DOMAIN call' = Workers /\ call' = [w \in Workers |-> call'[w]]
    BY DEF Outcome
  <2>2. \A w \in Workers : call'[w] \in CallType
    BY <1>1, <1>4, <1>5
  <2> QED BY <2>1, <2>2
<1>7. ASSUME NEW w \in Workers PROVE (CallComplete(call[w]) /\ OutcomeTrue(call[w]))'
  <2>1. CASE w \notin next.from
    <3>1. call'[w] = call[w]
      BY <1>4, <2>1
    <3>2. CallComplete(call[w]) /\ OutcomeTrue(call[w])
      BY DEF StoreInv
    <3> QED BY <3>1, <3>2 DEF CallComplete, OutcomeTrue
  <2>2. CASE w \in next.from
    <3>1. call'[w].op = next.op /\ call'[w].key = next.key /\ call'[w].stage = stage /\ call'[w].value = value
      BY <1>3, <1>4, <1>5, <2>2 DEF Owed
    <3>2. next.key \in Keys /\ Head(db_calls) = next
      BY <1>2, <1>3 DEF ClosureComplete
    <3> HIDE DEF next
    <3> QED BY <3>1, <3>2, Zenon DEF CallComplete, OutcomeTrue
  <2> QED BY <2>1, <2>2
<1>8. ASSUME NEW k \in DOMAIN db_calls' PROVE (ClosureComplete(db_calls[k]) /\ Owed(db_calls[k]))'
  <2>1. k + 1 \in DOMAIN db_calls /\ k + 1 # 1 /\ db_calls'[k] = db_calls[k + 1]
    BY <1>2
  <2>2. ClosureComplete(db_calls[k + 1]) /\ Owed(db_calls[k + 1])
        /\ db_calls[k + 1].from \cap next.from = {} /\ db_calls[k + 1].from \subseteq Workers
    BY <1>1, <1>3, <2>1, ClosureType DEF StoreInv
  <2>3. \A w \in db_calls[k + 1].from : call'[w] = call[w]
    BY <1>4, <2>2, Zenon
  <2> QED BY <2>1, <2>2, <2>3 DEF ClosureComplete, Owed
<1>9. ASSUME NEW k \in DOMAIN db_calls', NEW l \in DOMAIN db_calls', k # l
      PROVE  db_calls'[k].from \cap db_calls'[l].from = {}
  <2>1. k + 1 \in DOMAIN db_calls /\ l + 1 \in DOMAIN db_calls /\ k + 1 # l + 1
    BY <1>2, <1>9
  <2> QED BY <1>2, <2>1 DEF StoreInv
<1>10. ~host_alive' => \A k \in DOMAIN db_calls' : db_calls'[k].from = {}
  <2>1. \A k \in DOMAIN db_calls' : k + 1 \in DOMAIN db_calls /\ db_calls'[k] = db_calls[k + 1]
    BY <1>2
  <2> QED BY <2>1 DEF StoreInv
<1>11. StoreType'
  BY <1>2, <1>6 DEF StoreType
<1>12. (\A row \in retrieved : IsFirst(rows, row))' /\ (\A row \in acknowledged : IsIn(rows, row))'
  BY DEF StoreInv
<1> QED BY <1>7, <1>8, <1>9, <1>10, <1>11, <1>12, Zenon DEF StoreInv

\* The thread of the database leaves alone the worker that waits for the host.
LEMMA ExecutedOther ==
    ASSUME StoreInv, ExecuteDatabase, NEW v \in Workers, Sent(v)
    PROVE  call'[v] = call[v]
<1>1. db_calls # <<>> /\ db_calls \in Closures
  BY DEF ExecuteDatabase, StoreInv, StoreType
<1>2. 1 \in DOMAIN db_calls /\ Head(db_calls) = db_calls[1]
  BY <1>1, HeadTailProperties, EmptySeq DEF Closures
<1>3. v \notin Head(db_calls).from
  BY <1>2, NotOwed DEF Sent
<1>4. \E stage, value : Outcome(Head(db_calls).from, stage, value)
  BY DEF ExecuteDatabase
<1> QED BY <1>3, <1>4 DEF Outcome

LEMMA StoreExecutes ==
    ASSUME LeastElements, StoreInv, ExecuteDatabase
    PROVE  StoreInv'
<1> DEFINE next == Head(db_calls)
<1>1. /\ db_calls # <<>> /\ db_calls' = Tail(db_calls) /\ host_alive' = host_alive
      /\ UNCHANGED <<retrieved, acknowledged>>
  BY DEF ExecuteDatabase, actorVars, historyVars
<1>2. rows \in Table /\ db_calls \in Closures
  BY DEF StoreInv, StoreType
<1>3. 1 \in DOMAIN db_calls /\ next = db_calls[1]
  BY <1>1, <1>2, HeadTailProperties, EmptySeq DEF Closures
<1>4. ClosureComplete(next) /\ next.value \in Value \cup {None} /\ next.op \in DatabaseOps
  BY <1>2, <1>3, ClosureType DEF StoreInv
<1>5. CASE next.op = "db_set" /\ execute_insert(next.key, next.value) /\ Outcome(next.from, "done", next.value)
  <2>1. <<next.key, next.value>> \in Keys \X Value /\ next.value \in Value
    BY <1>4, <1>5 DEF ClosureComplete
  <2>2. rows' = Append(rows, <<next.key, next.value>>)
    BY <1>5 DEF execute_insert
  <2>3. /\ rows' \in Table /\ IsIn(rows', <<next.key, next.value>>)
        /\ \A row : IsFirst(rows, row) => IsFirst(rows', row)
        /\ \A row : IsIn(rows, row) => IsIn(rows', row)
    BY <1>2, <2>1, <2>2, AddedRow
  <2> QED BY <1>1, <1>5, <2>1, <2>3, StoreExecuted
<1>6. CASE /\ next.op = "db_get" /\ RowsOf(next.key) # {}
           /\ Outcome(next.from, "done", query_row(next.key)) /\ UNCHANGED rows
  <2>1. next.key \in Keys
    BY <1>4 DEF ClosureComplete
  <2>2. IsFirst(rows, <<next.key, query_row(next.key)>>)
    BY <1>2, <1>6, <2>1, QueriedRow
  <2>3. query_row(next.key) \in Value
    <3>1. PICK k \in DOMAIN rows : rows[k] = <<next.key, query_row(next.key)>>
      BY <2>2 DEF IsFirst
    <3>2. rows[k] \in Keys \X Value
      BY <1>2, Element, Zenon DEF Table
    <3> QED BY <3>1, <3>2
  <2> QED BY <1>1, <1>2, <1>6, <2>2, <2>3, StoreExecuted
<1>7. CASE Outcome(next.from, "failed", None) /\ UNCHANGED rows
  BY <1>1, <1>2, <1>7, StoreExecuted
<1> QED BY <1>5, <1>6, <1>7 DEF ExecuteDatabase

-----------------------------------------------------------------------------
\* Every operation of the host keeps both invariants.
HostInv == StoreInv /\ MailInv

LEMMA HostUnchanged ==
    ASSUME HostInv, UNCHANGED <<call, host_alive, host_mailbox, db_calls, rows, retrieved, acknowledged>>
    PROVE  HostInv'
<1>1. call \in [Workers -> CallType] /\ (\A row \in retrieved : IsFirst(rows, row))
      /\ (\A row \in acknowledged : IsIn(rows, row))
  BY Zenon DEF HostInv, StoreInv, StoreType
<1>2. StoreInv'
  BY <1>1, StoreKept DEF HostInv
<1>3. MailInv'
  BY MailKept DEF HostInv
<1> QED BY <1>2, <1>3 DEF HostInv

\* A call that ends outside the mailbox and outside the database.
LEMMA HostReturns ==
    ASSUME HostInv, NEW w \in Workers, Return(w), ~Sent(w) \/ ~host_alive,
           call[w].stage # "db" \/ call[w].op \notin DatabaseOps \/ ~host_alive,
           UNCHANGED <<host_alive, host_mailbox, db_calls, rows>>,
           \A row \in retrieved' : IsFirst(rows, row),
           \A row \in acknowledged' : IsIn(rows, row)
    PROVE  HostInv'
<1>1. StoreInv'
  BY StoreReturned, Zenon DEF HostInv
<1>2. \A v \in Workers : v # w => call'[v] = call[v]
  BY DEF Return, HostInv, StoreInv, StoreType
<1>3. MailInv'
  <2>1. CASE ~Sent(w)
    BY <1>2, <2>1, MailKept DEF HostInv
  <2>2. CASE ~host_alive
    <3>1. host_mailbox = <<>> /\ host_mailbox' = <<>> /\ ~host_alive'
      BY <2>2 DEF HostInv, MailInv
    <3> QED BY <3>1, EmptySequence DEF MailInv
  <2> QED BY <2>1, <2>2, Zenon
<1> QED BY <1>1, <1>3, Zenon DEF HostInv

LEMMA HostHandlesFirst ==
    ASSUME HostInv, NEW message, Handles(message)
    PROVE  /\ host_alive /\ host_alive' = host_alive
           /\ host_mailbox # <<>> /\ host_mailbox' = Tail(host_mailbox) /\ Head(host_mailbox) = message
           /\ message \in Messages
           /\ message \in Workers => Sent(message)
<1>1. /\ host_alive /\ host_alive' = host_alive
      /\ host_mailbox # <<>> /\ host_mailbox' = Tail(host_mailbox) /\ Head(host_mailbox) = message
  BY DEF Handles, NextMessage
<1>2. host_mailbox \in Seq(Messages)
  BY DEF HostInv, MailInv
<1>3. 1 \in DOMAIN host_mailbox /\ message = host_mailbox[1]
  BY <1>1, <1>2, HeadTailProperties, EmptySeq
<1>4. message \in Messages
  BY <1>2, <1>3, Element
<1> QED BY <1>1, <1>3, <1>4 DEF HostInv, MailInv

LEMMA HostStarted == HostInv /\ Started => HostInv'
<1> SUFFICES ASSUME HostInv, Started PROVE HostInv'
  OBVIOUS
<1>1. UNCHANGED <<call, host_alive, db_calls, rows, retrieved, acknowledged>>
  BY DEF Started, dbVars, historyVars
<1>2. CASE ~host_alive
  BY <1>1, <1>2, HostUnchanged DEF Started
<1>3. CASE host_alive
  <2>1. StoreInv'
    <3>1. call \in [Workers -> CallType] /\ (\A row \in retrieved : IsFirst(rows, row))
          /\ (\A row \in acknowledged : IsIn(rows, row))
      BY DEF HostInv, StoreInv, StoreType
    <3> QED BY <1>1, <3>1, StoreKept, Zenon DEF HostInv
  <2> DEFINE added == <<"SetAppAddress", "BatchTickManager">>
  <2>2. host_mailbox' = host_mailbox \o added /\ added \in Seq(Messages) /\ Len(added) = 2
        /\ added[1] = "SetAppAddress" /\ added[2] = "BatchTickManager"
    BY <1>3 DEF Started, Messages
  <2>3. host_mailbox \in Seq(Messages)
    BY DEF HostInv, MailInv
  <2> HIDE DEF added
  <2>4. /\ host_mailbox' \in Seq(Messages)
        /\ Len(host_mailbox) \in Nat /\ DOMAIN host_mailbox = 1..Len(host_mailbox)
        /\ DOMAIN host_mailbox' = 1..(Len(host_mailbox) + 2)
        /\ \A k \in 1..Len(host_mailbox) : host_mailbox'[k] = host_mailbox[k]
        /\ host_mailbox'[Len(host_mailbox) + 1] = "SetAppAddress"
        /\ host_mailbox'[Len(host_mailbox) + 2] = "BatchTickManager"
    <3>1. /\ host_mailbox' \in Seq(Messages)
          /\ Len(host_mailbox') = Len(host_mailbox) + Len(added)
          /\ \A k \in 1..Len(host_mailbox) + Len(added) :
                host_mailbox'[k] = IF k <= Len(host_mailbox) THEN host_mailbox[k]
                                   ELSE added[k - Len(host_mailbox)]
      BY <2>2, <2>3, ConcatProperties, Zenon
    <3>2. Len(host_mailbox) \in Nat /\ DOMAIN host_mailbox = 1..Len(host_mailbox)
          /\ DOMAIN host_mailbox' = 1..Len(host_mailbox')
      BY <2>3, <3>1
    <3> QED BY <2>2, <3>1, <3>2
  <2>5. "SetAppAddress" \notin Workers /\ "BatchTickManager" \notin Workers
    BY NodeAssumption
  <2>6. ASSUME NEW k \in DOMAIN host_mailbox', host_mailbox'[k] \in Workers
        PROVE  k \in DOMAIN host_mailbox /\ host_mailbox'[k] = host_mailbox[k]
    BY <2>4, <2>5, <2>6
  <2>7. ASSUME NEW k \in DOMAIN host_mailbox', host_mailbox'[k] \in Workers
        PROVE  Sent(host_mailbox[k])'
    BY <1>1, <2>6, <2>7 DEF HostInv, MailInv, Sent
  <2>8. ASSUME NEW k \in DOMAIN host_mailbox', NEW l \in DOMAIN host_mailbox', k # l,
               host_mailbox'[k] \in Workers
        PROVE  host_mailbox'[k] # host_mailbox'[l]
    <3>1. CASE host_mailbox'[l] \in Workers
      BY <2>6, <2>8, <3>1 DEF HostInv, MailInv
    <3> QED BY <2>8, <3>1
  <2> QED BY <1>1, <1>3, <2>1, <2>4, <2>7, <2>8 DEF HostInv, MailInv
<1> QED BY <1>2, <1>3

LEMMA HostAsked ==
    ASSUME HostInv, NEW w \in Workers, NEW request \in Requests, Ask(w, request)
    PROVE  HostInv'
<1>1. /\ call[w] = NoCall /\ call' = [call EXCEPT ![w] = request]
      /\ UNCHANGED <<host_alive, db_calls, rows, retrieved, acknowledged>>
      /\ host_mailbox' = IF host_alive /\ request.op # "p2p_broadcast"
                         THEN Append(host_mailbox, w) ELSE host_mailbox
  BY DEF Ask, dbVars, historyVars
<1>2. request \in CallType /\ CallComplete(request) /\ request.stage = "sent" /\ request.op # "none"
  <2>1. CASE \E key \in Keys : request = Request("db_get", key, None)
    BY <2>1 DEF Request, CallType, CallComplete, DatabaseOps
  <2>2. CASE \E key \in Keys, value \in Values : request = Request("db_set", key, value)
    BY <2>2 DEF Request, CallType, CallComplete, DatabaseOps, Value
  <2>3. CASE \E op \in {"remote", "trigger_event", "p2p_broadcast"} : request = Request(op, None, None)
    BY <2>3 DEF Request, CallType, CallComplete, DatabaseOps
  <2> QED BY <2>1, <2>2, <2>3 DEF Requests
<1>3. call \in [Workers -> CallType] /\ (\A row \in retrieved : IsFirst(rows, row))
      /\ (\A row \in acknowledged : IsIn(rows, row))
  BY Zenon DEF HostInv, StoreInv, StoreType
<1>4. call' \in [Workers -> CallType] /\ call'[w] = request /\ \A v \in Workers : v # w => call'[v] = call[v]
  BY <1>1, <1>2, <1>3, Zenon
<1>5. \A k \in DOMAIN db_calls : w \notin db_calls[k].from
  BY <1>1, NotOwed, NoCallComplete, Zenon DEF HostInv
<1>6. StoreInv'
  BY <1>1, <1>2, <1>3, <1>4, <1>5, StoreKept DEF HostInv
<1>7. ~Sent(w) /\ w \in Messages
  BY <1>1, NoCallComplete DEF Sent, Messages
<1>8. MailInv'
  <2>1. CASE host_alive /\ request.op # "p2p_broadcast"
    <3>1. Sent(w)'
      BY <1>2, <1>4, <2>1 DEF Sent
    <3> QED BY <1>1, <1>4, <1>7, <2>1, <3>1, MailAdded, Zenon DEF HostInv
  <2>2. CASE ~(host_alive /\ request.op # "p2p_broadcast")
    BY <1>1, <1>4, <1>7, <2>2, MailKept DEF HostInv
  <2> QED BY <2>1, <2>2
<1> QED BY <1>6, <1>8 DEF HostInv

LEMMA HostHandled ==
    ASSUME HostInv, SetAppAddress \/ BatchTickManager
    PROVE  HostInv'
<1>1. PICK message \in {"SetAppAddress", "BatchTickManager"} : Handles(message)
  BY DEF SetAppAddress, BatchTickManager
<1>2. UNCHANGED <<call, db_calls, rows, retrieved, acknowledged>>
  BY DEF SetAppAddress, BatchTickManager, dbVars, historyVars
<1>3. host_mailbox # <<>> /\ host_mailbox' = Tail(host_mailbox) /\ host_alive' = host_alive
  BY <1>1, HostHandlesFirst
<1>4. call \in [Workers -> CallType] /\ (\A row \in retrieved : IsFirst(rows, row))
      /\ (\A row \in acknowledged : IsIn(rows, row))
  BY Zenon DEF HostInv, StoreInv, StoreType
<1>5. StoreInv'
  BY <1>2, <1>3, <1>4, StoreKept DEF HostInv
<1>6. MailInv'
  BY <1>2, <1>3, MailTaken DEF HostInv
<1> QED BY <1>5, <1>6 DEF HostInv

LEMMA HostTakesUp ==
    ASSUME HostInv, NEW w \in Workers, TriggerEvent(w) \/ HandleDatabase(w) \/ HandleRemote(w)
    PROVE  HostInv'
<1>1. Handles(w)
  BY DEF TriggerEvent, HandleDatabase, HandleRemote
<1>2. /\ host_alive /\ host_alive' = host_alive
      /\ host_mailbox # <<>> /\ host_mailbox' = Tail(host_mailbox) /\ Head(host_mailbox) = w
      /\ Sent(w)
  BY <1>1, HostHandlesFirst
<1>3. call \in [Workers -> CallType] /\ (\A row \in retrieved : IsFirst(rows, row))
      /\ (\A row \in acknowledged : IsIn(rows, row))
  BY DEF HostInv, StoreInv, StoreType
<1>4. \A v \in Workers : v # w => call'[v] = call[v]
  BY <1>3 DEF TriggerEvent, HandleDatabase, HandleRemote, Return
<1>5. MailInv'
  BY <1>2, <1>4, MailTaken DEF HostInv
<1>6. CASE TriggerEvent(w)
  <2>1. Return(w) /\ UNCHANGED <<rows, db_calls, retrieved, acknowledged>>
    BY <1>6 DEF TriggerEvent, dbVars, historyVars
  <2> QED BY <1>2, <1>3, <1>5, <2>1, StoreReturned, Zenon DEF HostInv, Sent
<1>7. CASE HandleDatabase(w)
  BY <1>2, <1>5, <1>7, StoreHanded DEF HostInv
<1>8. CASE HandleRemote(w)
  <2>1. /\ call' = [call EXCEPT ![w].stage = "remote"] /\ call[w].op = "remote"
        /\ UNCHANGED <<rows, db_calls, retrieved, acknowledged>>
    BY <1>8 DEF HandleRemote, dbVars, historyVars
  <2>2. call[w] \in CallType
    BY <1>3
  <2>3. call' \in [Workers -> CallType] /\ call'[w].op = "remote" /\ call'[w].stage = "remote"
    BY <1>3, <2>1, <2>2 DEF CallType
  <2>4. CallComplete(call'[w])
    BY <2>3 DEF CallComplete, DatabaseOps
  <2>5. \A k \in DOMAIN db_calls : w \notin db_calls[k].from
    BY <1>2, NotOwed, Zenon DEF HostInv, Sent
  <2> QED BY <1>2, <1>3, <1>4, <1>5, <2>1, <2>3, <2>4, <2>5, StoreKept DEF HostInv
<1> QED BY <1>6, <1>7, <1>8

\* A read or write is fulfilled with an outcome that is true.
LEMMA HostAnswered ==
    ASSUME HostInv, NEW w \in Workers, DatabaseAnswers(w)
    PROVE  HostInv'
<1>1. /\ call[w].stage \in {"done", "failed"} /\ Return(w)
      /\ retrieved' = retrieved \cup Fulfilled(w, "db_get")
      /\ acknowledged' = acknowledged \cup Fulfilled(w, "db_set")
      /\ UNCHANGED <<host_alive, host_mailbox, db_calls, rows>>
  BY DEF DatabaseAnswers, actorVars, dbVars
<1>2. /\ OutcomeTrue(call[w])
      /\ \A row \in retrieved : IsFirst(rows, row)
      /\ \A row \in acknowledged : IsIn(rows, row)
  BY DEF HostInv, StoreInv
<1>3. \A row \in Fulfilled(w, "db_get") : IsFirst(rows, row)
  BY <1>2, Zenon DEF Fulfilled, Row, OutcomeTrue
<1>4. \A row \in Fulfilled(w, "db_set") : IsIn(rows, row)
  BY <1>2 DEF Fulfilled, Row, OutcomeTrue
<1>5. ~Sent(w) /\ call[w].stage # "db"
  BY <1>1 DEF Sent
<1> QED BY <1>1, <1>2, <1>3, <1>4, <1>5, HostReturns

LEMMA HostRejected ==
    ASSUME HostInv, NEW w \in Workers, RemoteAnswers(w) \/ MailboxClosed(w) \/ BroadcastEnds(w)
    PROVE  HostInv'
<1>1. /\ Return(w)
      /\ UNCHANGED <<host_alive, host_mailbox, db_calls, rows, retrieved, acknowledged>>
  BY Zenon DEF RemoteAnswers, MailboxClosed, BroadcastEnds, actorVars, dbVars, historyVars
<1>2. ~Sent(w) \/ ~host_alive
  BY DEF RemoteAnswers, MailboxClosed, BroadcastEnds, Sent
<1>3. call[w].stage # "db" \/ call[w].op \notin DatabaseOps \/ ~host_alive
  BY DEF RemoteAnswers, MailboxClosed, BroadcastEnds, DatabaseOps
<1>4. /\ \A row \in retrieved : IsFirst(rows, row)
      /\ \A row \in acknowledged : IsIn(rows, row)
  BY DEF HostInv, StoreInv
<1> QED BY <1>1, <1>2, <1>3, <1>4, HostReturns, Zenon

\* Closures outlive the actor, but are owed to nobody.
LEMMA HostPanicked ==
    ASSUME HostInv, NEW w \in Workers, HttpFetchPanics(w)
    PROVE  HostInv'
<1>1. /\ ~host_alive' /\ host_mailbox' = <<>>
      /\ db_calls' = [k \in DOMAIN db_calls |-> [db_calls[k] EXCEPT !.from = {}]]
      /\ UNCHANGED <<call, rows, retrieved, acknowledged>>
  BY DEF HttpFetchPanics, historyVars
<1>2. MailInv'
  BY <1>1, EmptySequence DEF MailInv
<1> DEFINE Closure == [from : SUBSET Workers, op : DatabaseOps,
                       key : Keys \cup {None}, value : Value \cup {None}]
<1>3. db_calls \in Seq(Closure) /\ DOMAIN db_calls = 1..Len(db_calls) /\ Len(db_calls) \in Nat
      /\ DOMAIN db_calls' = DOMAIN db_calls
  BY <1>1 DEF HostInv, StoreInv, StoreType, Closures
<1>4. ASSUME NEW k \in DOMAIN db_calls
      PROVE  /\ db_calls'[k] \in Closure /\ db_calls'[k].from = {}
             /\ ClosureComplete(db_calls'[k])
  <2>1. db_calls[k] \in Closure /\ ClosureComplete(db_calls[k])
    <3>1. db_calls[k] \in Closure
      BY <1>3, Element, Zenon
    <3> QED BY <3>1 DEF HostInv, StoreInv
  <2>2. /\ db_calls'[k] \in Closure /\ db_calls'[k].from = {} /\ db_calls'[k].op = db_calls[k].op
        /\ db_calls'[k].key = db_calls[k].key /\ db_calls'[k].value = db_calls[k].value
    <3>1. db_calls'[k] = [db_calls[k] EXCEPT !.from = {}]
      BY <1>1
    <3> QED BY <2>1, <3>1
  <2> HIDE DEF Closure
  <2> QED BY <2>1, <2>2, Zenon DEF ClosureComplete
<1> HIDE DEF Closure
<1>5. db_calls' \in Seq(Closure)
  BY <1>1, <1>3, <1>4
<1>6. StoreType'
  BY <1>1, <1>5 DEF HostInv, StoreInv, StoreType, Closures, Closure
<1>7. (\A k \in DOMAIN db_calls : ClosureComplete(db_calls[k]) /\ Owed(db_calls[k]))'
  BY <1>3, <1>4 DEF ClosureComplete, Owed
<1>8. (\A k, l \in DOMAIN db_calls : k # l => db_calls[k].from \cap db_calls[l].from = {})'
  BY <1>3, <1>4
<1>9. (\A v \in Workers : CallComplete(call[v]) /\ OutcomeTrue(call[v]))'
  BY <1>1 DEF HostInv, StoreInv, CallComplete, OutcomeTrue
<1>10. (\A row \in retrieved : IsFirst(rows, row))' /\ (\A row \in acknowledged : IsIn(rows, row))'
  BY <1>1, Zenon DEF HostInv, StoreInv
<1> QED BY <1>2, <1>3, <1>4, <1>6, <1>7, <1>8, <1>9, <1>10, Zenon DEF HostInv, StoreInv

LEMMA HostRestarted == HostInv /\ HostRestarts => HostInv'
<1> SUFFICES ASSUME HostInv, HostRestarts PROVE HostInv'
  OBVIOUS
<1>1. /\ call' = [w \in Workers |-> NoCall] /\ db_calls' = <<>> /\ host_mailbox' = <<>>
      /\ UNCHANGED <<rows, retrieved, acknowledged>>
  BY DEF HostRestarts, HostStarts, historyVars
<1>2. MailInv'
  BY <1>1, EmptySequence DEF MailInv
<1>3. db_calls' \in Closures /\ DOMAIN db_calls' = {}
  BY <1>1, EmptySequence DEF Closures
<1>4. call' \in [Workers -> CallType] /\ \A w \in Workers : call'[w] = NoCall
  BY <1>1, NoCallComplete
<1>5. (\A w \in Workers : CallComplete(call[w]) /\ OutcomeTrue(call[w]))'
  BY <1>4, NoCallComplete DEF CallComplete, OutcomeTrue
<1>6. StoreType'
  BY <1>1, <1>3, <1>4 DEF HostInv, StoreInv, StoreType
<1>7. (\A row \in retrieved : IsFirst(rows, row))' /\ (\A row \in acknowledged : IsIn(rows, row))'
  BY <1>1 DEF HostInv, StoreInv
<1> QED BY <1>2, <1>3, <1>5, <1>6, <1>7 DEF HostInv, StoreInv

LEMMA HostInvStep == LeastElements /\ HostInv /\ [Next]_vars => HostInv'
<1> SUFFICES ASSUME LeastElements, HostInv, [Next]_vars PROVE HostInv'
  OBVIOUS
<1>1. CASE UNCHANGED hostVars
  BY <1>1, HostUnchanged DEF hostVars, actorVars, dbVars, historyVars
<1>2. CASE UNCHANGED vars
  BY <1>1, <1>2 DEF vars
<1>3. CASE ManageJobs \/ RpcCli \/ RpcPeers \/ Tick
  BY <1>1, <1>3 DEF ManageJobs, RpcCli, RpcPeers, Tick, NextTick
<1>4. CASE GossipArrives \/ listen \/ LoopSteps \/ LoopEnds
  BY <1>1, <1>4 DEF GossipArrives, listen, LoopSteps, LoopEnds
<1>5. CASE \E w \in Workers : Take(w) \/ Finish(w) \/ NotText(w)
  BY <1>1, <1>5 DEF Take, Finish, NotText
<1>6. CASE AppStarts
  BY <1>6, HostStarted DEF AppStarts
<1>7. CASE HostLearnsApp \/ FirstTick
  BY <1>7, HostHandled DEF HostLearnsApp, FirstTick
<1>8. ASSUME NEW w \in Workers, TaskAsks(w) PROVE HostInv'
  BY <1>8, HostAsked DEF TaskAsks
<1>9. ASSUME NEW w \in Workers, Broadcast(w) \/ BroadcastFails(w) PROVE HostInv'
  BY <1>9, HostRejected DEF Broadcast, BroadcastFails
<1>10. ASSUME NEW w \in Workers, Trigger(w) \/ TakeUp(w) PROVE HostInv'
  BY <1>10, HostTakesUp DEF Trigger, TakeUp
<1>11. ASSUME NEW w \in Workers, Answer(w) PROVE HostInv'
  BY <1>11, HostAnswered, HostRejected DEF Answer
<1>12. ASSUME NEW w \in Workers, Network(w) PROVE HostInv'
  BY <1>12, HostRejected, HostPanicked DEF Network
<1>13. CASE DatabaseThread
  <2>1. ExecuteDatabase /\ UNCHANGED <<host_mailbox, host_alive>>
    BY <1>13 DEF DatabaseThread, ExecuteDatabase, actorVars
  <2>2. StoreInv'
    BY <2>1, StoreExecutes DEF HostInv
  <2>3. \A v \in Workers : Sent(v) => call'[v] = call[v]
    BY <2>1, ExecutedOther DEF HostInv
  <2> QED BY <2>1, <2>2, <2>3, MailKept, Zenon DEF HostInv
<1>14. CASE Restart
  BY <1>14, HostRestarted DEF Restart
<1> QED
  BY <1>2, <1>3, <1>4, <1>5, <1>6, <1>7, <1>8, <1>9, <1>10, <1>11, <1>12, <1>13, <1>14 DEF Next

-----------------------------------------------------------------------------
\* Where events are.
JobType ==
    /\ event_queue \in Seq(Event) /\ mailbox \in Seq(Event) /\ p2p_messages \in Seq(Event)
    /\ arrived \in Nat
    /\ p2p_loop \in Event \cup {Ready, Halted}
    /\ worker \in [Workers -> Event \cup {Idle, Ended}]

LEMMA NewEventType == JobType => \A id \in EventIds : NewEvent(id) \in Event /\ NewEvent(id).id = id
BY DEF JobType, NewEvent, Event

\* get_next yields a position that may be taken.
LEMMA NextAllowed ==
    ASSUME LeastElements, NEW queue \in Seq(Event), NEW skip_ids, Allowed(queue, skip_ids) # {}
    PROVE  get_next(queue, skip_ids) \in Allowed(queue, skip_ids)
<1>1. Allowed(queue, skip_ids) \in SUBSET Nat
  BY DEF Allowed
<1>2. \E k \in Allowed(queue, skip_ids) : \A l \in Allowed(queue, skip_ids) : k <= l
  BY <1>1, LeastExists, Zenon
<1> QED BY <1>2, Zenon DEF get_next

LEMMA JobTypeStep == LeastElements /\ JobType /\ [Next]_vars => JobType'
<1> SUFFICES ASSUME LeastElements, JobType, [Next]_vars PROVE JobType'
  OBVIOUS
<1> USE DEF JobType
<1>1. \A id \in EventIds : NewEvent(id) \in Event
  BY NewEventType
<1>2. {CliId, TickId, P2PId, TriggerId} \subseteq EventIds
  BY DEF EventIds
<1>3. CASE UNCHANGED <<event_queue, mailbox, p2p_messages, arrived, p2p_loop, worker>>
  BY <1>3
<1>4. CASE UNCHANGED vars
  BY <1>3, <1>4 DEF vars, jobVars, channelVars
<1>5. CASE AppStarts \/ HostLearnsApp \/ DatabaseThread
  BY <1>3, <1>5 DEF AppStarts, HostLearnsApp, DatabaseThread, jobVars, channelVars
<1>6. CASE \E w \in Workers : TaskAsks(w) \/ TakeUp(w) \/ Answer(w) \/ Network(w)
  BY <1>3, <1>6 DEF TaskAsks, TakeUp, Answer, Network, jobVars, channelVars
<1>7. CASE ManageJobs
  <2>1. UNCHANGED <<p2p_messages, p2p_loop, worker, arrived>>
    BY <1>7 DEF ManageJobs, StartJobManager, channelVars
  <2>2. PICK k \in DOMAIN event_queue :
            /\ mailbox' = Append(mailbox, event_queue[k])
            /\ event_queue' = SubSeq(event_queue, 1, k - 1) \o SubSeq(event_queue, k + 1, Len(event_queue))
    <3>1. get_next(event_queue, running_event_ids) \in Allowed(event_queue, running_event_ids)
      BY <1>7, NextAllowed DEF ManageJobs, StartJobManager
    <3> QED BY <1>7, <3>1, Zenon DEF ManageJobs, StartJobManager, Allowed
  <2>3. event_queue[k] \in Event /\ k \in 1..Len(event_queue) /\ Len(event_queue) \in Nat
    BY <2>2, Element
  <2>4. mailbox' \in Seq(Event)
    BY <2>2, <2>3, AppendProperties, Zenon
  <2>5. /\ SubSeq(event_queue, 1, k - 1) \in Seq(Event)
        /\ SubSeq(event_queue, k + 1, Len(event_queue)) \in Seq(Event)
    BY <2>3, SubSeqType
  <2>6. event_queue' \in Seq(Event)
    BY <2>2, <2>5, ConcatProperties
  <2> QED BY <2>1, <2>4, <2>6
<1>8. CASE RpcCli
  <2>1. /\ mailbox' = Append(mailbox, NewEvent(CliId)) /\ arrived' = arrived + 1
        /\ UNCHANGED <<event_queue, worker, p2p_messages, p2p_loop>>
    BY <1>8 DEF RpcCli, cli, channelVars
  <2>2. mailbox' \in Seq(Event)
    BY <1>1, <1>2, <2>1, AppendProperties
  <2> QED BY <2>1, <2>2
<1>9. CASE RpcPeers \/ LoopEnds
  BY <1>9 DEF RpcPeers, LoopEnds, SendCommand, LoopPanics, jobVars
<1>10. CASE LoopSteps
  <2>1. UNCHANGED <<event_queue, mailbox, arrived, worker>>
    BY <1>10 DEF LoopSteps, jobVars
  <2>2. CASE SendMessage
    <3>1. p2p_loop \in Event /\ p2p_messages' = Append(p2p_messages, p2p_loop) /\ p2p_loop' = Ready
      BY <2>2 DEF SendMessage, Sending
    <3>2. p2p_messages' \in Seq(Event)
      BY <3>1, AppendProperties, Zenon
    <3> QED BY <2>1, <3>1, <3>2
  <2>3. CASE HandleCommand
    BY <2>1, <2>3 DEF HandleCommand
  <2> QED BY <1>10, <2>2, <2>3 DEF LoopSteps, P2PLoop
<1>11. ASSUME NEW id \in EventIds, AddEventToQueue(NewEvent(id)), arrived' = arrived + 1,
              UNCHANGED <<p2p_messages, p2p_loop>>
       PROVE  JobType'
  <2>1. event_queue' = Append(event_queue, NewEvent(id)) /\ UNCHANGED <<mailbox, worker>>
    BY <1>11 DEF AddEventToQueue, add
  <2>2. event_queue' \in Seq(Event)
    BY <1>1, <2>1, AppendProperties
  <2> QED BY <1>11, <2>1, <2>2
<1>12. CASE FirstTick \/ Tick \/ \E w \in Workers : Trigger(w)
  <2>1. UNCHANGED <<p2p_messages, p2p_loop>>
    BY <1>12 DEF FirstTick, Tick, Trigger, channelVars
  <2>2. \/ \E id \in EventIds : AddEventToQueue(NewEvent(id)) /\ arrived' = arrived + 1
        \/ UNCHANGED <<event_queue, mailbox, arrived, worker>>
    BY <1>2, <1>12 DEF FirstTick, Tick, Trigger, Arrives, jobVars
  <2> QED BY <1>3, <1>11, <2>1, <2>2
<1>13. CASE GossipArrives
  <2>1. p2p_loop' = NewEvent(P2PId) /\ arrived' = arrived + 1
        /\ UNCHANGED <<event_queue, mailbox, worker, p2p_messages>>
    BY <1>13 DEF GossipArrives, Gossip, Arrives
  <2> QED BY <1>1, <1>2, <2>1
<1>14. CASE listen
  <2>1. /\ p2p_messages # <<>> /\ p2p_messages' = Tail(p2p_messages)
        /\ event_queue' = Append(event_queue, Head(p2p_messages))
        /\ UNCHANGED <<mailbox, worker, arrived, p2p_loop>>
    BY <1>14 DEF listen, Receive, AddEventToQueue, add
  <2>2. Head(p2p_messages) \in Event /\ p2p_messages' \in Seq(Event)
    BY <2>1, HeadTailProperties
  <2>3. event_queue' \in Seq(Event)
    BY <2>1, <2>2, AppendProperties
  <2> QED BY <2>1, <2>2, <2>3
<1>15. ASSUME NEW w \in Workers, Take(w) \/ NotText(w) PROVE JobType'
  <2>1. /\ mailbox # <<>> /\ mailbox' = Tail(mailbox)
        /\ \E state \in {Head(mailbox), Ended} : worker' = [worker EXCEPT ![w] = state]
        /\ UNCHANGED <<event_queue, arrived, p2p_messages, p2p_loop>>
    BY <1>15 DEF Take, NotText, TakeJob, PanicOnJob, channelVars
  <2>2. Head(mailbox) \in Event /\ mailbox' \in Seq(Event)
    BY <2>1, HeadTailProperties
  <2> QED BY <2>1, <2>2
<1>16. ASSUME NEW w \in Workers, Finish(w) \/ Broadcast(w) \/ BroadcastFails(w) PROVE JobType'
  <2>1. /\ worker' = worker \/ \E state \in {Idle, Ended} : worker' = [worker EXCEPT ![w] = state]
        /\ UNCHANGED <<event_queue, mailbox, arrived, p2p_messages, p2p_loop>>
    BY <1>16 DEF Finish, Broadcast, BroadcastFails, FinishJob, EndWorker, SendCommand, jobVars, channelVars
  <2> QED BY <2>1, Zenon
<1>17. CASE Restart
  BY <1>17, EmptySequence, Zenon DEF Restart, JobRestart, FirstStates, ChannelsRestart
<1> QED
  BY <1>4, <1>5, <1>6, <1>7, <1>8, <1>9, <1>10, <1>12, <1>13, <1>14, <1>15, <1>16, <1>17, Zenon DEF Next

-----------------------------------------------------------------------------
\* Events other than the commands of the RPC server reach the workers only once
\* the app has started, and only a task that runs waits for a call.
EventsInv ==
    /\ \A k \in DOMAIN mailbox : mailbox[k].id # CliId => started
    /\ \A w \in Workers : (Running(w) /\ worker[w].id # CliId) => started
    /\ \A w \in Workers : call[w] # NoCall => Running(w)

LEMMA EventsKept ==
    ASSUME EventsInv, UNCHANGED <<mailbox, worker>>, started => started',
           \A w \in Workers : call'[w] # NoCall => call[w] # NoCall
    PROVE  EventsInv'
BY DEF EventsInv, Running

\* Only Ask makes a call.
LEMMA CallsKept ==
    ASSUME HostInv, NEW w \in Workers,
           \/ Return(w) \/ HandleDatabase(w) \/ HandleRemote(w) \/ ExecuteDatabase
    PROVE  \A v \in Workers : call'[v] # NoCall => call[v] # NoCall
<1>1. call \in [Workers -> CallType]
  BY DEF HostInv, StoreInv, StoreType
<1>2. CASE Return(w)
  BY <1>1, <1>2 DEF Return
<1>3. CASE HandleDatabase(w) \/ HandleRemote(w)
  <2>1. call[w] # NoCall
    BY <1>3, HostHandlesFirst, NoCallComplete DEF HandleDatabase, HandleRemote, Sent
  <2>2. \A v \in Workers : v # w => call'[v] = call[v]
    BY <1>1, <1>3, Zenon DEF HandleDatabase, HandleRemote
  <2> QED BY <2>1, <2>2
<1>4. CASE ExecuteDatabase
  <2>1. db_calls # <<>> /\ db_calls \in Closures
    BY <1>4, Zenon DEF ExecuteDatabase, HostInv, StoreInv, StoreType
  <2>2. 1 \in DOMAIN db_calls /\ Head(db_calls) = db_calls[1]
    BY <2>1, HeadTailProperties, EmptySeq DEF Closures
  <2>3. \A v \in Head(db_calls).from : call[v] # NoCall
    BY <2>2, NoCallComplete, Zenon DEF HostInv, StoreInv, Owed
  <2>4. \E stage, value : Outcome(Head(db_calls).from, stage, value)
    BY <1>4, Zenon DEF ExecuteDatabase
  <2> QED BY <2>3, <2>4, Zenon DEF Outcome
<1> QED BY <1>2, <1>3, <1>4, Zenon

LEMMA EventsStep == LeastElements /\ HostInv /\ JobType /\ EventsInv /\ [Next]_vars => EventsInv'
<1> SUFFICES ASSUME LeastElements, HostInv, JobType, EventsInv, [Next]_vars PROVE EventsInv'
  OBVIOUS
<1>1. call \in [Workers -> CallType] /\ mailbox \in Seq(Event) /\ event_queue \in Seq(Event)
      /\ worker \in [Workers -> Event \cup {Idle, Ended}]
  BY Zenon DEF HostInv, StoreInv, StoreType, JobType
<1>2. CASE UNCHANGED <<mailbox, worker, started, call>>
  BY <1>2, EventsKept
<1>3. CASE UNCHANGED vars
  BY <1>2, <1>3, Zenon DEF vars, jobVars, hostVars, actorVars
<1>4. CASE RpcPeers \/ Tick \/ GossipArrives \/ listen \/ LoopSteps \/ LoopEnds
  BY <1>2, <1>4 DEF RpcPeers, Tick, NextTick, GossipArrives, listen, AddEventToQueue, LoopSteps, LoopEnds,
     jobVars, hostVars, actorVars
<1>5. CASE HostLearnsApp \/ FirstTick
  BY <1>2, <1>5 DEF HostLearnsApp, FirstTick, SetAppAddress, BatchTickManager, Handles, AddEventToQueue, jobVars
<1>6. CASE AppStarts
  BY <1>6, EventsKept DEF AppStarts, Started, jobVars
<1>7. ASSUME NEW w \in Workers, Broadcast(w) \/ Trigger(w) \/ TakeUp(w) \/ Answer(w) \/ Network(w)
      PROVE  EventsInv'
  <2>1. UNCHANGED <<mailbox, worker, started>>
    BY <1>7 DEF Broadcast, BroadcastEnds, Trigger, TriggerEvent, TakeUp, HandleDatabase, HandleRemote, Handles,
       Answer, DatabaseAnswers, MailboxClosed, Network, RemoteAnswers, HttpFetchPanics, AddEventToQueue,
       jobVars, actorVars
  <2>2. Return(w) \/ HandleDatabase(w) \/ HandleRemote(w) \/ UNCHANGED call
    BY <1>7 DEF Broadcast, BroadcastEnds, Trigger, TriggerEvent, TakeUp,
       Answer, DatabaseAnswers, MailboxClosed, Network, RemoteAnswers, HttpFetchPanics
  <2> QED BY <2>1, <2>2, CallsKept, EventsKept
<1>8. CASE DatabaseThread
  <2>1. UNCHANGED <<mailbox, worker, started>> /\ ExecuteDatabase
    BY <1>8, Zenon DEF DatabaseThread, ExecuteDatabase, jobVars, actorVars
  <2>2. \A w \in Workers : call'[w] # NoCall => call[w] # NoCall
    BY <2>1, CallsKept, Zenon
  <2> QED BY <2>1, <2>2, EventsKept, Zenon
<1>9. ASSUME NEW w \in Workers, TaskAsks(w) PROVE EventsInv'
  <2>1. /\ UNCHANGED <<mailbox, worker, started>> /\ Running(w)
        /\ \A v \in Workers : v # w => call'[v] = call[v]
    BY <1>1, <1>9, Zenon DEF TaskAsks, Ask, jobVars
  <2> QED BY <2>1 DEF EventsInv, Running
<1>10. ASSUME NEW event \in Event, mailbox' = Append(mailbox, event), event.id # CliId => started,
              UNCHANGED <<worker, started, call>>
       PROVE  EventsInv'
  <2>1. /\ DOMAIN mailbox' = 1..(Len(mailbox) + 1) /\ DOMAIN mailbox = 1..Len(mailbox)
        /\ Len(mailbox) \in Nat
        /\ \A k \in 1..Len(mailbox) : mailbox'[k] = mailbox[k]
        /\ mailbox'[Len(mailbox) + 1] = event
    BY <1>1, <1>10, AppendProperties
  <2>2. \A k \in DOMAIN mailbox' : mailbox'[k].id # CliId => started
    BY <1>10, <2>1 DEF EventsInv
  <2> QED BY <1>10, <2>2 DEF EventsInv, Running
<1>11. CASE ManageJobs
  <2>1. /\ started /\ UNCHANGED <<worker, started, call>>
        /\ \E k \in Allowed(event_queue, running_event_ids) : mailbox' = Append(mailbox, event_queue[k])
    <3>1. get_next(event_queue, running_event_ids) \in Allowed(event_queue, running_event_ids)
      BY <1>1, <1>11, NextAllowed DEF ManageJobs, StartJobManager
    <3> QED BY <1>11, <3>1 DEF ManageJobs, StartJobManager, hostVars, actorVars
  <2>2. \A k \in Allowed(event_queue, running_event_ids) : event_queue[k] \in Event
    BY <1>1, Element DEF Allowed
  <2> QED BY <1>10, <2>1, <2>2
<1>12. CASE RpcCli
  <2>1. mailbox' = Append(mailbox, NewEvent(CliId)) /\ UNCHANGED <<worker, started, call>>
    BY <1>12 DEF RpcCli, cli, hostVars, actorVars
  <2>2. NewEvent(CliId) \in Event /\ NewEvent(CliId).id = CliId
    BY NewEventType, Zenon DEF EventIds
  <2> QED BY <1>10, <2>1, <2>2
<1>13. ASSUME NEW w \in Workers, Take(w) \/ NotText(w) PROVE EventsInv'
  <2>1. /\ worker[w] = Idle /\ mailbox # <<>> /\ mailbox' = Tail(mailbox)
        /\ \E state \in {Head(mailbox), Ended} : worker' = [worker EXCEPT ![w] = state]
        /\ UNCHANGED <<started, call>>
    BY <1>13 DEF Take, NotText, TakeJob, PanicOnJob, hostVars, actorVars
  <2>2. /\ Len(mailbox) \in Nat \ {0} /\ DOMAIN mailbox = 1..Len(mailbox)
        /\ DOMAIN mailbox' = 1..(Len(mailbox) - 1) /\ Head(mailbox) = mailbox[1]
        /\ \A k \in 1..(Len(mailbox) - 1) : mailbox'[k] = mailbox[k + 1]
    BY <1>1, <2>1, HeadTailProperties, EmptySeq
  <2>3. \A k \in DOMAIN mailbox' : k + 1 \in DOMAIN mailbox /\ mailbox'[k] = mailbox[k + 1]
    BY <2>2
  <2>4. Head(mailbox).id # CliId => started
    BY <2>2 DEF EventsInv
  <2>5. call[w] = NoCall
    BY <2>1 DEF EventsInv, Running
  <2>6. \A v \in Workers : v # w => worker'[v] = worker[v]
    BY <1>1, <2>1
  <2>7. worker'[w] \in {Head(mailbox), Ended}
    BY <1>1, <2>1, Zenon
  <2>8. (\A v \in Workers : (Running(v) /\ worker[v].id # CliId) => started)'
    BY <2>1, <2>4, <2>6, <2>7 DEF EventsInv, Running
  <2>9. (\A v \in Workers : call[v] # NoCall => Running(v))'
    BY <2>1, <2>5, <2>6 DEF EventsInv, Running
  <2>10. (\A k \in DOMAIN mailbox : mailbox[k].id # CliId => started)'
    BY <2>1, <2>3, Zenon DEF EventsInv
  <2> QED BY <2>8, <2>9, <2>10 DEF EventsInv
<1>14. ASSUME NEW w \in Workers, Finish(w) \/ BroadcastFails(w) PROVE EventsInv'
  <2>1. /\ \E state \in {Idle, Ended} : worker' = [worker EXCEPT ![w] = state]
        /\ call'[w] = NoCall /\ \A v \in Workers : v # w => call'[v] = call[v]
        /\ UNCHANGED <<mailbox, started>>
    BY <1>1, <1>14 DEF Finish, FinishJob, BroadcastFails, BroadcastEnds, Return, EndWorker, hostVars, actorVars
  <2>2. worker'[w] \in {Idle, Ended} /\ \A v \in Workers : v # w => worker'[v] = worker[v]
    BY <1>1, <2>1
  <2> QED BY <2>1, <2>2, Zenon DEF EventsInv, Running
<1>15. CASE Restart
  <2>1. /\ mailbox' = <<>> /\ call' = [w \in Workers |-> NoCall]
        /\ \E state \in {Idle, Ended} : worker' = [w \in Workers |-> state]
    BY <1>15 DEF Restart, JobRestart, FirstStates, HostRestarts, HostStarts
  <2> QED BY <2>1, EmptySequence, Zenon DEF EventsInv, Running
<1> QED
  BY <1>3, <1>4, <1>5, <1>6, <1>7, <1>8, <1>9, <1>11, <1>12, <1>13, <1>14, <1>15 DEF Next

-----------------------------------------------------------------------------
\* The address of the app is known, or before position k of the host's mailbox.
Known(k) == app_actor_addr \/ \E j \in 1..(k - 1) : host_mailbox[j] = "SetAppAddress"

\* It is before every call of a task of the queue, and it is there at all when
\* the app has started: App::started sends it before the job manager runs.
AddressInv ==
    /\ \A k \in DOMAIN host_mailbox :
        (host_mailbox[k] \in Workers /\ worker[host_mailbox[k]].id # CliId) => Known(k)
    /\ (started /\ host_alive) => Known(Len(host_mailbox) + 1)

LEMMA AddressKept ==
    ASSUME MailInv, AddressInv, UNCHANGED <<host_mailbox, app_actor_addr, host_alive, started>>,
           \A v \in Workers : Sent(v) => worker'[v] = worker[v]
    PROVE  AddressInv'
<1>1. \A k \in DOMAIN host_mailbox :
        host_mailbox[k] \in Workers => worker'[host_mailbox[k]] = worker[host_mailbox[k]]
  BY Zenon DEF MailInv
<1> QED BY <1>1, Zenon DEF AddressInv, Known

LEMMA AddressTaken ==
    ASSUME MailInv, AddressInv, host_mailbox # <<>>, host_mailbox' = Tail(host_mailbox),
           UNCHANGED <<host_alive, started, worker>>,
           app_actor_addr' = IF Head(host_mailbox) = "SetAppAddress" THEN TRUE ELSE app_actor_addr
    PROVE  AddressInv'
<1>1. host_mailbox \in Seq(Messages)
  BY DEF MailInv
<1>2. /\ DOMAIN host_mailbox' = 1..(Len(host_mailbox) - 1) /\ Len(host_mailbox') = Len(host_mailbox) - 1
      /\ DOMAIN host_mailbox = 1..Len(host_mailbox) /\ Len(host_mailbox) \in Nat \ {0}
      /\ \A k \in 1..(Len(host_mailbox) - 1) : host_mailbox'[k] = host_mailbox[k + 1]
      /\ Head(host_mailbox) = host_mailbox[1]
  BY <1>1, HeadTailProperties, EmptySeq
<1>3. ASSUME NEW k \in 1..Len(host_mailbox), Known(k + 1) PROVE Known(k)'
  <2>1. CASE app_actor_addr
    BY <2>1 DEF Known
  <2>2. ASSUME NEW j \in 1..k, host_mailbox[j] = "SetAppAddress" PROVE Known(k)'
    <3>1. CASE j = 1
      BY <1>2, <2>2, <3>1 DEF Known
    <3>2. CASE j # 1
      <4>1. j - 1 \in 1..(k - 1) /\ host_mailbox'[j - 1] = "SetAppAddress"
        BY <1>2, <2>2, <3>2
      <4> QED BY <4>1 DEF Known
    <3> QED BY <3>1, <3>2
  <2> QED BY <1>3, <2>1, <2>2 DEF Known
<1>4. ASSUME NEW k \in DOMAIN host_mailbox', host_mailbox'[k] \in Workers,
             worker'[host_mailbox'[k]].id # CliId
      PROVE  Known(k)'
  <2>1. k + 1 \in DOMAIN host_mailbox /\ host_mailbox'[k] = host_mailbox[k + 1] /\ k \in 1..Len(host_mailbox)
    BY <1>2
  <2> QED BY <1>3, <1>4, <2>1 DEF AddressInv
<1>5. (started /\ host_alive)' => Known(Len(host_mailbox) + 1)'
  <2>1. PICK n \in Nat : n = Len(host_mailbox)
    BY <1>2, Zenon
  <2>2. ASSUME started, host_alive PROVE Known(n)'
    BY <1>2, <1>3, <2>1, <2>2 DEF AddressInv
  <2>3. Len(host_mailbox') + 1 = n
    BY <1>2, <2>1
  <2> QED BY <2>2, <2>3
<1> QED BY <1>4, <1>5, Zenon DEF AddressInv

\* A message is added: of a worker, or an address.
LEMMA AddressAdded ==
    ASSUME MailInv, AddressInv, NEW more \in Seq(Messages), host_mailbox' = host_mailbox \o more,
           UNCHANGED <<host_alive, app_actor_addr, worker>>,
           \/ more[1] = "SetAppAddress" /\ Len(more) = 2 /\ more[2] = "BatchTickManager"
           \/ /\ started' = started /\ Len(more) = 1 /\ more[1] \in Workers
              /\ host_alive /\ (worker[more[1]].id # CliId => started)
    PROVE  AddressInv'
<1>1. host_mailbox \in Seq(Messages)
  BY DEF MailInv
<1>2. /\ Len(host_mailbox') = Len(host_mailbox) + Len(more)
      /\ \A k \in 1..Len(host_mailbox) + Len(more) :
            host_mailbox'[k] = IF k <= Len(host_mailbox) THEN host_mailbox[k] ELSE more[k - Len(host_mailbox)]
      /\ host_mailbox' \in Seq(Messages)
  BY <1>1, ConcatProperties
<1>3. /\ Len(host_mailbox) \in Nat /\ DOMAIN host_mailbox = 1..Len(host_mailbox)
      /\ DOMAIN host_mailbox' = 1..Len(host_mailbox') /\ Len(more) \in {1, 2}
  BY <1>1, <1>2
<1>4. ASSUME NEW k \in 1..(Len(host_mailbox) + 1), Known(k) PROVE Known(k)'
  <2>1. \A j \in 1..(k - 1) : host_mailbox'[j] = host_mailbox[j]
    BY <1>2, <1>3
  <2> QED BY <1>4, <2>1 DEF Known
<1>5. "SetAppAddress" \notin Workers /\ "BatchTickManager" \notin Workers
  BY NodeAssumption
<1>6. ASSUME NEW k \in DOMAIN host_mailbox, host_mailbox'[k] \in Workers, worker'[host_mailbox'[k]].id # CliId
      PROVE  Known(k)'
  <2>1. host_mailbox'[k] = host_mailbox[k] /\ k \in 1..(Len(host_mailbox) + 1)
    BY <1>2, <1>3
  <2> QED BY <1>4, <1>6, <2>1 DEF AddressInv
<1>7. host_mailbox'[Len(host_mailbox) + 1] = more[1]
  BY <1>2, <1>3
<1>8. CASE more[1] = "SetAppAddress" /\ Len(more) = 2 /\ more[2] = "BatchTickManager"
  <2>1. Known(Len(host_mailbox) + 1)'
    <3>1. Len(host_mailbox) + 1 \in 1..((Len(host_mailbox') + 1) - 1)
      BY <1>2, <1>3, <1>8
    <3> QED BY <1>7, <1>8, <3>1 DEF Known
  <2>2. host_mailbox'[Len(host_mailbox) + 2] = "BatchTickManager"
    BY <1>2, <1>3, <1>8
  <2>3. \A k \in DOMAIN host_mailbox' : host_mailbox'[k] \in Workers => k \in DOMAIN host_mailbox
    BY <1>2, <1>3, <1>5, <1>7, <1>8, <2>2
  <2> QED BY <1>6, <2>1, <2>3 DEF AddressInv
<1>9. CASE /\ started' = started /\ Len(more) = 1 /\ more[1] \in Workers
           /\ host_alive /\ (worker[more[1]].id # CliId => started)
  <2> PICK n \in Nat : n = Len(host_mailbox) + 1
    BY <1>3
  <2>1. started => Known(n)'
    BY <1>3, <1>4, <1>9 DEF AddressInv
  <2>2. started => Known(Len(host_mailbox) + 1)'
    <3>1. Len(host_mailbox') = n
      BY <1>2, <1>9
    <3>2. ASSUME Known(n)' PROVE Known(n + 1)'
      BY <3>2 DEF Known
    <3> QED BY <2>1, <3>1, <3>2
  <2>3. ASSUME NEW k \in DOMAIN host_mailbox', host_mailbox'[k] \in Workers, worker'[host_mailbox'[k]].id # CliId
        PROVE  Known(k)'
    <3>1. CASE k \in DOMAIN host_mailbox
      BY <1>6, <2>3, <3>1
    <3>2. CASE k = Len(host_mailbox) + 1
      BY <1>7, <1>9, <2>1, <2>3, <3>2
    <3> QED BY <1>2, <1>3, <1>9, <3>1, <3>2
  <2> QED BY <1>9, <2>2, <2>3 DEF AddressInv
<1> QED BY <1>8, <1>9

LEMMA AddressStep == HostInv /\ JobType /\ EventsInv /\ AddressInv /\ [Next]_vars => AddressInv'
<1> SUFFICES ASSUME HostInv, JobType, EventsInv, AddressInv, [Next]_vars PROVE AddressInv'
  OBVIOUS
<1>1. call \in [Workers -> CallType] /\ worker \in [Workers -> Event \cup {Idle, Ended}] /\ MailInv
      /\ host_mailbox \in Seq(Messages)
  BY Zenon DEF HostInv, StoreInv, StoreType, JobType, MailInv
<1>2. CASE UNCHANGED <<host_mailbox, app_actor_addr, host_alive, started, worker>>
  BY <1>1, <1>2, AddressKept
<1>3. CASE UNCHANGED vars
  BY <1>2, <1>3 DEF vars, jobVars, hostVars, actorVars
<1>4. CASE ManageJobs \/ RpcCli \/ RpcPeers \/ Tick \/ GossipArrives \/ listen \/ LoopSteps \/ LoopEnds
  BY <1>2, <1>4, Zenon DEF ManageJobs, StartJobManager, RpcCli, cli, RpcPeers, Tick, NextTick, GossipArrives, listen,
     AddEventToQueue, LoopSteps, LoopEnds, jobVars, hostVars, actorVars
<1>5. CASE DatabaseThread
  BY <1>2, <1>5, Zenon DEF DatabaseThread, ExecuteDatabase, jobVars, actorVars
<1>6. ASSUME NEW w \in Workers, Take(w) \/ NotText(w) \/ Finish(w) \/ BroadcastFails(w) PROVE AddressInv'
  <2>1. /\ UNCHANGED <<host_mailbox, app_actor_addr, host_alive, started>>
        /\ \A v \in Workers : v # w => worker'[v] = worker[v]
    BY <1>1, <1>6 DEF Take, NotText, Finish, TakeJob, PanicOnJob, FinishJob, BroadcastFails, BroadcastEnds,
       EndWorker, hostVars, actorVars
  <2>2. ~Sent(w)
    <3>1. CASE Take(w) \/ NotText(w)
      BY <3>1, NoCallComplete, Zenon DEF Take, NotText, TakeJob, PanicOnJob, EventsInv, Running, Sent
    <3>2. CASE Finish(w) \/ BroadcastFails(w)
      BY <3>2, NoCallComplete, Zenon DEF Finish, BroadcastFails, BroadcastEnds, Sent
    <3> QED BY <1>6, <3>1, <3>2
  <2> QED BY <1>1, <2>1, <2>2, AddressKept, Zenon
<1>7. ASSUME NEW w \in Workers, Broadcast(w) \/ Answer(w) PROVE AddressInv'
  BY <1>2, <1>7, Zenon DEF Broadcast, BroadcastEnds, Answer, DatabaseAnswers, MailboxClosed, jobVars, actorVars
<1>8. ASSUME NEW w \in Workers, Network(w) PROVE AddressInv'
  <2>1. CASE RemoteAnswers(w)
    BY <1>2, <1>8, <2>1, Zenon DEF Network, RemoteAnswers, jobVars, actorVars
  <2>2. CASE HttpFetchPanics(w)
    <3>1. host_mailbox' = <<>> /\ ~host_alive'
      BY <2>2 DEF HttpFetchPanics
    <3> QED BY <3>1, EmptySequence DEF AddressInv
  <2> QED BY <1>8, <2>1, <2>2 DEF Network
<1>9. CASE Restart
  <2>1. host_mailbox' = <<>> /\ ~started'
    BY <1>9 DEF Restart, HostRestarts, HostStarts
  <2> QED BY <2>1, EmptySequence, Zenon DEF AddressInv
<1>10. CASE AppStarts
  <2>1. UNCHANGED <<host_alive, app_actor_addr, worker>>
    BY <1>10 DEF AppStarts, Started, jobVars
  <2>2. CASE host_alive
    <3> DEFINE more == <<"SetAppAddress", "BatchTickManager">>
    <3>1. /\ more \in Seq(Messages) /\ Len(more) = 2
          /\ more[1] = "SetAppAddress" /\ more[2] = "BatchTickManager"
      BY DEF Messages
    <3>2. host_mailbox' = host_mailbox \o more
      BY <1>10, <2>2 DEF AppStarts, Started
    <3> HIDE DEF more
    <3> QED BY <1>1, <2>1, <3>1, <3>2, AddressAdded, Zenon
  <2>3. CASE ~host_alive
    <3>1. host_mailbox' = <<>> /\ ~host_alive'
      BY <1>1, <1>10, <2>1, <2>3 DEF AppStarts, Started, MailInv
    <3> QED BY <3>1, EmptySequence DEF AddressInv
  <2> QED BY <2>2, <2>3
<1>11. ASSUME NEW w \in Workers, TaskAsks(w) PROVE AddressInv'
  <2>1. PICK request \in Requests : Ask(w, request)
    BY <1>11 DEF TaskAsks
  <2>2. UNCHANGED <<host_alive, app_actor_addr, worker, started>> /\ Running(w)
    BY <1>11, <2>1 DEF TaskAsks, Ask, jobVars
  <2>3. CASE host_alive /\ request.op # "p2p_broadcast"
    <3> DEFINE more == <<w>>
    <3>1. more \in Seq(Messages) /\ Len(more) = 1 /\ more[1] = w
      BY DEF Messages
    <3>2. host_mailbox' = host_mailbox \o more
      BY <1>1, <2>1, <2>3, AppendIsConcat DEF Ask
    <3>3. worker[w].id # CliId => started
      BY <2>2 DEF EventsInv
    <3> HIDE DEF more
    <3> QED BY <1>1, <2>2, <2>3, <3>1, <3>2, <3>3, AddressAdded, Zenon
  <2>4. CASE ~(host_alive /\ request.op # "p2p_broadcast")
    BY <1>2, <2>1, <2>2, <2>4 DEF Ask
  <2> QED BY <2>3, <2>4
<1>12. ASSUME NEW message, Handles(message), UNCHANGED worker,
              app_actor_addr' = IF message = "SetAppAddress" THEN TRUE ELSE app_actor_addr
       PROVE  AddressInv'
  <2>1. host_mailbox # <<>> /\ host_mailbox' = Tail(host_mailbox) /\ Head(host_mailbox) = message
        /\ UNCHANGED <<host_alive, started>>
    BY <1>12 DEF Handles, NextMessage
  <2> QED BY <1>1, <1>12, <2>1, AddressTaken, Zenon
<1>13. CASE HostLearnsApp \/ FirstTick
  <2>1. UNCHANGED worker
    BY <1>13 DEF HostLearnsApp, FirstTick, AddEventToQueue, jobVars
  <2>2. CASE HostLearnsApp
    BY <1>12, <2>1, <2>2, Zenon DEF HostLearnsApp, SetAppAddress
  <2>3. CASE FirstTick
    BY <1>12, <2>1, <2>3, Zenon DEF FirstTick, BatchTickManager
  <2> QED BY <1>13, <2>2, <2>3
<1>14. ASSUME NEW w \in Workers, Trigger(w) \/ TakeUp(w) PROVE AddressInv'
  <2>1. UNCHANGED <<worker, app_actor_addr>> /\ Handles(w)
    BY <1>14 DEF Trigger, TakeUp, TriggerEvent, HandleDatabase, HandleRemote, AddEventToQueue, jobVars
  <2>2. w # "SetAppAddress"
    BY NodeAssumption
  <2> QED BY <1>12, <2>1, <2>2, Zenon
<1> QED
  BY <1>3, <1>4, <1>5, <1>6, <1>7, <1>8, <1>9, <1>10, <1>11, <1>13, <1>14 DEF Next

-----------------------------------------------------------------------------
NodeInv == HostInv /\ JobType /\ EventsInv /\ AddressInv

LEMMA NodeInvInit == Init => NodeInv
<1> SUFFICES ASSUME Init PROVE NodeInv
  OBVIOUS
<1>1. HostInv
  BY HostInvInit DEF HostInv
<1>2. /\ event_queue = <<>> /\ mailbox = <<>> /\ p2p_messages = <<>> /\ host_mailbox = <<>>
      /\ arrived = 0 /\ p2p_loop = Ready /\ ~started
      /\ \E state \in {Idle, Ended} : worker = [w \in Workers |-> state]
      /\ call = [w \in Workers |-> NoCall]
  BY DEF Init, JobInit, FirstStates, HostInit, ChannelsInit
<1>3. JobType
  BY <1>2, EmptySequence, Zenon DEF JobType
<1>4. EventsInv
  BY <1>2, EmptySequence DEF EventsInv, Running
<1>5. AddressInv
  BY <1>2, EmptySequence DEF AddressInv
<1> QED BY <1>1, <1>3, <1>4, <1>5 DEF NodeInv
=============================================================================
