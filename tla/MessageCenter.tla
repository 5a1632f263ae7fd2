--------------------------- MODULE MessageCenter ---------------------------
(***************************************************************************)
(* The system message center of the monitor: one reader thread per pod     *)
(* takes events off a Redis stream, materializes them for GET              *)
(* /api/messages, persists its position and fans them out to the queues of *)
(* the SSE clients.  Pods share the stream, the items and the position;    *)
(* a rollout, a crash and failing Redis calls are part of the model.       *)
(*                                                                         *)
(* An event is its stream id.  TTL expiry of items and trimming of the     *)
(* stream are left out: items holds what was ever materialized.            *)
(***************************************************************************)
EXTENDS Naturals, Sequences

CONSTANTS
    Pods, Clients,
    Nowhere,        \* a client that is not connected
    Skipped,        \* events parse_ or materialize_ answers None for
    BatchSize,      \* count=100 of the XREAD
    QueueSize,      \* maxsize=100 of an SSE queue
    MaxEvents,      \* bound: events published
    MaxFaults       \* bound: crashes and failing calls of one behaviour

ASSUME SizesAssumption ==
    /\ BatchSize \in Nat \ {0}
    /\ QueueSize \in Nat \ {0}
    /\ MaxEvents \in Nat
    /\ MaxFaults \in Nat
ASSUME NowhereAssumption == Nowhere \notin Pods

VARIABLES
    published,   \* events in the stream: 1 .. published
    items,       \* events materialized so far
    cursor,      \* the persisted position, shared by all pods
    thread,      \* where the reader thread of each pod is
    lastId,      \* last_id of the thread
    newest,      \* newest_id of the batch in hand
    top,         \* last event of the batch in hand
    messages,    \* events of the batch still to be sent to the queues
    targets,     \* queues copied under the lock for this batch
    at,          \* the pod each client is connected to
    joined,      \* its queue is in system_message_queues
    queue,       \* its queue
    seen,        \* the last event it was sent on this connection
    owed,        \* history: materialized by its pod since it joined, not yet put
    faults

redis == <<published, items, cursor>>
reader == <<thread, lastId, newest, top, messages, targets>>
clients == <<at, joined, queue, seen, owed>>
vars == <<redis, reader, clients, faults>>

-----------------------------------------------------------------------------
ThreadState == {"off", "boot", "read", "batch", "copy", "fan"}

Lesser(a, b) == IF a <= b THEN a ELSE b

Init ==
    /\ published = 0 /\ items = {} /\ cursor = 0
    /\ thread = [p \in Pods |-> "off"]
    /\ lastId = [p \in Pods |-> 0]
    /\ newest = [p \in Pods |-> 0]
    /\ top = [p \in Pods |-> 0]
    /\ messages = [p \in Pods |-> {}]
    /\ targets = [p \in Pods |-> {}]
    /\ at = [c \in Clients |-> Nowhere]
    /\ joined = [c \in Clients |-> FALSE]
    /\ queue = [c \in Clients |-> <<>>]
    /\ seen = [c \in Clients |-> 0]
    /\ owed = [c \in Clients |-> {}]
    /\ faults = 0

\* Any process of the system writes to the stream.
Publish ==
    /\ published < MaxEvents
    /\ published' = published + 1
    /\ UNCHANGED <<items, cursor, reader, clients, faults>>

Fault ==
    /\ faults < MaxFaults
    /\ faults' = faults + 1

-----------------------------------------------------------------------------
\* The reader thread.

\* Mutant: a reader starts at the end of the stream.
BootAtEnd(p) ==
    /\ thread[p] = "boot"
    /\ thread' = [thread EXCEPT ![p] = "read"]
    /\ lastId' = [lastId EXCEPT ![p] = published]
    /\ UNCHANGED <<redis, newest, top, messages, targets, clients, faults>>

Boot(p) ==
    /\ thread[p] = "boot"
    /\ thread' = [thread EXCEPT ![p] = "read"]
    /\ lastId' = [lastId EXCEPT ![p] = cursor]
    /\ UNCHANGED <<redis, newest, top, messages, targets, clients, faults>>

\* from_url or consumer_last_id raised: the thread logs and ends.
BootFails(p) ==
    /\ thread[p] = "boot"
    /\ Fault
    /\ thread' = [thread EXCEPT ![p] = "off"]
    /\ UNCHANGED <<redis, lastId, newest, top, messages, targets, clients>>

\* XREAD after last_id.  An empty answer, or one that raises, changes nothing.
ReadBatch(p) ==
    /\ thread[p] = "read"
    /\ published > lastId[p]
    /\ thread' = [thread EXCEPT ![p] = "batch"]
    /\ newest' = [newest EXCEPT ![p] = lastId[p]]
    /\ top' = [top EXCEPT ![p] = Lesser(published, lastId[p] + BatchSize)]
    /\ messages' = [messages EXCEPT ![p] = {}]
    /\ UNCHANGED <<redis, lastId, targets, clients, faults>>

\* The next event of the batch is not a message.
PassOver(p) ==
    /\ thread[p] = "batch"
    /\ newest[p] < top[p]
    /\ newest[p] + 1 \in Skipped
    /\ newest' = [newest EXCEPT ![p] = @ + 1]
    /\ UNCHANGED <<redis, thread, lastId, top, messages, targets, clients, faults>>

\* The next event of the batch is written to the list and kept for the queues.
Materialize(p) ==
    /\ thread[p] = "batch"
    /\ newest[p] < top[p]
    /\ newest[p] + 1 \notin Skipped
    /\ newest' = [newest EXCEPT ![p] = @ + 1]
    /\ items' = items \cup {newest[p] + 1}
    /\ messages' = [messages EXCEPT ![p] = @ \cup {newest[p] + 1}]
    /\ owed' = [c \in Clients |-> IF at[c] = p /\ joined[c]
                                  THEN owed[c] \cup {newest[p] + 1} ELSE owed[c]]
    /\ UNCHANGED <<published, cursor, thread, lastId, top, targets, at, joined,
                   queue, seen, faults>>

\* Mutant: an event that cannot be materialized is passed over.
MaterializeFailsOver(p) ==
    /\ thread[p] = "batch"
    /\ newest[p] < top[p]
    /\ newest[p] + 1 \notin Skipped
    /\ Fault
    /\ items' \in {items, items \cup {newest[p] + 1}}
    /\ newest' = [newest EXCEPT ![p] = @ + 1]
    /\ UNCHANGED <<published, cursor, thread, lastId, top, messages, targets, clients>>

\* materialize_stream_event raised, before or after the item was written: the
\* batch is abandoned, and read again because last_id has not moved.
MaterializeFails(p) ==
    /\ thread[p] = "batch"
    /\ newest[p] < top[p]
    /\ newest[p] + 1 \notin Skipped
    /\ Fault
    /\ items' \in {items, items \cup {newest[p] + 1}}
    /\ thread' = [thread EXCEPT ![p] = "read"]
    /\ UNCHANGED <<published, cursor, lastId, newest, top, messages, targets, clients>>

\* Mutant: the newest id of the stream is persisted, not that of the batch.
PersistEnd(p) ==
    /\ thread[p] = "batch"
    /\ newest[p] = top[p]
    /\ lastId' = [lastId EXCEPT ![p] = newest[p]]
    /\ cursor' = published
    /\ thread' = [thread EXCEPT ![p] = IF messages[p] = {} THEN "read" ELSE "copy"]
    /\ UNCHANGED <<published, items, newest, top, messages, targets, clients, faults>>

\* last_id moves, then the position is persisted.
Persist(p) ==
    /\ thread[p] = "batch"
    /\ newest[p] = top[p]
    /\ lastId' = [lastId EXCEPT ![p] = newest[p]]
    /\ cursor' = newest[p]
    /\ thread' = [thread EXCEPT ![p] = IF messages[p] = {} THEN "read" ELSE "copy"]
    /\ UNCHANGED <<published, items, newest, top, messages, targets, clients, faults>>

\* set_consumer_last_id raised, applied or not: last_id has moved all the same,
\* so the batch is neither read again nor sent to any queue.
PersistFails(p) ==
    /\ thread[p] = "batch"
    /\ newest[p] = top[p]
    /\ Fault
    /\ lastId' = [lastId EXCEPT ![p] = newest[p]]
    /\ cursor' \in {cursor, newest[p]}
    /\ thread' = [thread EXCEPT ![p] = "read"]
    /\ UNCHANGED <<published, items, newest, top, messages, targets, clients>>

\* Mutant: full queues are left out.
CopyQueuesWithRoom(p) ==
    /\ thread[p] = "copy"
    /\ thread' = [thread EXCEPT ![p] = "fan"]
    /\ targets' = [targets EXCEPT ![p] =
            {c \in Clients : at[c] = p /\ joined[c] /\ Len(queue[c]) < QueueSize}]
    /\ UNCHANGED <<redis, lastId, newest, top, messages, clients, faults>>

\* queues = list(system_message_queues), under the lock
CopyQueues(p) ==
    /\ thread[p] = "copy"
    /\ thread' = [thread EXCEPT ![p] = "fan"]
    /\ targets' = [targets EXCEPT ![p] = {c \in Clients : at[c] = p /\ joined[c]}]
    /\ UNCHANGED <<redis, lastId, newest, top, messages, clients, faults>>

\* put_nowait_drop_oldest: a full queue loses its oldest message.
PutDropOldest(q, e) == Append(IF Len(q) < QueueSize THEN q ELSE Tail(q), e)

\* One message to every copied queue.  The callbacks run on the event loop in
\* the order they are scheduled; a client that has left has no queue any more.
Send(p, e) ==
    /\ queue' = [c \in Clients |-> IF c \in targets[p] /\ at[c] = p
                                   THEN PutDropOldest(queue[c], e) ELSE queue[c]]
    /\ owed' = [c \in Clients |-> IF c \in targets[p] /\ at[c] = p
                                  THEN owed[c] \ {e} ELSE owed[c]]
    /\ messages' = [messages EXCEPT ![p] = @ \ {e}]
    /\ thread' = [thread EXCEPT ![p] = IF messages[p] = {e} THEN "read" ELSE "fan"]
    /\ UNCHANGED <<redis, lastId, newest, top, targets, at, joined, seen, faults>>

\* Mutant: the messages of the batch in any order.
FanOutAnyOrder(p) ==
    /\ thread[p] = "fan"
    /\ \E e \in messages[p] : Send(p, e)

\* The messages of the batch, the oldest first.
FanOut(p) ==
    /\ thread[p] = "fan"
    /\ \E e \in messages[p] : (\A f \in messages[p] : e <= f) /\ Send(p, e)

Reader(p) == Boot(p) \/ ReadBatch(p) \/ PassOver(p) \/ Materialize(p)
             \/ Persist(p) \/ CopyQueues(p) \/ FanOut(p)

\* The process ends: its thread and its connections with it.
Crash(p) ==
    /\ Fault
    /\ thread' = [thread EXCEPT ![p] = "off"]
    /\ messages' = [messages EXCEPT ![p] = {}]
    /\ targets' = [targets EXCEPT ![p] = {}]
    /\ at' = [c \in Clients |-> IF at[c] = p THEN Nowhere ELSE at[c]]
    /\ joined' = [c \in Clients |-> joined[c] /\ at[c] # p]
    /\ queue' = [c \in Clients |-> IF at[c] = p THEN <<>> ELSE queue[c]]
    /\ seen' = [c \in Clients |-> IF at[c] = p THEN 0 ELSE seen[c]]
    /\ owed' = [c \in Clients |-> IF at[c] = p THEN {} ELSE owed[c]]
    /\ UNCHANGED <<redis, lastId, newest, top>>

-----------------------------------------------------------------------------
\* GET /api/messages/stream.

\* _ensure_message_center_reader_started: start a thread unless one is alive.
Connect(c, p) ==
    /\ at[c] = Nowhere
    /\ at' = [at EXCEPT ![c] = p]
    /\ thread' = [thread EXCEPT ![p] = IF @ = "off" THEN "boot" ELSE @]
    /\ UNCHANGED <<redis, lastId, newest, top, messages, targets, joined, queue, seen,
                   owed, faults>>

\* system_message_queues.append(queue): the thread may have run in between.
Join(c) ==
    /\ at[c] # Nowhere /\ ~joined[c]
    /\ joined' = [joined EXCEPT ![c] = TRUE]
    /\ UNCHANGED <<redis, reader, at, queue, seen, owed, faults>>

Receive(c) ==
    /\ joined[c] /\ queue[c] # <<>>
    /\ seen' = [seen EXCEPT ![c] = Head(queue[c])]
    /\ queue' = [queue EXCEPT ![c] = Tail(@)]
    /\ UNCHANGED <<redis, reader, at, joined, owed, faults>>

\* The generator's finally removes the queue; a copy of it may be a target yet.
Disconnect(c) ==
    /\ joined[c]
    /\ at' = [at EXCEPT ![c] = Nowhere]
    /\ joined' = [joined EXCEPT ![c] = FALSE]
    /\ queue' = [queue EXCEPT ![c] = <<>>]
    /\ seen' = [seen EXCEPT ![c] = 0]
    /\ owed' = [owed EXCEPT ![c] = {}]
    /\ targets' = [p \in Pods |-> targets[p] \ {c}]
    /\ UNCHANGED <<redis, thread, lastId, newest, top, messages, faults>>

-----------------------------------------------------------------------------
Next ==
    \/ Publish
    \/ \E p \in Pods : \/ Reader(p) \/ BootFails(p) \/ MaterializeFails(p)
                       \/ PersistFails(p) \/ Crash(p)
    \/ \E c \in Clients : \/ \E p \in Pods : Connect(c, p)
                          \/ Join(c) \/ Receive(c) \/ Disconnect(c)

Spec == Init /\ [][Next]_vars

\* A started thread runs; a client that leaves comes back (EventSource
\* reconnects, proxies cut a stream now and then).
ReaderFairness == \A p \in Pods : WF_vars(Reader(p))
ClientFairness == \A c \in Clients :
    /\ WF_vars(\E p \in Pods : Connect(c, p))
    /\ WF_vars(Join(c))
    /\ WF_vars(Receive(c))

LiveSpec ==
    Spec /\ ReaderFairness /\ ClientFairness /\ \A c \in Clients : WF_vars(Disconnect(c))

-----------------------------------------------------------------------------
TypeOK ==
    /\ published \in 0 .. MaxEvents
    /\ items \subseteq (1 .. published) \ Skipped
    /\ cursor \in 0 .. published
    /\ thread \in [Pods -> ThreadState]
    /\ lastId \in [Pods -> 0 .. published]
    /\ newest \in [Pods -> 0 .. published]
    /\ top \in [Pods -> 0 .. published]
    /\ messages \in [Pods -> SUBSET items]
    /\ targets \in [Pods -> SUBSET Clients]
    /\ at \in [Clients -> Pods \cup {Nowhere}]
    /\ joined \in [Clients -> BOOLEAN]
    /\ queue \in [Clients -> Seq(Nat)]
    /\ \A c \in Clients : Len(queue[c]) <= QueueSize
    /\ seen \in [Clients -> Nat]
    /\ owed \in [Clients -> SUBSET items]
    /\ faults \in 0 .. MaxFaults

\* Whatever crashes, and whichever pod persisted last, no event at or before
\* the persisted position is lost to GET /api/messages: a reader that starts
\* there misses nothing.
CursorCovered == \A e \in 1 .. cursor : e \in items \/ e \in Skipped

\* What one SSE connection is sent is in stream order and without repeats,
\* though batches are read again after a failure and full queues drop.
StreamInOrder ==
    \A c \in Clients :
        /\ \A i \in 1 .. Len(queue[c]) : seen[c] < queue[c][i]
        /\ \A i, j \in 1 .. Len(queue[c]) : i < j => queue[c][i] < queue[c][j]

\* Without a failure, the reader never turns to the next batch while a client
\* that was connected when a message was materialized has not had it put in its
\* queue: the list of queues is copied late enough.
NoMessageSkipped ==
    \A p \in Pods, c \in Clients :
        (faults = 0 /\ thread[p] = "read" /\ at[c] = p) => owed[c] = {}

\* The system is a durable cursor over the stream: the copies pods and readers
\* hold, the queues and the clients are forgotten.
Promise == INSTANCE DurableCursor WITH
    Skipped <- Skipped, published <- published, items <- items, cursor <- cursor
ImplementsPromise == Promise!DSpec

\* Once failures stop, every message reaches the list, provided that clients
\* come and go: only a connecting client starts a reader.
EveryMessageListed ==
    \A e \in (1 .. MaxEvents) \ Skipped : (published >= e) ~> (e \in items)

=============================================================================
