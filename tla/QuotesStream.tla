---------------------------- MODULE QuotesStream ----------------------------
(***************************************************************************)
(* Live quotes of the market app: GET /quotes asks for symbols to be       *)
(* streamed, POST /quotes/cleanup takes them back, a subscriber thread     *)
(* loads the tick a notification names and hands it to the event loop once *)
(* per client of GET /quotes/stream.  The thread is started with the       *)
(* process, if Redis is there, and by nothing else.                        *)
(*                                                                         *)
(* Ticks of all symbols are numbered in the order they happen.             *)
(***************************************************************************)
EXTENDS Integers, Sequences

CONSTANTS
    Symbols,
    Clients,      \* EventSource connections
    QueueSize,    \* maxsize of a client's queue
    MaxTicks,     \* bound: ticks of one behaviour
    MaxOutages,   \* bound: times Redis goes away or the process is replaced
    MaxCleanups   \* bound: calls of POST /quotes/cleanup

ASSUME BoundsAssumption ==
    /\ Symbols # {}
    /\ QueueSize \in Nat \ {0}
    /\ MaxTicks \in Nat /\ MaxOutages \in Nat /\ MaxCleanups \in Nat

VARIABLES
    available,    \* rq.available
    outages,
    demanded,     \* the on-demand set
    tick,         \* the tick key of a symbol; 0: there is none
    ticks,        \* ticks so far
    channel,      \* notifications on their way to the subscriber
    thread,       \* redis-quotes-subscriber
    quote,        \* the quote it is broadcasting
    targets,      \* the clients it has yet to hand it to
    calls,        \* call_soon_threadsafe: callbacks the loop has not run
    joined,       \* clients whose queue is in sse_queues
    queue,
    seen,         \* per client, the newest tick of each symbol it was sent
    cleanup,      \* the symbols the cleanup under way will remove
    cleanups,
    due,          \* history: per client, ticks of each symbol notified while joined
    last,         \* history: per client, the last quote copied for it
    lossy         \* history: clients whose queue or channel has lost something

source == <<available, outages, demanded, tick, ticks>>
sub == <<thread, quote, targets>>
stream == <<joined, queue, seen>>
clearing == <<cleanup, cleanups>>
past == <<due, last, lossy>>
vars == <<source, channel, sub, calls, stream, clearing, past>>

-----------------------------------------------------------------------------
ThreadState == {"off", "wait", "copy", "send"}
Quote == [sym : Symbols, n : 1 .. MaxTicks]
Untold == [s \in Symbols |-> 0]

\* Mutant: a full queue keeps what it has.
PutDropNewest(q, x) == IF Len(q) < QueueSize THEN Append(q, x) ELSE q

\* put_nowait_drop_oldest
PutDropOldest(q, x) == Append(IF Len(q) < QueueSize THEN q ELSE Tail(q), x)

Init ==
    /\ available \in BOOLEAN
    /\ thread = IF available THEN "wait" ELSE "off"
    /\ outages = 0 /\ demanded = {} /\ tick = Untold /\ ticks = 0
    /\ channel = <<>> /\ calls = <<>>
    /\ quote = [sym |-> CHOOSE s \in Symbols : TRUE, n |-> 1] /\ targets = {}
    /\ joined = {}
    /\ queue = [c \in Clients |-> <<>>]
    /\ seen = [c \in Clients |-> Untold]
    /\ cleanup = {} /\ cleanups = 0
    /\ due = [c \in Clients |-> Untold]
    /\ last = [c \in Clients |-> 0]
    /\ lossy = {}

-----------------------------------------------------------------------------
\* External: the ingestor streams what is demanded, writes the tick key and
\* notifies whoever listens.
Tick(s) ==
    /\ available /\ s \in demanded /\ ticks < MaxTicks
    /\ ticks' = ticks + 1
    /\ tick' = [tick EXCEPT ![s] = ticks']
    /\ IF thread = "off" THEN UNCHANGED <<channel, due>>
       ELSE /\ channel' = Append(channel, s)
            /\ due' = [c \in Clients |-> IF c \in joined
                                         THEN [due[c] EXCEPT ![s] = ticks'] ELSE due[c]]
    /\ UNCHANGED <<available, outages, demanded, sub, calls, stream, clearing, last, lossy>>

\* Notifications are not kept for a subscriber that has lost its connection.
RedisDown ==
    /\ available /\ outages < MaxOutages
    /\ available' = FALSE /\ outages' = outages + 1
    /\ channel' = <<>>
    /\ lossy' = joined
    /\ UNCHANGED <<demanded, tick, ticks, sub, calls, stream, clearing, due, last>>

RedisUp ==
    /\ ~available
    /\ available' = TRUE
    /\ UNCHANGED <<outages, demanded, tick, ticks, channel, sub, calls, stream,
                   clearing, past>>

\* The process is replaced: its startup looks at Redis once.
Startup ==
    /\ outages < MaxOutages /\ outages' = outages + 1
    /\ thread' = IF available THEN "wait" ELSE "off"
    /\ targets' = {} /\ channel' = <<>> /\ calls' = <<>>
    /\ joined' = {}
    /\ queue' = [c \in Clients |-> <<>>]
    /\ seen' = [c \in Clients |-> Untold]
    /\ cleanup' = {}
    /\ due' = [c \in Clients |-> Untold]
    /\ last' = [c \in Clients |-> 0]
    /\ lossy' = {}
    /\ UNCHANGED <<available, demanded, tick, ticks, quote, cleanups>>

-----------------------------------------------------------------------------
\* GET /quotes: ensure_on_demand_stk, before the ticks are read.
Register(s) ==
    /\ available
    /\ demanded' = demanded \cup {s}
    /\ UNCHANGED <<available, outages, tick, ticks, channel, sub, calls, stream,
                   clearing, past>>

\* POST /quotes/cleanup: SMEMBERS ...
CleanupList(keep) ==
    /\ available /\ cleanup = {} /\ cleanups < MaxCleanups
    /\ cleanups' = cleanups + 1
    /\ cleanup' = demanded \ keep
    /\ UNCHANGED <<source, channel, sub, calls, stream, past>>

\* ... and what remove_on_demand_stk is told to take off, polled again or not.
CleanupRemove ==
    /\ available /\ cleanup # {}
    /\ demanded' = demanded \ cleanup
    /\ tick' = [s \in Symbols |-> IF s \in cleanup THEN 0 ELSE tick[s]]
    /\ due' = [c \in Clients |-> [s \in Symbols |-> IF s \in cleanup THEN 0 ELSE due[c][s]]]
    /\ cleanup' = {}
    /\ UNCHANGED <<available, outages, ticks, channel, sub, calls, stream, cleanups,
                   last, lossy>>

\* The removal raised: 503, and the symbols stay.
CleanupFails ==
    /\ cleanup # {}
    /\ cleanup' = {}
    /\ UNCHANGED <<source, channel, sub, calls, stream, cleanups, past>>

-----------------------------------------------------------------------------
\* Mutant: of the notifications waiting only the newest is handled.
HearNewest ==
    /\ thread = "wait" /\ channel # <<>>
    /\ channel' = <<>>
    /\ LET s == channel[Len(channel)] IN
        IF tick[s] = 0 THEN UNCHANGED <<thread, quote>>
        ELSE /\ thread' = "copy"
             /\ quote' = [sym |-> s, n |-> tick[s]]
    /\ UNCHANGED <<source, targets, calls, stream, clearing, past>>

\* External run_subscribe_loop: the tick is loaded when its notification is
\* handled, and may be newer than it, or gone.
Hear ==
    /\ thread = "wait" /\ channel # <<>>
    /\ channel' = Tail(channel)
    /\ LET s == Head(channel) IN
        IF tick[s] = 0 THEN UNCHANGED <<thread, quote>>
        ELSE /\ thread' = "copy"
             /\ quote' = [sym |-> s, n |-> tick[s]]
    /\ UNCHANGED <<source, targets, calls, stream, clearing, past>>

\* Mutant: clients whose queue is full are left out.
CopyQueuesWithRoom ==
    /\ thread = "copy"
    /\ thread' = "send"
    /\ targets' = {c \in joined : Len(queue[c]) < QueueSize}
    /\ last' = [c \in Clients |-> IF c \in targets' THEN quote.n ELSE last[c]]
    /\ UNCHANGED <<source, channel, quote, calls, stream, clearing, due, lossy>>

\* _broadcast_quote: the list is copied under its lock ...
CopyQueues ==
    /\ thread = "copy"
    /\ thread' = "send"
    /\ targets' = joined
    /\ last' = [c \in Clients |-> IF c \in joined THEN quote.n ELSE last[c]]
    /\ UNCHANGED <<source, channel, quote, calls, stream, clearing, due, lossy>>

\* ... and every queue on it gets a callback on the loop.
Send ==
    /\ thread = "send"
    /\ IF targets = {} THEN thread' = "wait" /\ UNCHANGED <<targets, calls>>
       ELSE \E c \in targets :
            /\ targets' = targets \ {c}
            /\ calls' = Append(calls, [to |-> c, live |-> TRUE, quote |-> quote])
            /\ UNCHANGED thread
    /\ UNCHANGED <<source, channel, quote, stream, clearing, past>>

\* Into the queue the callback was made for, which may be nobody's by now.
Put(call) ==
    IF ~call.live THEN UNCHANGED <<source, channel, sub, stream, clearing, past>> ELSE
    /\ queue' = [queue EXCEPT ![call.to] = PutDropOldest(@, call.quote)]
    /\ lossy' = IF Len(queue[call.to]) < QueueSize THEN lossy ELSE lossy \cup {call.to}
    /\ UNCHANGED <<source, channel, sub, joined, seen, clearing, due, last>>

\* Mutant: callbacks run in any order.
RunAnyCall == \E i \in 1 .. Len(calls) :
    /\ calls' = SubSeq(calls, 1, i - 1) \o SubSeq(calls, i + 1, Len(calls))
    /\ Put(calls[i])

RunCall ==
    /\ calls # <<>>
    /\ calls' = Tail(calls)
    /\ Put(Head(calls))

\* GET /quotes/stream
Connect(c) ==
    /\ available /\ c \notin joined
    /\ joined' = joined \cup {c}
    /\ UNCHANGED <<source, channel, sub, calls, queue, seen, clearing, past>>

Receive(c) ==
    /\ c \in joined /\ queue[c] # <<>>
    /\ queue' = [queue EXCEPT ![c] = Tail(@)]
    /\ seen' = [seen EXCEPT ![c][Head(queue[c]).sym] = Head(queue[c]).n]
    /\ UNCHANGED <<source, channel, sub, calls, joined, clearing, past>>

\* The generator ends.  What is still put in its queue reaches nobody, and the
\* client's next connection has a queue of its own.
Disconnect(c) ==
    /\ c \in joined
    /\ joined' = joined \ {c} /\ targets' = targets \ {c}
    /\ calls' = [i \in DOMAIN calls |-> IF calls[i].to = c THEN [calls[i] EXCEPT !.live = FALSE]
                                                          ELSE calls[i]]
    /\ queue' = [queue EXCEPT ![c] = <<>>]
    /\ seen' = [seen EXCEPT ![c] = Untold]
    /\ due' = [due EXCEPT ![c] = Untold]
    /\ last' = [last EXCEPT ![c] = 0]
    /\ lossy' = lossy \ {c}
    /\ UNCHANGED <<source, channel, thread, quote, clearing>>

Subscriber == Hear \/ CopyQueues \/ Send

Next ==
    \/ \E s \in Symbols : Tick(s) \/ Register(s)
    \/ RedisDown \/ RedisUp \/ Startup
    \/ \E keep \in SUBSET Symbols : CleanupList(keep)
    \/ CleanupRemove \/ CleanupFails
    \/ Subscriber \/ RunCall
    \/ \E c \in Clients : Connect(c) \/ Receive(c) \/ Disconnect(c)

Spec == Init /\ [][Next]_vars

\* A started thread runs, the loop runs its callbacks and its generators.
Fairness ==
    /\ WF_vars(Subscriber) /\ WF_vars(RunCall)
    /\ \A c \in Clients : WF_vars(Receive(c))

LiveSpec == Spec /\ Fairness

-----------------------------------------------------------------------------
TypeOK ==
    /\ available \in BOOLEAN /\ outages \in 0 .. MaxOutages
    /\ demanded \subseteq Symbols
    /\ ticks \in 0 .. MaxTicks /\ tick \in [Symbols -> 0 .. ticks]
    /\ channel \in Seq(Symbols)
    /\ thread \in ThreadState
    /\ quote \in [sym : Symbols, n : Nat]
    /\ targets \subseteq joined /\ joined \subseteq Clients
    /\ calls \in Seq([to : Clients, live : BOOLEAN, quote : Quote])
    /\ queue \in [Clients -> Seq(Quote)]
    /\ \A c \in Clients : Len(queue[c]) <= QueueSize
    /\ seen \in [Clients -> [Symbols -> 0 .. MaxTicks]]
    /\ cleanup \subseteq Symbols
    /\ cleanups \in 0 .. MaxCleanups
    /\ due \in [Clients -> [Symbols -> 0 .. MaxTicks]]
    /\ last \in [Clients -> 0 .. MaxTicks]
    /\ lossy \subseteq Clients

\* The price of a symbol never goes back on a connection, though a tick is
\* loaded after its notification and handed over by two threads.
NeverBackwards ==
    [][\A c \in joined \cap joined', s \in Symbols : seen'[c][s] >= seen[c][s]]_vars

Drained(c) == channel = <<>> /\ thread = "wait" /\ calls = <<>> /\ queue[c] = <<>>

\* Whatever a slow client's queue has dropped, the last quote broadcast while
\* it was connected is not among it.
LastQuoteArrives ==
    \A c \in joined :
        (Drained(c) /\ last[c] # 0) => \E s \in Symbols : seen[c][s] = last[c]

\* A client whose queue never overflowed has, once everything on its way has
\* arrived, the newest tick of every symbol that ticked while it was connected.
CaughtUp ==
    \A c \in joined \ lossy :
        Drained(c) => \A s \in Symbols : due[c][s] <= seen[c][s]

\* A tick notified to a running subscriber reaches every client connected then,
\* unless the client leaves or loses something, or the symbol is taken off.
TickArrives ==
    \A c \in Clients, s \in Symbols, n \in 1 .. MaxTicks :
        (c \in joined /\ due[c][s] = n)
            ~> (c \notin joined \/ c \in lossy \/ due[c][s] # n \/ seen[c][s] >= n)

=============================================================================
