------------------------- MODULE QuotesStreamProofs -------------------------
(***************************************************************************)
(* The quotes stream for any number of symbols, ticks and clients and any  *)
(* size of their queues.  Whatever is on its way to a client (in a         *)
(* callback the loop has not run, in its queue) or has arrived is in the   *)
(* order of the ticks, symbol by symbol, and no newer than the quote being *)
(* broadcast and than the tick key, which is what the next quote will be.  *)
(***************************************************************************)
EXTENDS QuotesStream, TLAPS

\* The callback k will put its quote in c's queue.
Live(k, c) == calls[k].live /\ calls[k].to = c

\* Tick n of s is the last one c was sent of it, or in its queue, or on its way there.
Has(c, s, n) ==
    \/ seen[c][s] = n
    \/ \E i \in DOMAIN queue[c] : queue[c][i].sym = s /\ queue[c][i].n = n
    \/ \E k \in DOMAIN calls : Live(k, c) /\ calls[k].quote.sym = s /\ calls[k].quote.n = n

\* The thread has a quote it may still hand to c.
InHand(c) == thread = "copy" \/ c \in targets

ThreadInv ==
    /\ thread \in {"copy", "send"} => quote \in Quote
    /\ thread # "send" => targets = {}

\* A client that is not there is owed nothing, and nothing is on its way.
GoneInv == \A c \in Clients \ joined :
    /\ last[c] = 0 /\ due[c] = Untold /\ seen[c] = Untold /\ queue[c] = <<>>
    /\ \A k \in DOMAIN calls : ~Live(k, c)

\* What of c comes first is not newer than what of the same symbol comes later.
InOrder(c) ==
    /\ \A i \in DOMAIN queue[c] : seen[c][queue[c][i].sym] <= queue[c][i].n
    /\ \A k \in DOMAIN calls : Live(k, c) => seen[c][calls[k].quote.sym] <= calls[k].quote.n
    /\ \A i, j \in DOMAIN queue[c] :
        i < j /\ queue[c][i].sym = queue[c][j].sym => queue[c][i].n <= queue[c][j].n
    /\ \A i \in DOMAIN queue[c], k \in DOMAIN calls :
        Live(k, c) /\ queue[c][i].sym = calls[k].quote.sym => queue[c][i].n <= calls[k].quote.n
    /\ \A k, l \in DOMAIN calls :
        k < l /\ Live(k, c) /\ Live(l, c) /\ calls[k].quote.sym = calls[l].quote.sym
            => calls[k].quote.n <= calls[l].quote.n

OrderInv == \A c \in Clients : InOrder(c)

\* What c has is no newer than what it will be sent next.
UptoInv == \A c \in Clients, s \in Symbols, n \in Nat : Has(c, s, n) =>
    /\ n <= ticks
    /\ tick[s] # 0 => n <= tick[s]
    /\ thread \in {"copy", "send"} /\ quote.sym = s => n <= quote.n

\* The quote being broadcast is no newer than the tick key.
QuoteInv == thread \in {"copy", "send"} =>
    /\ quote.n <= ticks
    /\ tick[quote.sym] # 0 => quote.n <= tick[quote.sym]

\* The last quote broadcast to c is the last thing that is on its way to it, or
\* the last that arrived.
NoCall(c) == \A k \in DOMAIN calls : ~Live(k, c)
LastCall(k, c) == Live(k, c) /\ \A l \in DOMAIN calls : k < l => ~Live(l, c)

LastInv == \A c \in joined : last[c] # 0 =>
    /\ c \in targets => quote.n = last[c]
    /\ c \notin targets =>
        /\ \A k \in DOMAIN calls : LastCall(k, c) => calls[k].quote.n = last[c]
        /\ NoCall(c) /\ queue[c] # <<>> => queue[c][Len(queue[c])].n = last[c]
        /\ NoCall(c) /\ queue[c] = <<>> => \E s \in Symbols : seen[c][s] = last[c]

\* What c is owed of s is notified, in hand, or among what it has.
Owed(c, s) ==
    \/ \E i \in DOMAIN channel : channel[i] = s
    \/ InHand(c) /\ quote.sym = s /\ due[c][s] <= quote.n
    \/ \E n \in 0 .. MaxTicks : due[c][s] <= n /\ Has(c, s, n)

DueInv ==
    /\ \A c \in Clients, s \in Symbols : due[c][s] <= tick[s]
    /\ \A c \in joined \ lossy, s \in Symbols : due[c][s] # 0 => Owed(c, s)

IInv == TypeOK /\ ThreadInv /\ GoneInv /\ OrderInv /\ UptoInv /\ QuoteInv /\ LastInv /\ DueInv

-----------------------------------------------------------------------------
(* Sequences. *)

LEMMA ElementOf ==
  ASSUME NEW S, NEW q \in Seq(S), NEW i \in DOMAIN q
  PROVE  q[i] \in S /\ i \in Nat /\ i >= 1 /\ i <= Len(q)
OBVIOUS

LEMMA TailFacts ==
  ASSUME NEW S, NEW q \in Seq(S), q # <<>>
  PROVE  /\ Tail(q) \in Seq(S) /\ Len(Tail(q)) = Len(q) - 1
         /\ 1 \in DOMAIN q /\ Head(q) = q[1] /\ q[1] \in S
         /\ \A i \in DOMAIN Tail(q) : i + 1 \in DOMAIN q /\ Tail(q)[i] = q[i + 1]
         /\ \A i \in DOMAIN q : i = 1 \/ (i - 1 \in DOMAIN Tail(q) /\ q[i] = Tail(q)[i - 1])
OBVIOUS

LEMMA AppendFacts ==
  ASSUME NEW S, NEW q \in Seq(S), NEW x \in S
  PROVE  /\ Append(q, x) \in Seq(S) /\ Len(Append(q, x)) = Len(q) + 1
         /\ DOMAIN Append(q, x) = DOMAIN q \cup {Len(q) + 1}
         /\ \A i \in DOMAIN q : Append(q, x)[i] = q[i] /\ i < Len(q) + 1
         /\ Append(q, x)[Len(q) + 1] = x
OBVIOUS

\* r is q with x behind it, without its first element if it was full.
IsPut(q, x, r) ==
    /\ r \in Seq(Quote) /\ Len(r) \in 1 .. QueueSize /\ r[Len(r)] = x
    /\ \E d \in {0, 1} :
        /\ Len(q) < QueueSize => d = 0
        /\ Len(r) = Len(q) + 1 - d
        /\ \A i \in DOMAIN r : i = Len(r) \/ (i + d \in DOMAIN q /\ r[i] = q[i + d])
        /\ \A i \in DOMAIN q : i > d => i - d \in DOMAIN r /\ i - d < Len(r) /\ r[i - d] = q[i]

LEMMA PutFacts ==
  ASSUME NEW q \in Seq(Quote), NEW x \in Quote, Len(q) <= QueueSize
  PROVE  IsPut(q, x, PutDropOldest(q, x))
<1> SUFFICES ASSUME NEW r, r = PutDropOldest(q, x) PROVE IsPut(q, x, r)
  OBVIOUS
<1>1. CASE Len(q) < QueueSize
  <2>1. r = Append(q, x)
    BY <1>1 DEF PutDropOldest
  <2>2. /\ r \in Seq(Quote) /\ Len(r) = Len(q) + 1 /\ DOMAIN r = DOMAIN q \cup {Len(q) + 1}
        /\ \A i \in DOMAIN q : r[i] = q[i] /\ i < Len(r)
        /\ r[Len(r)] = x
    BY <2>1, AppendFacts
  <2>3. Len(r) \in 1 .. QueueSize
    BY <1>1, <2>2, BoundsAssumption
  <2>4. \A i \in DOMAIN q : i \in Nat /\ i + 0 = i /\ i - 0 = i
    OBVIOUS
  <2> QED BY <2>2, <2>3, <2>4 DEF IsPut
<1>2. CASE Len(q) = QueueSize
  <2>1. q # <<>>
    BY <1>2, BoundsAssumption
  <2> DEFINE t == Tail(q)
  <2>2. r = Append(t, x)
    BY <1>2, BoundsAssumption DEF PutDropOldest
  <2>3. /\ t \in Seq(Quote) /\ Len(t) = Len(q) - 1
        /\ \A i \in DOMAIN t : i + 1 \in DOMAIN q /\ t[i] = q[i + 1]
        /\ \A i \in DOMAIN q : i = 1 \/ (i - 1 \in DOMAIN t /\ q[i] = t[i - 1])
    BY <2>1, TailFacts
  <2> HIDE DEF t
  <2>4. /\ r \in Seq(Quote) /\ Len(r) = Len(t) + 1 /\ DOMAIN r = DOMAIN t \cup {Len(t) + 1}
        /\ \A i \in DOMAIN t : r[i] = t[i] /\ i < Len(r)
        /\ r[Len(r)] = x
    BY <2>2, <2>3, AppendFacts
  <2>5. Len(q) \in Nat /\ Len(r) = Len(q) /\ Len(r) \in 1 .. QueueSize
    BY <1>2, <2>3, <2>4, BoundsAssumption
  <2>6. \A i \in DOMAIN r : i = Len(r) \/ (i + 1 \in DOMAIN q /\ r[i] = q[i + 1])
    BY <2>3, <2>4
  <2>7. \A i \in DOMAIN q : i > 1 => i - 1 \in DOMAIN r /\ i - 1 < Len(r) /\ r[i - 1] = q[i]
    BY <2>3, <2>4
  <2> QED BY <1>2, <2>4, <2>5, <2>6, <2>7 DEF IsPut
<1> QED BY <1>1, <1>2, BoundsAssumption

-----------------------------------------------------------------------------
(* Steps that leave alone what is on its way. *)

LEMMA SamePipe ==
  ASSUME UNCHANGED <<calls, queue, seen>>
  PROVE  /\ \A c : InOrder(c)' <=> InOrder(c)
         /\ \A c, s, n : Has(c, s, n)' <=> Has(c, s, n)
         /\ \A k, c : Live(k, c)' <=> Live(k, c)
         /\ \A c : NoCall(c)' <=> NoCall(c)
         /\ \A k, c : LastCall(k, c)' <=> LastCall(k, c)
  BY DEF InOrder, Has, Live, NoCall, LastCall

\* What is on its way is a quote, what has arrived a tick.
LEMMA Elements ==
  ASSUME TypeOK
  PROVE  /\ \A c \in Clients : /\ queue[c] \in Seq(Quote)
                              /\ \A s \in Symbols : seen[c][s] \in Nat /\ seen[c][s] \in 0 .. MaxTicks
                              /\ \A i \in DOMAIN queue[c] :
                                    /\ queue[c][i] \in Quote /\ queue[c][i].sym \in Symbols
                                    /\ queue[c][i].n \in Nat /\ queue[c][i].n \in 0 .. MaxTicks
         /\ \A k \in DOMAIN calls :
                /\ calls[k].to \in Clients
                /\ calls[k].quote \in Quote /\ calls[k].quote.sym \in Symbols
                /\ calls[k].quote.n \in Nat /\ calls[k].quote.n \in 0 .. MaxTicks
<1>1. \A q \in Quote : q.sym \in Symbols /\ q.n \in Nat /\ q.n \in 0 .. MaxTicks
  BY BoundsAssumption DEF Quote
<1>2. ASSUME NEW c \in Clients
      PROVE  /\ queue[c] \in Seq(Quote)
             /\ \A s \in Symbols : seen[c][s] \in Nat /\ seen[c][s] \in 0 .. MaxTicks
             /\ \A i \in DOMAIN queue[c] : queue[c][i] \in Quote
  <2>1. queue[c] \in Seq(Quote) /\ seen[c] \in [Symbols -> 0 .. MaxTicks]
    BY DEF TypeOK
  <2> QED BY <2>1, BoundsAssumption
<1>3. ASSUME NEW k \in DOMAIN calls
      PROVE  calls[k].to \in Clients /\ calls[k].quote \in Quote
  <2>1. calls \in Seq([to : Clients, live : BOOLEAN, quote : Quote])
    BY DEF TypeOK
  <2>2. calls[k] \in [to : Clients, live : BOOLEAN, quote : Quote]
    BY <2>1, ElementOf
  <2> QED BY <2>2
<1> QED BY <1>1, <1>2, <1>3

LEMMA InitHolds == Init => IInv
<1> SUFFICES ASSUME Init PROVE IInv
  OBVIOUS
<1>1. (CHOOSE s \in Symbols : TRUE) \in Symbols
  BY BoundsAssumption
<1>2. TypeOK
  BY <1>1, BoundsAssumption DEF Init, TypeOK, ThreadState, Quote, Untold
<1>3. ThreadInv /\ GoneInv /\ OrderInv /\ QuoteInv /\ LastInv
  BY DEF Init, ThreadInv, GoneInv, OrderInv, InOrder, QuoteInv, LastInv, Live
<1>4. UptoInv /\ DueInv
  BY DEF Init, UptoInv, DueInv, Has, Live, Untold
<1> QED BY <1>2, <1>3, <1>4 DEF IInv

LEMMA TickKeeps ==
  ASSUME IInv, NEW s \in Symbols, Tick(s)
  PROVE  IInv'
<1> TypeOK
  BY DEF IInv
<1>1. /\ ticks' = ticks + 1 /\ ticks' \in 0 .. MaxTicks /\ ticks \in Nat
      /\ tick' = [tick EXCEPT ![s] = ticks']
      /\ tick \in [Symbols -> 0 .. ticks]
      /\ UNCHANGED <<available, outages, demanded, calls, queue, seen, thread, quote, targets,
                     joined, cleanup, cleanups, last, lossy>>
  BY BoundsAssumption DEF TypeOK, Tick, sub, stream, clearing
<1>2. /\ tick' \in [Symbols -> 0 .. ticks']
      /\ tick'[s] = ticks' /\ \A t \in Symbols : tick[t] <= tick'[t] /\ (t # s => tick'[t] = tick[t])
  BY <1>1
<1>3. /\ channel' \in Seq(Symbols)
      /\ \A i \in DOMAIN channel : i \in DOMAIN channel' /\ channel'[i] = channel[i]
      /\ thread # "off" => \E i \in DOMAIN channel' : channel'[i] = s
  <2>1. channel \in Seq(Symbols)
    BY DEF TypeOK
  <2>2. CASE thread = "off"
    BY <2>1, <2>2 DEF Tick
  <2>3. CASE thread # "off"
    <3>1. channel' = Append(channel, s)
      BY <2>3 DEF Tick
    <3> QED BY <2>1, <3>1, AppendFacts
  <2> QED BY <2>2, <2>3
<1>4. /\ due' \in [Clients -> [Symbols -> 0 .. MaxTicks]]
      /\ \A c \in Clients \ joined : due'[c] = due[c]
      /\ \A c \in Clients, t \in Symbols :
            \/ due'[c][t] = due[c][t]
            \/ thread # "off" /\ t = s /\ due'[c][t] = ticks'
  <2>1. due \in [Clients -> [Symbols -> 0 .. MaxTicks]]
    BY DEF TypeOK
  <2>2. CASE thread = "off"
    <3>1. due' = due
      BY <2>2 DEF Tick
    <3> QED BY <2>1, <3>1
  <2>3. CASE thread # "off"
    <3>1. due' = [c \in Clients |-> IF c \in joined
                                    THEN [due[c] EXCEPT ![s] = ticks'] ELSE due[c]]
      BY <2>3 DEF Tick
    <3> QED BY <1>1, <2>1, <2>3, <3>1
  <2> QED BY <2>2, <2>3
<1>5. TypeOK'
  BY <1>1, <1>2, <1>3, <1>4 DEF TypeOK
<1>6. ThreadInv' /\ OrderInv' /\ LastInv'
  BY <1>1, SamePipe DEF IInv, ThreadInv, OrderInv, LastInv
<1>7. GoneInv'
  BY <1>1, <1>4, SamePipe DEF IInv, GoneInv
<1>8. UptoInv'
  <2> SUFFICES ASSUME NEW c \in Clients, NEW t \in Symbols, NEW n \in Nat, Has(c, t, n)'
               PROVE  /\ n <= ticks'
                      /\ tick'[t] # 0 => n <= tick'[t]
                      /\ thread \in {"copy", "send"} /\ quote.sym = t => n <= quote.n
    BY <1>1 DEF UptoInv
  <2>1. Has(c, t, n)
    BY <1>1, SamePipe
  <2>2. /\ n <= ticks
        /\ tick[t] # 0 => n <= tick[t]
        /\ thread \in {"copy", "send"} /\ quote.sym = t => n <= quote.n
    BY <2>1 DEF IInv, UptoInv
  <2> QED BY <1>1, <1>2, <2>2
<1>9. QuoteInv'
  <2> SUFFICES ASSUME thread \in {"copy", "send"}
               PROVE  quote.n <= ticks' /\ (tick'[quote.sym] # 0 => quote.n <= tick'[quote.sym])
    BY <1>1 DEF QuoteInv
  <2>1. quote.sym \in Symbols /\ quote.n \in Nat
    BY DEF TypeOK
  <2>2. quote.n <= ticks /\ (tick[quote.sym] # 0 => quote.n <= tick[quote.sym])
    BY DEF IInv, QuoteInv
  <2> QED BY <1>1, <1>2, <2>1, <2>2
<1>10. DueInv'
  <2>1. ASSUME NEW c \in Clients, NEW t \in Symbols
        PROVE  due'[c][t] <= tick'[t]
    <3>1. due[c][t] <= tick[t] /\ due[c][t] \in Nat /\ tick[t] \in Nat /\ tick'[t] \in Nat
      BY <1>1, <1>2, <1>5 DEF IInv, TypeOK, DueInv
    <3> QED BY <1>1, <1>2, <1>4, <3>1
  <2>2. ASSUME NEW c \in joined \ lossy, NEW t \in Symbols, due'[c][t] # 0
        PROVE  Owed(c, t)'
    <3> c \in Clients
      BY DEF TypeOK
    <3>1. CASE due'[c][t] = due[c][t]
      <4>1. Owed(c, t)
        BY <2>2, <3>1 DEF IInv, DueInv
      <4> QED BY <1>1, <1>3, <3>1, <4>1, SamePipe DEF Owed, InHand
    <3>2. CASE thread # "off" /\ t = s
      BY <1>3, <3>2 DEF Owed
    <3> QED BY <1>4, <3>1, <3>2
  <2> QED BY <1>1, <2>1, <2>2 DEF DueInv
<1> QED BY <1>5, <1>6, <1>7, <1>8, <1>9, <1>10 DEF IInv

-----------------------------------------------------------------------------
(* Redis, the polling clients and the cleanup. *)

\* Steps that change neither what is on its way nor what the thread has in hand.
LEMMA SameInHand ==
  ASSUME IInv, UNCHANGED <<ticks, tick, thread, quote, targets, calls, joined, queue, seen, due, last>>
  PROVE  ThreadInv' /\ GoneInv' /\ OrderInv' /\ UptoInv' /\ QuoteInv' /\ LastInv'
<1>1. ThreadInv' /\ QuoteInv'
  BY DEF IInv, ThreadInv, QuoteInv
<1>2. GoneInv'
  BY SamePipe DEF IInv, GoneInv
<1>3. OrderInv' /\ UptoInv'
  BY SamePipe DEF IInv, OrderInv, UptoInv
<1>4. LastInv'
  BY SamePipe DEF IInv, LastInv
<1> QED BY <1>1, <1>2, <1>3, <1>4

\* ... nor the notifications.
LEMMA SameOwed ==
  ASSUME IInv, UNCHANGED <<tick, thread, quote, targets, calls, joined, queue, seen, due>>,
         lossy' = joined \/ (UNCHANGED <<channel, lossy>>)
  PROVE  DueInv'
<1>1. CASE lossy' = joined
  BY <1>1 DEF IInv, DueInv
<1>2. CASE UNCHANGED <<channel, lossy>>
  BY <1>2, SamePipe DEF IInv, DueInv, Owed, InHand
<1> QED BY <1>1, <1>2

LEMMA QuietKeeps ==
  ASSUME IInv,
         \/ RedisDown \/ RedisUp \/ CleanupFails
         \/ \E s \in Symbols : Register(s)
         \/ \E keep \in SUBSET Symbols : CleanupList(keep)
  PROVE  IInv'
<1>1. /\ UNCHANGED <<ticks, tick, thread, quote, targets, calls, joined, queue, seen, due, last>>
      /\ lossy' = joined \/ (UNCHANGED <<channel, lossy>>)
  BY DEF RedisDown, RedisUp, CleanupFails, Register, CleanupList, source, sub, stream, clearing, past
<1>2. TypeOK'
  <2> DEFINE Typed ==
        /\ available' \in BOOLEAN /\ outages' \in 0 .. MaxOutages
        /\ demanded' \subseteq Symbols /\ cleanup' \subseteq Symbols /\ cleanups' \in 0 .. MaxCleanups
        /\ channel' \in Seq(Symbols) /\ lossy' \subseteq Clients
  <2>1. Typed
    <3>1. CASE RedisDown
      <4>1. /\ available' = FALSE /\ outages' = outages + 1 /\ outages < MaxOutages
            /\ channel' = <<>> /\ lossy' = joined
            /\ UNCHANGED <<demanded, cleanup, cleanups>>
        BY <3>1 DEF RedisDown, clearing
      <4>2. outages' \in 0 .. MaxOutages
        BY <4>1, BoundsAssumption DEF IInv, TypeOK
      <4>3. channel' \in Seq(Symbols)
        BY <4>1
      <4> QED BY <4>1, <4>2, <4>3 DEF IInv, TypeOK
    <3>2. CASE RedisUp
      BY <3>2 DEF IInv, TypeOK, RedisUp, clearing, past
    <3>3. CASE CleanupFails
      BY <3>3 DEF IInv, TypeOK, CleanupFails, source, past
    <3>4. ASSUME NEW s \in Symbols, Register(s) PROVE  Typed
      BY <3>4 DEF IInv, TypeOK, Register, clearing, past
    <3>5. ASSUME NEW keep \in SUBSET Symbols, CleanupList(keep) PROVE  Typed
      BY <3>5, BoundsAssumption DEF IInv, TypeOK, CleanupList, source, past
    <3> QED BY <3>1, <3>2, <3>3, <3>4, <3>5
  <2> QED BY <1>1, <2>1 DEF IInv, TypeOK
<1> QED BY <1>1, <1>2, SameInHand, SameOwed DEF IInv

LEMMA StartupKeeps ==
  ASSUME IInv, Startup
  PROVE  IInv'
<1>1. TypeOK'
  BY BoundsAssumption DEF IInv, TypeOK, Startup, ThreadState, Untold
<1>2. ThreadInv' /\ GoneInv' /\ OrderInv' /\ QuoteInv' /\ LastInv'
  BY DEF Startup, ThreadInv, GoneInv, OrderInv, InOrder, QuoteInv, LastInv, Live
<1>3. UptoInv'
  BY DEF IInv, TypeOK, Startup, UptoInv, Has, Live, Untold
<1>4. DueInv'
  BY DEF IInv, TypeOK, Startup, DueInv, Untold
<1> QED BY <1>1, <1>2, <1>3, <1>4 DEF IInv

LEMMA CleanupRemoveKeeps ==
  ASSUME IInv, CleanupRemove
  PROVE  IInv'
<1>1. /\ UNCHANGED <<available, outages, ticks, channel, thread, quote, targets, calls, joined, queue,
                     seen, cleanups, last, lossy>>
      /\ tick' = [s \in Symbols |-> IF s \in cleanup THEN 0 ELSE tick[s]]
      /\ due' = [c \in Clients |-> [s \in Symbols |-> IF s \in cleanup THEN 0 ELSE due[c][s]]]
      /\ demanded' = demanded \ cleanup /\ cleanup' = {}
  BY DEF CleanupRemove, sub, stream
<1>2. \A s \in Symbols : tick'[s] = tick[s] \/ tick'[s] = 0
  BY <1>1
<1>3. \A c \in Clients, s \in Symbols :
        \/ due'[c][s] = 0
        \/ due'[c][s] = due[c][s] /\ tick'[s] = tick[s]
  BY <1>1
<1>4. TypeOK'
  BY <1>1, BoundsAssumption DEF IInv, TypeOK
<1>5. ThreadInv' /\ OrderInv' /\ LastInv'
  BY <1>1, SamePipe DEF IInv, ThreadInv, OrderInv, LastInv
<1>6. GoneInv'
  <2>1. ASSUME NEW c \in Clients, due[c] = Untold PROVE due'[c] = Untold
    BY <1>1, <2>1 DEF Untold
  <2> QED BY <1>1, <2>1, SamePipe DEF IInv, GoneInv
<1>7. UptoInv'
  BY <1>1, <1>2, SamePipe DEF IInv, UptoInv
<1>8. QuoteInv'
  BY <1>1, <1>2 DEF IInv, TypeOK, QuoteInv
<1>9. DueInv'
  <2>1. ASSUME NEW c \in Clients, NEW s \in Symbols
        PROVE  due'[c][s] <= tick'[s]
    <3>1. due[c][s] <= tick[s] /\ tick'[s] \in Nat
      BY <1>4 DEF IInv, TypeOK, DueInv
    <3> QED BY <1>3, <3>1
  <2>2. ASSUME NEW c \in joined \ lossy, NEW s \in Symbols, due'[c][s] # 0
        PROVE  Owed(c, s)'
    <3>1. due'[c][s] = due[c][s] /\ Owed(c, s)
      BY <1>3, <2>2 DEF IInv, TypeOK, DueInv
    <3> QED BY <1>1, <3>1, SamePipe DEF Owed, InHand
  <2> QED BY <1>1, <2>1, <2>2 DEF DueInv
<1> QED BY <1>4, <1>5, <1>6, <1>7, <1>8, <1>9 DEF IInv

-----------------------------------------------------------------------------
(* The subscriber thread. *)

LEMMA HearKeeps ==
  ASSUME IInv, Hear
  PROVE  IInv'
<1> DEFINE s == Head(channel)
<1> TypeOK
  BY DEF IInv
<1>1. /\ thread = "wait" /\ channel # <<>> /\ channel' = Tail(channel)
      /\ UNCHANGED <<available, outages, demanded, tick, ticks, targets, calls, joined, queue, seen,
                     cleanup, cleanups, due, last, lossy>>
  BY DEF Hear, source, stream, clearing, past
<1>2. \/ tick[s] = 0 /\ UNCHANGED <<thread, quote>>
      \/ tick[s] # 0 /\ thread' = "copy" /\ quote' = [sym |-> s, n |-> tick[s]]
  BY DEF Hear
<1>3. /\ channel' \in Seq(Symbols) /\ s \in Symbols
      /\ \A i \in DOMAIN channel : channel[i] = s \/ \E j \in DOMAIN channel' : channel'[j] = channel[i]
  <2>1. channel \in Seq(Symbols)
    BY DEF TypeOK
  <2>2. /\ channel' \in Seq(Symbols) /\ s = channel[1] /\ s \in Symbols
        /\ \A i \in DOMAIN channel :
            i = 1 \/ (i - 1 \in DOMAIN channel' /\ channel[i] = channel'[i - 1])
    BY <1>1, <2>1, TailFacts
  <2> QED BY <2>2
<1> HIDE DEF s
<1>4. ticks \in 0 .. MaxTicks /\ tick \in [Symbols -> 0 .. ticks] /\ tick[s] \in 0 .. ticks
  BY <1>3 DEF TypeOK
<1>5. TypeOK'
  BY <1>1, <1>2, <1>3, <1>4 DEF TypeOK, ThreadState
<1>6. targets = {}
  BY <1>1 DEF IInv, ThreadInv
<1>7. ThreadInv'
  BY <1>1, <1>2, <1>3, <1>4, <1>6, BoundsAssumption DEF ThreadInv, Quote
<1>8. GoneInv' /\ OrderInv'
  BY <1>1, SamePipe DEF IInv, GoneInv, OrderInv
<1>9. UptoInv'
  <2> SUFFICES ASSUME NEW c \in Clients, NEW t \in Symbols, NEW n \in Nat, Has(c, t, n)'
               PROVE  /\ n <= ticks /\ (tick[t] # 0 => n <= tick[t])
                      /\ thread' \in {"copy", "send"} /\ quote'.sym = t => n <= quote'.n
    BY <1>1 DEF UptoInv
  <2>1. Has(c, t, n)
    BY <1>1, SamePipe
  <2>2. n <= ticks /\ (tick[t] # 0 => n <= tick[t])
    BY <2>1 DEF IInv, UptoInv
  <2> QED BY <1>1, <1>2, <2>2
<1>10. QuoteInv'
  BY <1>1, <1>2, <1>4 DEF QuoteInv
<1>11. LastInv'
  BY <1>1, <1>6, SamePipe DEF IInv, LastInv
<1>12. DueInv'
  <2> SUFFICES ASSUME NEW c \in joined \ lossy, NEW t \in Symbols, due[c][t] # 0
               PROVE  Owed(c, t)'
    BY <1>1 DEF IInv, DueInv
  <2> c \in Clients
    BY DEF TypeOK
  <2>1. Owed(c, t) /\ due[c][t] <= tick[t] /\ due[c][t] \in Nat /\ tick[t] \in Nat
    BY <1>4 DEF IInv, DueInv, TypeOK
  <2>2. CASE t = s /\ tick[s] # 0
    BY <1>1, <1>2, <2>1, <2>2 DEF Owed, InHand
  <2>3. CASE t = s /\ tick[s] = 0
    BY <2>1, <2>3
  <2>4. CASE t # s
    <3>1. ~InHand(c)
      BY <1>1, <1>6 DEF InHand
    <3>2. CASE \E i \in DOMAIN channel : channel[i] = t
      BY <1>3, <2>4, <3>2 DEF Owed
    <3>3. CASE \E n \in 0 .. MaxTicks : due[c][t] <= n /\ Has(c, t, n)
      BY <1>1, <3>3, SamePipe DEF Owed
    <3> QED BY <2>1, <3>1, <3>2, <3>3 DEF Owed
  <2> QED BY <2>2, <2>3, <2>4
<1> QED BY <1>5, <1>7, <1>8, <1>9, <1>10, <1>11, <1>12 DEF IInv

LEMMA CopyQueuesKeeps ==
  ASSUME IInv, CopyQueues
  PROVE  IInv'
<1> TypeOK
  BY DEF IInv
<1>1. /\ thread = "copy" /\ thread' = "send" /\ targets' = joined
      /\ last' = [c \in Clients |-> IF c \in joined THEN quote.n ELSE last[c]]
      /\ UNCHANGED <<available, outages, demanded, tick, ticks, channel, quote, calls, joined, queue,
                     seen, cleanup, cleanups, due, lossy>>
  BY DEF CopyQueues, source, stream, clearing
<1>2. quote \in Quote /\ quote.n \in 1 .. MaxTicks
  BY <1>1 DEF IInv, ThreadInv, Quote
<1>3. TypeOK'
  <2>1. last' \in [Clients -> 0 .. MaxTicks]
    BY <1>1, <1>2, BoundsAssumption DEF TypeOK
  <2> QED BY <1>1, <2>1 DEF TypeOK, ThreadState
<1>4. ThreadInv' /\ QuoteInv'
  BY <1>1, <1>2 DEF IInv, ThreadInv, QuoteInv
<1>5. GoneInv' /\ OrderInv'
  BY <1>1, SamePipe DEF IInv, GoneInv, OrderInv
<1>6. UptoInv'
  BY <1>1, SamePipe DEF IInv, UptoInv
<1>7. LastInv'
  <2>1. \A c \in joined : last'[c] = quote.n
    BY <1>1 DEF TypeOK
  <2> QED BY <1>1, <2>1 DEF LastInv
<1>8. DueInv'
  BY <1>1, SamePipe DEF IInv, DueInv, Owed, InHand
<1> QED BY <1>3, <1>4, <1>5, <1>6, <1>7, <1>8 DEF IInv

LEMMA ThreadWaits ==
  ASSUME IInv, Send, targets = {}
  PROVE  IInv'
<1> TypeOK
  BY DEF IInv
<1>1. /\ thread = "send" /\ thread' = "wait" /\ targets' = {} /\ calls' = calls
      /\ UNCHANGED <<available, outages, demanded, tick, ticks, channel, quote, joined, queue,
                     seen, cleanup, cleanups, due, last, lossy>>
  BY DEF Send, source, stream, clearing, past
<1>2. TypeOK'
  BY <1>1 DEF TypeOK, ThreadState
<1>3. ThreadInv' /\ QuoteInv'
  BY <1>1 DEF ThreadInv, QuoteInv
<1>4. GoneInv' /\ OrderInv' /\ UptoInv'
  BY <1>1, SamePipe DEF IInv, GoneInv, OrderInv, UptoInv
<1>5. LastInv'
  BY <1>1, SamePipe DEF IInv, LastInv
<1>6. DueInv'
  BY <1>1, SamePipe DEF IInv, DueInv, Owed, InHand
<1> QED BY <1>2, <1>3, <1>4, <1>5, <1>6 DEF IInv

LEMMA HandsOver ==
  ASSUME IInv, Send, targets # {}
  PROVE  IInv'
<1> TypeOK
  BY DEF IInv
<1>1. PICK a \in targets :
        /\ targets' = targets \ {a}
        /\ calls' = Append(calls, [to |-> a, live |-> TRUE, quote |-> quote])
        /\ thread = "send" /\ thread' = "send"
  BY DEF Send
<1>2. UNCHANGED <<available, outages, demanded, tick, ticks, channel, quote, joined, queue,
                  seen, cleanup, cleanups, due, last, lossy>>
  BY DEF Send, source, stream, clearing, past
<1>3. /\ quote \in Quote /\ quote.sym \in Symbols /\ quote.n \in 1 .. MaxTicks /\ quote.n \in Nat
      /\ a \in joined /\ a \in Clients
  BY <1>1, BoundsAssumption DEF IInv, ThreadInv, TypeOK, Quote
<1>4. PICK new \in Nat :
      /\ calls' \in Seq([to : Clients, live : BOOLEAN, quote : Quote])
      /\ DOMAIN calls' = DOMAIN calls \cup {new}
      /\ \A k \in DOMAIN calls : calls'[k] = calls[k] /\ k < new /\ k \in Nat
      /\ calls'[new].live /\ calls'[new].to = a /\ calls'[new].quote = quote
  <2>1. calls \in Seq([to : Clients, live : BOOLEAN, quote : Quote])
    BY DEF TypeOK
  <2>2. [to |-> a, live |-> TRUE, quote |-> quote] \in [to : Clients, live : BOOLEAN, quote : Quote]
    BY <1>3
  <2> QED BY <1>1, <2>1, <2>2, AppendFacts
<1>5. /\ \A k \in DOMAIN calls : \A c : Live(k, c)' <=> Live(k, c)
      /\ \A c : Live(new, c)' <=> c = a
  <2>1. \A k \in DOMAIN calls : \A c : Live(k, c)' <=> Live(k, c)
    <3> TAKE k \in DOMAIN calls
    <3>1. calls'[k] = calls[k]
      BY <1>4
    <3> QED BY <3>1, Zenon DEF Live
  <2>2. \A c : Live(new, c)' <=> c = a
    BY <1>4 DEF Live
  <2> QED BY <2>1, <2>2
<1>6. \A c, t, n : Has(c, t, n)' <=> Has(c, t, n) \/ (c = a /\ quote.sym = t /\ quote.n = n)
  <2> TAKE c, t, n
  <2>1. (\E k \in DOMAIN calls' : Live(k, c)' /\ calls'[k].quote.sym = t /\ calls'[k].quote.n = n)
        <=> \/ \E k \in DOMAIN calls : Live(k, c) /\ calls[k].quote.sym = t /\ calls[k].quote.n = n
            \/ c = a /\ quote.sym = t /\ quote.n = n
    BY <1>4, <1>5
  <2> QED BY <1>2, <2>1 DEF Has
<1>7. TypeOK'
  BY <1>1, <1>2, <1>4 DEF TypeOK
<1>8. ThreadInv' /\ QuoteInv'
  BY <1>1, <1>2 DEF IInv, ThreadInv, QuoteInv
<1>9. GoneInv'
  BY <1>2, <1>3, <1>4, <1>5 DEF IInv, GoneInv
<1>10. OrderInv'
  <2> SUFFICES ASSUME NEW c \in Clients PROVE InOrder(c)'
    BY DEF OrderInv
  <2>1. InOrder(c)
    BY DEF IInv, OrderInv
  <2>2. CASE c # a
    BY <1>2, <1>4, <1>5, <2>1, <2>2 DEF InOrder
  <2>3. CASE c = a
    <3>1. \A t \in Symbols, n \in Nat : Has(c, t, n) /\ quote.sym = t => n <= quote.n
      BY <1>1 DEF IInv, UptoInv
    <3>2. seen[c][quote.sym] <= quote.n
      BY SMTT(30), <1>3, <3>1 DEF Has, TypeOK
    <3>3. \A i \in DOMAIN queue[c] : queue[c][i].sym = quote.sym => queue[c][i].n <= quote.n
      BY <1>3, <3>1, Elements DEF Has
    <3>4. \A k \in DOMAIN calls :
            Live(k, c) /\ calls[k].quote.sym = quote.sym => calls[k].quote.n <= quote.n
      BY <1>3, <3>1, Elements DEF Has
    <3>5. \A k \in DOMAIN calls' : Live(k, c)' => seen'[c][calls'[k].quote.sym] <= calls'[k].quote.n
      BY <1>2, <1>4, <1>5, <2>1, <3>2 DEF InOrder
    <3>6. \A i \in DOMAIN queue'[c], k \in DOMAIN calls' :
            Live(k, c)' /\ queue'[c][i].sym = calls'[k].quote.sym => queue'[c][i].n <= calls'[k].quote.n
      BY <1>2, <1>4, <1>5, <2>1, <3>3 DEF InOrder
    <3>7. \A k, l \in DOMAIN calls' :
            k < l /\ Live(k, c)' /\ Live(l, c)' /\ calls'[k].quote.sym = calls'[l].quote.sym
                => calls'[k].quote.n <= calls'[l].quote.n
      BY <1>4, <1>5, <2>1, <3>4 DEF InOrder
    <3> QED BY <1>2, <2>1, <3>5, <3>6, <3>7 DEF InOrder
  <2> QED BY <2>2, <2>3
<1>11. UptoInv'
  <2>1. quote.n <= ticks /\ (tick[quote.sym] # 0 => quote.n <= tick[quote.sym])
    BY <1>1 DEF IInv, QuoteInv
  <2> QED BY <1>1, <1>2, <1>3, <1>6, <2>1 DEF IInv, UptoInv
<1>12. LastInv'
  <2> SUFFICES ASSUME NEW c \in joined, last[c] # 0
               PROVE  /\ c \in targets' => quote.n = last[c]
                      /\ c \notin targets' =>
                            /\ \A k \in DOMAIN calls' : LastCall(k, c)' => calls'[k].quote.n = last[c]
                            /\ NoCall(c)' /\ queue[c] # <<>> => queue[c][Len(queue[c])].n = last[c]
                            /\ NoCall(c)' /\ queue[c] = <<>> => \E s \in Symbols : seen[c][s] = last[c]
    BY <1>2 DEF LastInv
  <2>1. CASE c = a
    <3>1. quote.n = last[c]
      BY <1>1, <2>1 DEF IInv, LastInv
    <3>2. \A k \in DOMAIN calls' : LastCall(k, c)' => k = new
      BY <1>4, <1>5, <2>1 DEF LastCall
    <3>3. ~NoCall(c)'
      BY <1>4, <1>5, <2>1 DEF NoCall
    <3> QED BY <1>1, <1>4, <2>1, <3>1, <3>2, <3>3
  <2>2. CASE c # a
    <3>1. (NoCall(c)' <=> NoCall(c)) /\ \A k \in DOMAIN calls : LastCall(k, c)' <=> LastCall(k, c)
      BY <1>4, <1>5, <2>2 DEF NoCall, LastCall
    <3>2. ~LastCall(new, c)'
      BY <1>5, <2>2 DEF LastCall
    <3> QED BY <1>1, <1>4, <2>2, <3>1, <3>2 DEF IInv, LastInv
  <2> QED BY <2>1, <2>2
<1>13. DueInv'
  <2> SUFFICES ASSUME NEW c \in joined \ lossy, NEW t \in Symbols, due[c][t] # 0
               PROVE  Owed(c, t)'
    BY <1>2 DEF IInv, DueInv
  <2>1. Owed(c, t)
    BY DEF IInv, DueInv
  <2>2. CASE InHand(c) /\ quote.sym = t /\ due[c][t] <= quote.n /\ c = a
    <3>1. Has(c, t, quote.n)' /\ quote.n \in 0 .. MaxTicks
      BY <1>2, <1>3, <1>6, <2>2
    <3> QED BY <1>2, <2>2, <3>1 DEF Owed
  <2>3. CASE InHand(c) /\ quote.sym = t /\ due[c][t] <= quote.n /\ c # a
    BY <1>1, <1>2, <2>3 DEF Owed, InHand
  <2>4. CASE \E n \in 0 .. MaxTicks : due[c][t] <= n /\ Has(c, t, n)
    BY <1>2, <1>6, <2>4 DEF Owed
  <2>5. CASE \E i \in DOMAIN channel : channel[i] = t
    BY <1>2, <2>5 DEF Owed
  <2> QED BY <2>1, <2>2, <2>3, <2>4, <2>5 DEF Owed
<1> QED BY <1>7, <1>8, <1>9, <1>10, <1>11, <1>12, <1>13 DEF IInv

-----------------------------------------------------------------------------
(* The event loop. *)

\* The first callback is taken off, and the others are as they were.
LEMMA TailCalls ==
  ASSUME TypeOK, calls # <<>>, calls' = Tail(calls)
  PROVE  /\ calls' \in Seq([to : Clients, live : BOOLEAN, quote : Quote])
         /\ 1 \in DOMAIN calls /\ Head(calls) = calls[1]
         /\ \A k \in DOMAIN calls' :
                /\ k \in Nat /\ k + 1 \in DOMAIN calls /\ k + 1 > 1 /\ calls'[k] = calls[k + 1]
                /\ \A c : /\ Live(k, c)' <=> Live(k + 1, c)
                          /\ LastCall(k, c)' => LastCall(k + 1, c)
         /\ \A k \in DOMAIN calls : k # 1 =>
                /\ k - 1 \in DOMAIN calls' /\ calls'[k - 1] = calls[k]
                /\ \A c : Live(k - 1, c)' <=> Live(k, c)
<1>1. /\ calls' \in Seq([to : Clients, live : BOOLEAN, quote : Quote])
      /\ 1 \in DOMAIN calls /\ Head(calls) = calls[1]
      /\ \A k \in DOMAIN calls' : k + 1 \in DOMAIN calls /\ calls'[k] = calls[k + 1]
      /\ \A k \in DOMAIN calls : k = 1 \/ (k - 1 \in DOMAIN calls' /\ calls[k] = calls'[k - 1])
  <2>1. calls \in Seq([to : Clients, live : BOOLEAN, quote : Quote])
    BY DEF TypeOK
  <2> QED BY <2>1, TailFacts
<1>2. \A k \in DOMAIN calls' : k \in Nat /\ k + 1 > 1
  BY <1>1
<1>3. \A k \in DOMAIN calls : k \in Nat
  <2>1. calls \in Seq([to : Clients, live : BOOLEAN, quote : Quote])
    BY DEF TypeOK
  <2> QED BY <2>1, ElementOf
<1>4. \A k \in DOMAIN calls' : \A c : Live(k, c)' <=> Live(k + 1, c)
  <2> TAKE k \in DOMAIN calls'
  <2>1. calls'[k] = calls[k + 1]
    BY <1>1
  <2> QED BY <2>1 DEF Live
<1>5. \A k \in DOMAIN calls : k # 1 => \A c : Live(k - 1, c)' <=> Live(k, c)
  <2> TAKE k \in DOMAIN calls
  <2> HAVE k # 1
  <2>1. calls[k] = calls'[k - 1]
    BY <1>1
  <2> QED BY <2>1 DEF Live
<1>6. ASSUME NEW k \in DOMAIN calls', NEW c, LastCall(k, c)'
      PROVE  LastCall(k + 1, c)
  <2>1. Live(k + 1, c)
    BY <1>4, <1>6 DEF LastCall
  <2>2. ASSUME NEW l \in DOMAIN calls, k + 1 < l PROVE ~Live(l, c)
    <3>1. l # 1 /\ l - 1 \in DOMAIN calls' /\ k < l - 1
      BY <1>1, <1>2, <1>3, <2>2
    <3> QED BY <1>5, <1>6, <3>1 DEF LastCall
  <2> QED BY <2>1, <2>2 DEF LastCall
<1> QED BY <1>1, <1>2, <1>4, <1>5, <1>6

LEMMA ShiftOrder ==
  ASSUME NEW c, InOrder(c), queue'[c] = queue[c], seen'[c] = seen[c],
         \A k \in DOMAIN calls' : /\ k \in Nat /\ k + 1 \in DOMAIN calls /\ calls'[k] = calls[k + 1]
                                  /\ Live(k, c)' <=> Live(k + 1, c)
  PROVE  InOrder(c)'
<1>1. \A k \in DOMAIN calls' : Live(k, c)' => seen'[c][calls'[k].quote.sym] <= calls'[k].quote.n
  BY DEF InOrder
<1>2. \A i \in DOMAIN queue'[c], k \in DOMAIN calls' :
        Live(k, c)' /\ queue'[c][i].sym = calls'[k].quote.sym => queue'[c][i].n <= calls'[k].quote.n
  BY DEF InOrder
<1>3. ASSUME NEW k \in DOMAIN calls', NEW l \in DOMAIN calls', k < l, Live(k, c)', Live(l, c)',
             calls'[k].quote.sym = calls'[l].quote.sym
      PROVE  calls'[k].quote.n <= calls'[l].quote.n
  <2>1. k + 1 < l + 1 /\ k + 1 \in DOMAIN calls /\ l + 1 \in DOMAIN calls
    BY <1>3
  <2> QED BY <1>3, <2>1 DEF InOrder
<1>4. /\ \A i \in DOMAIN queue'[c] : seen'[c][queue'[c][i].sym] <= queue'[c][i].n
      /\ \A i, j \in DOMAIN queue'[c] :
            i < j /\ queue'[c][i].sym = queue'[c][j].sym => queue'[c][i].n <= queue'[c][j].n
  BY DEF InOrder
<1> QED BY <1>1, <1>2, <1>3, <1>4 DEF InOrder

LEMMA DeadCallKeeps ==
  ASSUME IInv, RunCall, ~calls[1].live
  PROVE  IInv'
<1> TypeOK
  BY DEF IInv
<1>1. calls # <<>> /\ calls' = Tail(calls) /\ Put(Head(calls))
  BY DEF RunCall
<1>2. /\ calls' \in Seq([to : Clients, live : BOOLEAN, quote : Quote])
      /\ 1 \in DOMAIN calls /\ Head(calls) = calls[1]
      /\ \A k \in DOMAIN calls' :
             /\ k \in Nat /\ k + 1 \in DOMAIN calls /\ calls'[k] = calls[k + 1]
             /\ \A c : /\ Live(k, c)' <=> Live(k + 1, c)
                       /\ LastCall(k, c)' => LastCall(k + 1, c)
      /\ \A k \in DOMAIN calls : k # 1 =>
             /\ k - 1 \in DOMAIN calls' /\ calls'[k - 1] = calls[k]
             /\ \A c : Live(k - 1, c)' <=> Live(k, c)
  BY <1>1, TailCalls
<1>3. UNCHANGED <<available, outages, demanded, tick, ticks, channel, thread, quote, targets,
                  joined, queue, seen, cleanup, cleanups, due, last, lossy>>
  BY <1>1, <1>2 DEF Put, source, sub, stream, clearing, past
<1>4. \A c : ~Live(1, c)
  BY DEF Live
<1>5. \A c : NoCall(c)' => NoCall(c)
  BY <1>2, <1>4 DEF NoCall
<1>6. \A c, t, n : Has(c, t, n)' <=> Has(c, t, n)
  <2> TAKE c, t, n
  <2>1. (\E k \in DOMAIN calls' : Live(k, c)' /\ calls'[k].quote.sym = t /\ calls'[k].quote.n = n)
        <=> \E k \in DOMAIN calls : Live(k, c) /\ calls[k].quote.sym = t /\ calls[k].quote.n = n
    BY <1>2, <1>4
  <2> QED BY <1>3, <2>1 DEF Has
<1>7. TypeOK'
  BY <1>2, <1>3 DEF TypeOK
<1>8. ThreadInv' /\ QuoteInv'
  BY <1>3 DEF IInv, ThreadInv, QuoteInv
<1>9. GoneInv'
  BY <1>2, <1>3 DEF IInv, GoneInv
<1>10. OrderInv'
  <2> SUFFICES ASSUME NEW c \in Clients PROVE InOrder(c)'
    BY DEF OrderInv
  <2> QED BY <1>2, <1>3, ShiftOrder DEF IInv, OrderInv
<1>11. UptoInv'
  BY <1>3, <1>6 DEF IInv, UptoInv
<1>12. LastInv'
  BY <1>2, <1>3, <1>5 DEF IInv, LastInv
<1>13. DueInv'
  BY <1>3, <1>6 DEF IInv, DueInv, Owed, InHand
<1> QED BY <1>7, <1>8, <1>9, <1>10, <1>11, <1>12, <1>13 DEF IInv

LEMMA LiveCallKeeps ==
  ASSUME IInv, RunCall, calls[1].live
  PROVE  IInv'
<1> TypeOK
  BY DEF IInv
<1>1. calls # <<>> /\ calls' = Tail(calls) /\ Put(Head(calls))
  BY DEF RunCall
<1>2. /\ calls' \in Seq([to : Clients, live : BOOLEAN, quote : Quote])
      /\ 1 \in DOMAIN calls /\ Head(calls) = calls[1]
      /\ \A k \in DOMAIN calls' :
             /\ k \in Nat /\ k + 1 \in DOMAIN calls /\ k + 1 > 1 /\ calls'[k] = calls[k + 1]
             /\ \A c : /\ Live(k, c)' <=> Live(k + 1, c)
                       /\ LastCall(k, c)' => LastCall(k + 1, c)
      /\ \A k \in DOMAIN calls : k # 1 =>
             /\ k - 1 \in DOMAIN calls' /\ calls'[k - 1] = calls[k]
             /\ \A c : Live(k - 1, c)' <=> Live(k, c)
  BY <1>1, TailCalls
<1>3. PICK to, x : to = calls[1].to /\ x = calls[1].quote
  OBVIOUS
<1>4. /\ to \in Clients /\ x \in Quote /\ x.sym \in Symbols /\ x.n \in Nat
      /\ Live(1, to) /\ \A c : Live(1, c) <=> c = to
      /\ to \in joined
  <2>1. to \in Clients /\ x \in Quote /\ x.sym \in Symbols /\ x.n \in Nat
    BY <1>2, <1>3, Elements
  <2>2. Live(1, to) /\ \A c : Live(1, c) <=> c = to
    BY <1>3 DEF Live
  <2> QED BY <1>2, <2>1, <2>2 DEF IInv, GoneInv
<1>5. /\ queue' = [queue EXCEPT ![to] = PutDropOldest(queue[to], x)]
      /\ lossy' = IF Len(queue[to]) < QueueSize THEN lossy ELSE lossy \cup {to}
      /\ UNCHANGED <<available, outages, demanded, tick, ticks, channel, thread, quote, targets,
                     joined, seen, cleanup, cleanups, due, last>>
  BY <1>1, <1>2, <1>3 DEF Put, source, sub, clearing
<1>6. PICK q, r : q = queue[to] /\ r = queue'[to]
  OBVIOUS
<1>7. /\ q \in Seq(Quote) /\ Len(q) <= QueueSize
      /\ r = PutDropOldest(q, x) /\ queue \in [Clients -> Seq(Quote)]
      /\ \A c \in Clients : c # to => queue'[c] = queue[c]
  BY <1>4, <1>5, <1>6 DEF TypeOK
<1>8. IsPut(q, x, r)
  BY <1>4, <1>7, PutFacts
<1>9. /\ r \in Seq(Quote) /\ Len(r) \in 1 .. QueueSize /\ r[Len(r)] = x
      /\ Len(r) \in DOMAIN r
  BY <1>8 DEF IsPut
<1>10. PICK d \in {0, 1} :
         /\ Len(q) < QueueSize => d = 0
         /\ Len(r) = Len(q) + 1 - d
         /\ \A i \in DOMAIN r : i = Len(r) \/ (i + d \in DOMAIN q /\ r[i] = q[i + d])
         /\ \A i \in DOMAIN q : i > d => i - d \in DOMAIN r /\ i - d < Len(r) /\ r[i - d] = q[i]
  BY <1>8 DEF IsPut
<1>11. ASSUME NEW c \in Clients, NEW t, NEW n, Has(c, t, n)'
       PROVE  Has(c, t, n)
  <2>1. CASE seen'[c][t] = n
    BY <1>5, <2>1 DEF Has
  <2>2. CASE \E i \in DOMAIN queue'[c] : queue'[c][i].sym = t /\ queue'[c][i].n = n
    <3>1. CASE c # to
      BY <1>7, <2>2, <3>1 DEF Has
    <3>2. CASE c = to
      <4>1. PICK i \in DOMAIN r : r[i].sym = t /\ r[i].n = n
        BY <1>6, <2>2, <3>2
      <4>2. CASE i = Len(r)
        BY <1>2, <1>3, <1>4, <1>9, <3>2, <4>1, <4>2 DEF Has
      <4>3. CASE i # Len(r)
        BY <1>6, <1>10, <3>2, <4>1, <4>3 DEF Has
      <4> QED BY <4>2, <4>3
    <3> QED BY <3>1, <3>2
  <2>3. CASE \E k \in DOMAIN calls' : Live(k, c)' /\ calls'[k].quote.sym = t /\ calls'[k].quote.n = n
    BY <1>2, <2>3 DEF Has
  <2> QED BY <1>11, <2>1, <2>2, <2>3 DEF Has
<1>12. ASSUME NEW c \in Clients, c \notin lossy', NEW t, NEW n, Has(c, t, n)
       PROVE  Has(c, t, n)'
  <2>1. CASE seen[c][t] = n
    BY <1>5, <2>1 DEF Has
  <2>2. CASE \E i \in DOMAIN queue[c] : queue[c][i].sym = t /\ queue[c][i].n = n
    <3>1. CASE c # to
      BY <1>7, <2>2, <3>1 DEF Has
    <3>2. CASE c = to
      <4>1. d = 0
        BY <1>5, <1>6, <1>10, <1>12, <3>2
      <4>2. PICK i \in DOMAIN q : q[i].sym = t /\ q[i].n = n
        BY <1>6, <2>2, <3>2
      <4>3. i \in Nat /\ i > 0 /\ i - 0 = i
        BY <1>7, ElementOf
      <4>4. i \in DOMAIN r /\ r[i] = q[i]
        BY <1>10, <4>1, <4>3
      <4> QED BY <1>6, <3>2, <4>2, <4>4 DEF Has
    <3> QED BY <3>1, <3>2
  <2>3. CASE \E k \in DOMAIN calls : Live(k, c) /\ calls[k].quote.sym = t /\ calls[k].quote.n = n
    <3>1. PICK k \in DOMAIN calls : Live(k, c) /\ calls[k].quote.sym = t /\ calls[k].quote.n = n
      BY <2>3
    <3>2. CASE k = 1
      BY <1>3, <1>4, <1>6, <1>9, <3>1, <3>2 DEF Has
    <3>3. CASE k # 1
      BY <1>2, <3>1, <3>3 DEF Has
    <3> QED BY <3>2, <3>3
  <2> QED BY <1>12, <2>1, <2>2, <2>3 DEF Has
<1>13. TypeOK'
  <2>1. queue' \in [Clients -> Seq(Quote)] /\ \A c \in Clients : Len(queue'[c]) <= QueueSize
    <3>1. queue' = [queue EXCEPT ![to] = r]
      BY <1>5, <1>6, <1>7
    <3>2. \A c \in Clients : Len(queue[c]) <= QueueSize
      BY DEF TypeOK
    <3>3. Len(r) <= QueueSize
      BY <1>9, BoundsAssumption
    <3> QED BY <1>4, <1>7, <1>9, <3>1, <3>2, <3>3
  <2>2. lossy' \subseteq Clients
    BY <1>4, <1>5 DEF TypeOK
  <2> QED BY <1>2, <1>5, <2>1, <2>2 DEF TypeOK
<1>14. ThreadInv' /\ QuoteInv'
  BY <1>5 DEF IInv, ThreadInv, QuoteInv
<1>15. GoneInv'
  BY <1>2, <1>4, <1>5, <1>7 DEF IInv, GoneInv
<1>16. UptoInv'
  BY <1>5, <1>11 DEF IInv, UptoInv
<1>17. DueInv'
  BY <1>5, <1>12 DEF IInv, DueInv, Owed, InHand, TypeOK
<1>18. OrderInv'
  <2> SUFFICES ASSUME NEW c \in Clients PROVE InOrder(c)'
    BY DEF OrderInv
  <2>1. InOrder(c)
    BY DEF IInv, OrderInv
  <2>2. CASE c # to
    BY <1>2, <1>5, <1>7, <2>1, <2>2, ShiftOrder
  <2>3. CASE c = to
    <3>1. \A i \in DOMAIN r : i \in Nat /\ i <= Len(r)
      BY <1>9, ElementOf
    <3>2. ASSUME NEW i \in DOMAIN r
          PROVE  seen[c][r[i].sym] <= r[i].n
      <4>1. CASE i = Len(r)
        BY <1>2, <1>3, <1>4, <1>9, <2>1, <2>3, <4>1 DEF InOrder
      <4>2. CASE i # Len(r)
        BY <1>6, <1>10, <2>1, <2>3, <4>2 DEF InOrder
      <4> QED BY <4>1, <4>2
    <3>3. ASSUME NEW i \in DOMAIN r, NEW j \in DOMAIN r, i < j, r[i].sym = r[j].sym
          PROVE  r[i].n <= r[j].n
      <4>1. i # Len(r) /\ i + d \in DOMAIN q /\ r[i] = q[i + d]
        BY <1>10, <3>1, <3>3
      <4>2. CASE j = Len(r)
        <5>1. \A m \in DOMAIN queue[c], k \in DOMAIN calls :
                Live(k, c) /\ queue[c][m].sym = calls[k].quote.sym => queue[c][m].n <= calls[k].quote.n
          BY <2>1 DEF InOrder
        <5>2. 1 \in DOMAIN calls /\ Live(1, c) /\ r[j] = calls[1].quote
          BY <1>2, <1>3, <1>4, <1>9, <2>3, <4>2
        <5>3. i + d \in DOMAIN queue[c] /\ r[i] = queue[c][i + d]
          BY <1>6, <2>3, <4>1
        <5> QED BY <3>3, <5>1, <5>2, <5>3
      <4>3. CASE j # Len(r)
        <5>1. j + d \in DOMAIN q /\ r[j] = q[j + d] /\ i + d < j + d
          BY <1>10, <3>1, <3>3, <4>3
        <5> QED BY <1>6, <2>1, <2>3, <3>3, <4>1, <5>1 DEF InOrder
      <4> QED BY <4>2, <4>3
    <3>4. ASSUME NEW i \in DOMAIN r, NEW k \in DOMAIN calls', Live(k, c)', r[i].sym = calls'[k].quote.sym
          PROVE  r[i].n <= calls'[k].quote.n
      <4>1. /\ k + 1 \in DOMAIN calls /\ 1 < k + 1 /\ calls'[k] = calls[k + 1] /\ Live(k + 1, c)
        BY <1>2, <3>4
      <4>2. CASE i = Len(r)
        BY <1>2, <1>3, <1>4, <1>9, <2>1, <2>3, <3>4, <4>1, <4>2 DEF InOrder
      <4>3. CASE i # Len(r)
        BY <1>6, <1>10, <2>1, <2>3, <3>4, <4>1, <4>3 DEF InOrder
      <4> QED BY <4>2, <4>3
    <3>5. ASSUME NEW k \in DOMAIN calls' PROVE Live(k, c)' => seen'[c][calls'[k].quote.sym] <= calls'[k].quote.n
      BY <1>2, <1>5, <2>1 DEF InOrder
    <3>6. ASSUME NEW k \in DOMAIN calls', NEW l \in DOMAIN calls', k < l, Live(k, c)', Live(l, c)',
                 calls'[k].quote.sym = calls'[l].quote.sym
          PROVE  calls'[k].quote.n <= calls'[l].quote.n
      <4>1. /\ k + 1 \in DOMAIN calls /\ calls'[k] = calls[k + 1] /\ Live(k + 1, c)
            /\ l + 1 \in DOMAIN calls /\ calls'[l] = calls[l + 1] /\ Live(l + 1, c)
            /\ k + 1 < l + 1
        BY <1>2, <3>6
      <4> QED BY <2>1, <3>6, <4>1 DEF InOrder
    <3> QED BY <1>5, <1>6, <2>3, <3>2, <3>3, <3>4, <3>5, <3>6 DEF InOrder
  <2> QED BY <2>2, <2>3
<1>19. LastInv'
  <2> SUFFICES ASSUME NEW c \in joined, last[c] # 0, c \notin targets
               PROVE  /\ \A k \in DOMAIN calls' : LastCall(k, c)' => calls'[k].quote.n = last[c]
                      /\ NoCall(c)' /\ queue'[c] # <<>> => queue'[c][Len(queue'[c])].n = last[c]
                      /\ NoCall(c)' /\ queue'[c] = <<>> => \E s \in Symbols : seen[c][s] = last[c]
    BY <1>5 DEF IInv, LastInv
  <2>1. /\ \A k \in DOMAIN calls : LastCall(k, c) => calls[k].quote.n = last[c]
        /\ NoCall(c) /\ queue[c] # <<>> => queue[c][Len(queue[c])].n = last[c]
        /\ NoCall(c) /\ queue[c] = <<>> => \E s \in Symbols : seen[c][s] = last[c]
    BY DEF IInv, LastInv
  <2>2. \A k \in DOMAIN calls' : LastCall(k, c)' => calls'[k].quote.n = last[c]
    BY <1>2, <2>1
  <2>3. c \in Clients
    BY DEF TypeOK
  <2>4. CASE c # to
    <3>1. NoCall(c)' => NoCall(c)
      BY <1>2, <1>4, <2>4 DEF NoCall
    <3> QED BY <1>7, <2>1, <2>2, <2>3, <2>4, <3>1
  <2>5. CASE c = to
    <3>1. ASSUME NoCall(c)' PROVE x.n = last[c]
      <4>1. LastCall(1, c)
        BY <1>2, <1>4, <2>5, <3>1 DEF LastCall, NoCall
      <4> QED BY <1>2, <1>3, <2>1, <4>1
    <3>2. r # <<>>
      BY <1>9
    <3> QED BY <1>6, <1>9, <2>2, <2>5, <3>1, <3>2
  <2> QED BY <2>4, <2>5
<1> QED BY <1>13, <1>14, <1>15, <1>16, <1>17, <1>18, <1>19 DEF IInv

-----------------------------------------------------------------------------
(* The clients. *)

\* What a client is sent next is the newest it has seen of the symbol.
LEMMA Sent ==
  ASSUME TypeOK, NEW a \in Clients, Receive(a)
  PROVE  \E q, h :
            /\ q = queue[a] /\ q \in Seq(Quote) /\ q # <<>> /\ 1 \in DOMAIN q /\ h = q[1]
            /\ h.sym \in Symbols /\ h.n \in Nat /\ h.n \in 0 .. MaxTicks
            /\ \A c \in Clients, t \in Symbols :
                    seen'[c][t] = IF c = a /\ t = h.sym THEN h.n ELSE seen[c][t]
            /\ seen' \in [Clients -> [Symbols -> 0 .. MaxTicks]]
            /\ queue' \in [Clients -> Seq(Quote)] /\ queue'[a] = Tail(q)
            /\ \A c \in Clients : c # a => queue'[c] = queue[c] /\ seen'[c] = seen[c]
<1>1. PICK q, h : q = queue[a] /\ h = Head(q)
  OBVIOUS
<1>2. q \in Seq(Quote) /\ q # <<>> /\ queue \in [Clients -> Seq(Quote)]
  BY <1>1 DEF TypeOK, Receive
<1>3. h \in Quote /\ h = q[1] /\ 1 \in DOMAIN q /\ Tail(q) \in Seq(Quote)
  BY <1>1, <1>2, TailFacts
<1>4. h.sym \in Symbols /\ h.n \in Nat /\ h.n \in 0 .. MaxTicks
  BY <1>3, BoundsAssumption DEF Quote
<1>5. queue' = [queue EXCEPT ![a] = Tail(q)] /\ seen' = [seen EXCEPT ![a][h.sym] = h.n]
  BY <1>1, <1>2 DEF Receive
<1>6. seen \in [Clients -> [Symbols -> 0 .. MaxTicks]]
  BY DEF TypeOK
<1>7. /\ seen' \in [Clients -> [Symbols -> 0 .. MaxTicks]]
      /\ \A c \in Clients, t \in Symbols :
            seen'[c][t] = IF c = a /\ t = h.sym THEN h.n ELSE seen[c][t]
      /\ \A c \in Clients : c # a => seen'[c] = seen[c]
  BY <1>4, <1>5, <1>6
<1>8. queue' \in [Clients -> Seq(Quote)] /\ queue'[a] = Tail(q)
      /\ \A c \in Clients : c # a => queue'[c] = queue[c]
  BY <1>2, <1>3, <1>5
<1> QED BY <1>1, <1>2, <1>3, <1>4, <1>7, <1>8

LEMMA ReceiveKeeps ==
  ASSUME IInv, NEW a \in Clients, Receive(a)
  PROVE  IInv'
<1> TypeOK
  BY DEF IInv
<1>1. /\ a \in joined
      /\ UNCHANGED <<available, outages, demanded, tick, ticks, channel, thread, quote, targets, calls,
                     joined, cleanup, cleanups, due, last, lossy>>
  BY DEF Receive, source, sub, clearing, past
<1>2. PICK q, h :
        /\ q = queue[a] /\ q \in Seq(Quote) /\ q # <<>> /\ 1 \in DOMAIN q /\ h = q[1]
        /\ h.sym \in Symbols /\ h.n \in Nat /\ h.n \in 0 .. MaxTicks
        /\ \A c \in Clients, t \in Symbols :
                seen'[c][t] = IF c = a /\ t = h.sym THEN h.n ELSE seen[c][t]
        /\ seen' \in [Clients -> [Symbols -> 0 .. MaxTicks]]
        /\ queue' \in [Clients -> Seq(Quote)] /\ queue'[a] = Tail(q)
        /\ \A c \in Clients : c # a => queue'[c] = queue[c] /\ seen'[c] = seen[c]
  BY Sent
<1>3. PICK r : r = queue'[a]
  OBVIOUS
<1>4. /\ r \in Seq(Quote) /\ Len(r) = Len(q) - 1
      /\ \A i \in DOMAIN r : /\ i \in Nat /\ i + 1 \in DOMAIN q /\ r[i] = q[i + 1] /\ 1 < i + 1
      /\ \A i \in DOMAIN q : i = 1 \/ (i - 1 \in DOMAIN r /\ q[i] = r[i - 1])
  <2>1. /\ r \in Seq(Quote) /\ Len(r) = Len(q) - 1
        /\ \A i \in DOMAIN r : i + 1 \in DOMAIN q /\ r[i] = q[i + 1]
        /\ \A i \in DOMAIN q : i = 1 \/ (i - 1 \in DOMAIN r /\ q[i] = r[i - 1])
    BY <1>2, <1>3, TailFacts
  <2>2. \A i \in DOMAIN r : i \in Nat /\ 1 < i + 1
    BY <2>1, ElementOf
  <2> QED BY <2>1, <2>2
<1>5. (\A k, c : Live(k, c)' <=> Live(k, c)) /\ (\A c : NoCall(c)' <=> NoCall(c))
      /\ \A k, c : LastCall(k, c)' <=> LastCall(k, c)
  BY <1>1 DEF Live, NoCall, LastCall
<1>6. ASSUME NEW c \in Clients, NEW t \in Symbols, NEW n, Has(c, t, n)'
      PROVE  Has(c, t, n)
  <2>1. CASE c # a
    BY <1>1, <1>2, <1>5, <1>6, <2>1 DEF Has
  <2>2. CASE c = a
    <3>1. CASE seen'[c][t] = n
      BY <1>2, <2>2, <3>1 DEF Has
    <3>2. CASE \E i \in DOMAIN r : r[i].sym = t /\ r[i].n = n
      BY <1>2, <1>4, <2>2, <3>2 DEF Has
    <3>3. CASE \E k \in DOMAIN calls : Live(k, c) /\ calls[k].quote.sym = t /\ calls[k].quote.n = n
      BY <3>3 DEF Has
    <3> QED BY <1>1, <1>3, <1>5, <1>6, <2>2, <3>1, <3>2, <3>3 DEF Has
  <2> QED BY <2>1, <2>2
<1>7. ASSUME NEW c \in Clients, NEW t \in Symbols, NEW n \in 0 .. MaxTicks, Has(c, t, n)
      PROVE  \E m \in 0 .. MaxTicks : n <= m /\ Has(c, t, m)'
  <2>1. CASE c # a
    BY <1>1, <1>2, <1>5, <1>7, <2>1 DEF Has
  <2>2. CASE c = a
    <3>1. CASE seen[c][t] = n
      <4>1. CASE t = h.sym
        <5>1. n <= h.n
          BY <1>2, <2>2, <3>1, <4>1 DEF IInv, OrderInv, InOrder
        <5>2. Has(c, t, h.n)'
          BY <1>2, <2>2, <4>1 DEF Has
        <5> QED BY <1>2, <5>1, <5>2
      <4>2. CASE t # h.sym
        BY <1>2, <3>1, <4>2 DEF Has
      <4> QED BY <4>1, <4>2
    <3>2. CASE \E i \in DOMAIN q : q[i].sym = t /\ q[i].n = n
      <4>1. PICK i \in DOMAIN q : q[i].sym = t /\ q[i].n = n
        BY <3>2
      <4>2. CASE i = 1
        BY <1>2, <2>2, <4>1, <4>2 DEF Has
      <4>3. CASE i # 1
        BY <1>3, <1>4, <2>2, <4>1, <4>3 DEF Has
      <4> QED BY <4>2, <4>3
    <3>3. CASE \E k \in DOMAIN calls : Live(k, c) /\ calls[k].quote.sym = t /\ calls[k].quote.n = n
      BY <1>1, <1>5, <3>3 DEF Has
    <3> QED BY <1>2, <1>7, <2>2, <3>1, <3>2, <3>3 DEF Has
  <2> QED BY <2>1, <2>2
<1>8. TypeOK'
  <2>1. \A c \in Clients : Len(queue'[c]) <= QueueSize
    <3>1. \A c \in Clients : Len(queue[c]) <= QueueSize /\ Len(queue[c]) \in Nat
      BY DEF TypeOK
    <3>2. Len(r) <= QueueSize
      BY <1>2, <1>4, <3>1, BoundsAssumption
    <3> QED BY <1>2, <1>3, <3>1, <3>2
  <2> QED BY <1>1, <1>2, <2>1 DEF TypeOK
<1>9. ThreadInv' /\ QuoteInv'
  BY <1>1 DEF IInv, ThreadInv, QuoteInv
<1>10. GoneInv'
  BY <1>1, <1>2, <1>5 DEF IInv, GoneInv
<1>11. OrderInv'
  <2> SUFFICES ASSUME NEW c \in Clients PROVE InOrder(c)'
    BY DEF OrderInv
  <2>1. InOrder(c)
    BY DEF IInv, OrderInv
  <2>2. CASE c # a
    BY ZenonT(40), <1>1, <1>2, <1>5, <2>1, <2>2 DEF InOrder
  <2>3. CASE c = a
    <3>1. ASSUME NEW i \in DOMAIN r PROVE seen'[c][r[i].sym] <= r[i].n
      <4>1. i + 1 \in DOMAIN q /\ r[i] = q[i + 1] /\ 1 < i + 1 /\ r[i].sym \in Symbols
        BY <1>2, <1>4, <2>3, Elements
      <4>2. CASE r[i].sym = h.sym
        <5>1. h.n <= r[i].n
          BY <1>2, <2>1, <2>3, <4>1, <4>2 DEF InOrder
        <5> QED BY <1>2, <2>3, <4>2, <5>1
      <4>3. CASE r[i].sym # h.sym
        <5>1. seen[c][r[i].sym] <= r[i].n
          BY <1>2, <2>1, <2>3, <4>1 DEF InOrder
        <5> QED BY <1>2, <2>3, <4>1, <4>3, <5>1
      <4> QED BY <4>2, <4>3
    <3>2. ASSUME NEW k \in DOMAIN calls, Live(k, c)
          PROVE  seen'[c][calls[k].quote.sym] <= calls[k].quote.n
      BY <1>2, <2>1, <2>3, <3>2, Elements DEF InOrder
    <3>3. ASSUME NEW i \in DOMAIN r, NEW j \in DOMAIN r, i < j, r[i].sym = r[j].sym
          PROVE  r[i].n <= r[j].n
      <4>1. i + 1 \in DOMAIN q /\ r[i] = q[i + 1] /\ j + 1 \in DOMAIN q /\ r[j] = q[j + 1] /\ i + 1 < j + 1
        BY <1>4, <3>3
      <4> QED BY <1>2, <2>1, <2>3, <3>3, <4>1 DEF InOrder
    <3>4. ASSUME NEW i \in DOMAIN r, NEW k \in DOMAIN calls, Live(k, c), r[i].sym = calls[k].quote.sym
          PROVE  r[i].n <= calls[k].quote.n
      BY <1>2, <1>4, <2>1, <2>3, <3>4 DEF InOrder
    <3> QED BY <1>1, <1>3, <1>5, <2>1, <2>3, <3>1, <3>2, <3>3, <3>4 DEF InOrder
  <2> QED BY <2>2, <2>3
<1>12. UptoInv'
  BY <1>1, <1>6 DEF IInv, UptoInv
<1>13. LastInv'
  <2> SUFFICES ASSUME NEW c \in joined, last[c] # 0, c \notin targets
               PROVE  /\ \A k \in DOMAIN calls : LastCall(k, c) => calls[k].quote.n = last[c]
                      /\ NoCall(c) /\ queue'[c] # <<>> => queue'[c][Len(queue'[c])].n = last[c]
                      /\ NoCall(c) /\ queue'[c] = <<>> => \E s \in Symbols : seen'[c][s] = last[c]
    BY <1>1, <1>5 DEF IInv, LastInv
  <2>1. /\ \A k \in DOMAIN calls : LastCall(k, c) => calls[k].quote.n = last[c]
        /\ NoCall(c) /\ queue[c] # <<>> => queue[c][Len(queue[c])].n = last[c]
        /\ NoCall(c) /\ queue[c] = <<>> => \E s \in Symbols : seen[c][s] = last[c]
    BY DEF IInv, LastInv
  <2>2. c \in Clients
    BY DEF TypeOK
  <2>3. CASE c # a
    BY <1>2, <2>1, <2>2, <2>3
  <2>4. CASE c = a
    <3>1. NoCall(c) => q[Len(q)].n = last[c]
      BY <1>2, <2>1, <2>4
    <3>2. r # <<>> => Len(r) \in DOMAIN r /\ r[Len(r)] = q[Len(q)]
      BY <1>2, <1>4
    <3>3. r = <<>> => Len(q) = 1
      BY <1>2, <1>4
    <3>4. seen'[c][h.sym] = h.n
      BY <1>2, <2>2, <2>4
    <3>5. NoCall(c) /\ r # <<>> => r[Len(r)].n = last[c]
      BY <3>1, <3>2
    <3>6. NoCall(c) /\ r = <<>> => seen'[c][h.sym] = last[c]
      BY <1>2, <3>1, <3>3, <3>4
    <3> QED BY <1>2, <1>3, <2>1, <2>4, <3>5, <3>6
  <2> QED BY <2>3, <2>4
<1>14. DueInv'
  <2> SUFFICES ASSUME NEW c \in joined \ lossy, NEW t \in Symbols, due[c][t] # 0
               PROVE  Owed(c, t)'
    BY <1>1 DEF IInv, DueInv
  <2>1. Owed(c, t) /\ c \in Clients /\ due[c][t] \in Nat
    BY BoundsAssumption DEF IInv, DueInv, TypeOK
  <2>2. CASE \E i \in DOMAIN channel : channel[i] = t
    BY <1>1, <2>2 DEF Owed
  <2>3. CASE InHand(c) /\ quote.sym = t /\ due[c][t] <= quote.n
    BY <1>1, <2>3 DEF Owed, InHand
  <2>4. CASE \E n \in 0 .. MaxTicks : due[c][t] <= n /\ Has(c, t, n)
    <3>1. PICK n \in 0 .. MaxTicks : due[c][t] <= n /\ Has(c, t, n)
      BY <2>4
    <3>2. PICK m \in 0 .. MaxTicks : n <= m /\ Has(c, t, m)'
      BY <1>7, <2>1, <3>1
    <3>3. due[c][t] <= m
      BY <2>1, <3>1, <3>2, BoundsAssumption
    <3> QED BY <1>1, <3>2, <3>3 DEF Owed
  <2> QED BY <2>1, <2>2, <2>3, <2>4 DEF Owed
<1> QED BY <1>8, <1>9, <1>10, <1>11, <1>12, <1>13, <1>14 DEF IInv

LEMMA ConnectKeeps ==
  ASSUME IInv, NEW a \in Clients, Connect(a)
  PROVE  IInv'
<1> TypeOK
  BY DEF IInv
<1>1. /\ a \notin joined /\ joined' = joined \cup {a}
      /\ UNCHANGED <<available, outages, demanded, tick, ticks, channel, thread, quote, targets, calls,
                     queue, seen, cleanup, cleanups, due, last, lossy>>
  BY DEF Connect, source, sub, clearing, past
<1>2. last[a] = 0 /\ \A s \in Symbols : due[a][s] = 0
  BY <1>1 DEF IInv, GoneInv, Untold
<1>3. TypeOK'
  BY <1>1 DEF TypeOK
<1>4. ThreadInv' /\ QuoteInv'
  BY <1>1 DEF IInv, ThreadInv, QuoteInv
<1>5. GoneInv' /\ OrderInv' /\ UptoInv'
  BY <1>1, SamePipe DEF IInv, GoneInv, OrderInv, UptoInv
<1>6. LastInv'
  BY <1>1, <1>2, SamePipe DEF IInv, LastInv
<1>7. DueInv'
  BY <1>1, <1>2, SamePipe DEF IInv, DueInv, Owed, InHand
<1> QED BY <1>3, <1>4, <1>5, <1>6, <1>7 DEF IInv

LEMMA DisconnectKeeps ==
  ASSUME IInv, NEW a \in Clients, Disconnect(a)
  PROVE  IInv'
<1> TypeOK
  BY DEF IInv
<1>1. /\ a \in joined /\ joined' = joined \ {a} /\ targets' = targets \ {a}
      /\ calls' = [i \in DOMAIN calls |-> IF calls[i].to = a THEN [calls[i] EXCEPT !.live = FALSE]
                                                            ELSE calls[i]]
      /\ queue' = [queue EXCEPT ![a] = <<>>]
      /\ seen' = [seen EXCEPT ![a] = Untold]
      /\ due' = [due EXCEPT ![a] = Untold]
      /\ last' = [last EXCEPT ![a] = 0]
      /\ lossy' = lossy \ {a}
      /\ UNCHANGED <<available, outages, demanded, tick, ticks, channel, thread, quote, cleanup, cleanups>>
  BY DEF Disconnect, source, clearing
<1>2. Untold \in [Symbols -> 0 .. MaxTicks] /\ \A s \in Symbols : Untold[s] = 0
  BY BoundsAssumption DEF Untold
<1>3. /\ calls' \in Seq([to : Clients, live : BOOLEAN, quote : Quote])
      /\ DOMAIN calls' = DOMAIN calls
      /\ \A k \in DOMAIN calls : calls'[k].quote = calls[k].quote
      /\ \A k \in DOMAIN calls : \A c : Live(k, c)' <=> Live(k, c) /\ c # a
  <2>1. calls \in Seq([to : Clients, live : BOOLEAN, quote : Quote])
    BY DEF TypeOK
  <2>2. ASSUME NEW k \in DOMAIN calls
        PROVE  /\ calls'[k] \in [to : Clients, live : BOOLEAN, quote : Quote]
               /\ calls'[k].quote = calls[k].quote /\ calls'[k].to = calls[k].to
               /\ calls'[k].live <=> calls[k].live /\ calls[k].to # a
    <3>1. calls[k] \in [to : Clients, live : BOOLEAN, quote : Quote]
      BY <2>1, ElementOf
    <3>2. CASE calls[k].to = a
      <4>1. calls'[k] = [calls[k] EXCEPT !.live = FALSE]
        BY <1>1, <3>2
      <4> QED BY <3>1, <3>2, <4>1
    <3>3. CASE calls[k].to # a
      <4>1. calls'[k] = calls[k]
        BY <1>1, <3>3
      <4> QED BY <3>1, <3>3, <4>1
    <3> QED BY <3>2, <3>3
  <2>3. DOMAIN calls' = DOMAIN calls
    BY <1>1
  <2>4. calls' \in Seq([to : Clients, live : BOOLEAN, quote : Quote])
    <3>1. PICK n \in Nat : DOMAIN calls = 1 .. n
      BY <2>1
    <3> DEFINE S == [to : Clients, live : BOOLEAN, quote : Quote]
    <3>2. \A k \in 1 .. n : calls'[k] \in S
      BY <2>2, <3>1
    <3> HIDE DEF S
    <3>3. calls' \in [1 .. n -> S]
      BY <1>1, <3>1, <3>2
    <3>4. calls' \in Seq(S)
      BY <3>3
    <3> QED BY <3>4 DEF S
  <2>5. ASSUME NEW k \in DOMAIN calls, NEW c PROVE Live(k, c)' <=> Live(k, c) /\ c # a
    BY <2>2 DEF Live
  <2> QED BY <2>2, <2>3, <2>4, <2>5
<1>4. \A c \in Clients : c # a =>
        /\ queue'[c] = queue[c] /\ seen'[c] = seen[c] /\ due'[c] = due[c] /\ last'[c] = last[c]
        /\ (NoCall(c)' <=> NoCall(c)) /\ \A k \in DOMAIN calls : LastCall(k, c)' <=> LastCall(k, c)
        /\ \A t, n : Has(c, t, n)' <=> Has(c, t, n)
  <2> TAKE c \in Clients
  <2> HAVE c # a
  <2>1. queue'[c] = queue[c] /\ seen'[c] = seen[c] /\ due'[c] = due[c] /\ last'[c] = last[c]
    BY <1>1 DEF TypeOK
  <2>2. \A k \in DOMAIN calls : Live(k, c)' <=> Live(k, c)
    BY <1>3
  <2>3. (NoCall(c)' <=> NoCall(c)) /\ \A k \in DOMAIN calls : LastCall(k, c)' <=> LastCall(k, c)
    BY <1>3, <2>2 DEF NoCall, LastCall
  <2>4. ASSUME NEW t, NEW n PROVE Has(c, t, n)' <=> Has(c, t, n)
    <3>1. (\E k \in DOMAIN calls' : Live(k, c)' /\ calls'[k].quote.sym = t /\ calls'[k].quote.n = n)
          <=> \E k \in DOMAIN calls : Live(k, c) /\ calls[k].quote.sym = t /\ calls[k].quote.n = n
      BY <1>3, <2>2
    <3> QED BY <2>1, <3>1 DEF Has
  <2> QED BY <2>1, <2>3, <2>4
<1>5. /\ queue'[a] = <<>> /\ seen'[a] = Untold /\ due'[a] = Untold /\ last'[a] = 0
      /\ \A k \in DOMAIN calls' : ~Live(k, a)'
  BY <1>1, <1>3 DEF TypeOK
<1>6. \A t \in Symbols, n \in Nat : Has(a, t, n)' => n = 0
  BY <1>2, <1>5 DEF Has
<1>7. TypeOK'
  <2>1. /\ queue' \in [Clients -> Seq(Quote)] /\ \A c \in Clients : Len(queue'[c]) <= QueueSize
        /\ seen' \in [Clients -> [Symbols -> 0 .. MaxTicks]]
        /\ due' \in [Clients -> [Symbols -> 0 .. MaxTicks]]
        /\ last' \in [Clients -> 0 .. MaxTicks]
    <3>1. /\ queue \in [Clients -> Seq(Quote)] /\ \A c \in Clients : Len(queue[c]) <= QueueSize
          /\ seen \in [Clients -> [Symbols -> 0 .. MaxTicks]]
          /\ due \in [Clients -> [Symbols -> 0 .. MaxTicks]]
          /\ last \in [Clients -> 0 .. MaxTicks]
      BY DEF TypeOK
    <3>2. queue' \in [Clients -> Seq(Quote)] /\ \A c \in Clients : Len(queue'[c]) <= QueueSize
      BY <1>1, <3>1, BoundsAssumption
    <3>3. /\ seen' \in [Clients -> [Symbols -> 0 .. MaxTicks]]
          /\ due' \in [Clients -> [Symbols -> 0 .. MaxTicks]]
      BY <1>1, <1>2, <3>1
    <3>4. last' \in [Clients -> 0 .. MaxTicks]
      BY <1>1, <3>1, BoundsAssumption
    <3> QED BY <3>2, <3>3, <3>4
  <2>2. targets' \subseteq joined' /\ joined' \subseteq Clients /\ lossy' \subseteq Clients
    BY <1>1 DEF TypeOK
  <2> QED BY <1>1, <1>3, <2>1, <2>2 DEF TypeOK
<1>8. ThreadInv' /\ QuoteInv'
  BY <1>1 DEF IInv, ThreadInv, QuoteInv
<1>9. GoneInv'
  <2> SUFFICES ASSUME NEW c \in Clients, c \notin joined'
               PROVE  /\ last'[c] = 0 /\ due'[c] = Untold /\ seen'[c] = Untold /\ queue'[c] = <<>>
                      /\ \A k \in DOMAIN calls' : ~Live(k, c)'
    BY DEF GoneInv, Untold
  <2>1. CASE c = a
    BY <1>5, <2>1
  <2>2. CASE c # a
    BY <1>1, <1>3, <1>4, <2>2 DEF IInv, GoneInv
  <2> QED BY <2>1, <2>2
<1>10. OrderInv'
  <2> SUFFICES ASSUME NEW c \in Clients PROVE InOrder(c)'
    BY DEF OrderInv
  <2>1. CASE c = a
    BY <1>5, <2>1 DEF InOrder
  <2>2. CASE c # a
    <3>1. InOrder(c)
      BY DEF IInv, OrderInv
    <3>2. queue'[c] = queue[c] /\ seen'[c] = seen[c]
      BY <1>4, <2>2
    <3> QED BY <1>3, <2>2, <3>1, <3>2 DEF InOrder
  <2> QED BY <2>1, <2>2
<1>11. UptoInv'
  <2> SUFFICES ASSUME NEW c \in Clients, NEW t \in Symbols, NEW n \in Nat, Has(c, t, n)'
               PROVE  /\ n <= ticks /\ (tick[t] # 0 => n <= tick[t])
                      /\ thread \in {"copy", "send"} /\ quote.sym = t => n <= quote.n
    BY <1>1 DEF UptoInv
  <2>1. CASE c = a
    <3>1. n = 0 /\ ticks \in Nat /\ tick[t] \in Nat /\ quote.n \in Nat
      BY <1>6, <2>1, BoundsAssumption DEF TypeOK
    <3> QED BY <3>1
  <2>2. CASE c # a
    BY <1>4, <2>2 DEF IInv, UptoInv
  <2> QED BY <2>1, <2>2
<1>12. LastInv'
  <2> SUFFICES ASSUME NEW c \in joined, c # a, last[c] # 0
               PROVE  /\ c \in targets => quote.n = last[c]
                      /\ c \notin targets =>
                            /\ \A k \in DOMAIN calls : LastCall(k, c) => calls'[k].quote.n = last[c]
                            /\ NoCall(c) /\ queue[c] # <<>> => queue[c][Len(queue[c])].n = last[c]
                            /\ NoCall(c) /\ queue[c] = <<>> => \E s \in Symbols : seen[c][s] = last[c]
    BY SMTT(30), <1>1, <1>3, <1>4 DEF LastInv, TypeOK
  <2> QED BY <1>3 DEF IInv, LastInv
<1>13. DueInv'
  <2>1. ASSUME NEW c \in Clients, NEW t \in Symbols PROVE due'[c][t] <= tick[t]
    <3>1. CASE c = a
      BY <1>2, <1>5, <3>1 DEF TypeOK
    <3>2. CASE c # a
      BY <1>4, <3>2 DEF IInv, DueInv
    <3> QED BY <3>1, <3>2
  <2>2. ASSUME NEW c \in joined' \ lossy', NEW t \in Symbols, due'[c][t] # 0
        PROVE  Owed(c, t)'
    <3>1. c \in Clients /\ c # a /\ c \in joined \ lossy /\ due'[c] = due[c]
      BY <1>1, <1>4 DEF TypeOK
    <3>2. Owed(c, t)
      BY <2>2, <3>1 DEF IInv, DueInv
    <3> QED BY <1>1, <1>4, <3>1, <3>2 DEF Owed, InHand
  <2> QED BY <1>1, <2>1, <2>2 DEF DueInv
<1> QED BY <1>7, <1>8, <1>9, <1>10, <1>11, <1>12, <1>13 DEF IInv

-----------------------------------------------------------------------------
LEMMA NextKeeps == IInv /\ [Next]_vars => IInv'
<1> SUFFICES ASSUME IInv, [Next]_vars PROVE IInv'
  OBVIOUS
<1>1. CASE UNCHANGED vars
  <2>1. /\ UNCHANGED <<ticks, tick, thread, quote, targets, calls, joined, queue, seen, due, last>>
        /\ UNCHANGED <<channel, lossy>>
        /\ UNCHANGED <<available, outages, demanded, cleanup, cleanups>>
    BY <1>1 DEF vars, source, sub, stream, clearing, past
  <2>2. TypeOK'
    BY <2>1 DEF IInv, TypeOK
  <2> QED BY <2>1, <2>2, SameInHand, SameOwed DEF IInv
<1>2. CASE Next
  <2>1. CASE \E s \in Symbols : Tick(s)
    BY <2>1, TickKeeps
  <2>2. CASE \/ RedisDown \/ RedisUp \/ CleanupFails
             \/ \E s \in Symbols : Register(s)
             \/ \E keep \in SUBSET Symbols : CleanupList(keep)
    BY <2>2, QuietKeeps
  <2>3. CASE Startup \/ CleanupRemove
    BY <2>3, StartupKeeps, CleanupRemoveKeeps
  <2>4. CASE Subscriber
    BY <2>4, HearKeeps, CopyQueuesKeeps, ThreadWaits, HandsOver DEF Subscriber
  <2>5. CASE RunCall
    BY <2>5, DeadCallKeeps, LiveCallKeeps
  <2>6. CASE \E c \in Clients : Connect(c) \/ Receive(c) \/ Disconnect(c)
    BY <2>6, ConnectKeeps, ReceiveKeeps, DisconnectKeeps
  <2> QED BY <1>2, <2>1, <2>2, <2>3, <2>4, <2>5, <2>6 DEF Next
<1> QED BY <1>1, <1>2

\* The types of the state, which the properties below rest on.
THEOREM TypeCorrect == Spec => []TypeOK
<1>1. Init => IInv
  BY InitHolds
<1>2. IInv => TypeOK
  BY DEF IInv
<1> QED BY <1>1, <1>2, NextKeeps, PTL DEF Spec

\* LastQuoteArrives (put_nowait_drop_oldest and _broadcast_quote): what a slow
\* client's queue drops is never the last quote broadcast to it.
THEOREM LastArrives == Spec => []LastQuoteArrives
<1>1. Init => IInv
  BY InitHolds
<1>2. IInv => LastQuoteArrives
  <2> SUFFICES ASSUME IInv, NEW c \in joined, Drained(c), last[c] # 0
               PROVE  \E s \in Symbols : seen[c][s] = last[c]
    BY DEF LastQuoteArrives
  <2>1. c \notin targets
    BY DEF IInv, ThreadInv, Drained
  <2>2. NoCall(c)
    BY DEF NoCall, Drained
  <2> QED BY <2>1, <2>2 DEF IInv, LastInv, Drained
<1> QED BY <1>1, <1>2, NextKeeps, PTL DEF Spec

\* CaughtUp (run_subscribe_loop to the SSE generator): a client whose queue never
\* overflowed has, with nothing on its way, the newest tick of every symbol.
THEOREM NothingMissed == Spec => []CaughtUp
<1>1. Init => IInv
  BY InitHolds
<1>2. IInv => CaughtUp
  <2> SUFFICES ASSUME IInv, NEW c \in joined \ lossy, Drained(c), NEW s \in Symbols
               PROVE  due[c][s] <= seen[c][s]
    BY DEF CaughtUp
  <2>1. /\ due[c][s] \in Nat /\ seen[c][s] \in Nat
    BY BoundsAssumption DEF IInv, TypeOK
  <2>2. CASE due[c][s] = 0
    BY <2>1, <2>2
  <2>3. CASE due[c][s] # 0
    <3>1. Owed(c, s)
      BY <2>3 DEF IInv, DueInv
    <3>2. ~InHand(c) /\ channel = <<>>
      BY DEF IInv, ThreadInv, Drained, InHand
    <3>3. PICK n \in 0 .. MaxTicks : due[c][s] <= n /\ Has(c, s, n)
      BY <3>1, <3>2 DEF Owed
    <3>4. seen[c][s] = n
      BY <3>3 DEF Has, Drained
    <3> QED BY <3>3, <3>4
  <2> QED BY <2>2, <2>3
<1> QED BY <1>1, <1>2, NextKeeps, PTL DEF Spec

\* NeverBackwards: though a tick is loaded after its notification, and handed
\* over by two threads, a price never goes back on a connection.
THEOREM PricesInOrder == Spec => NeverBackwards
<1>1. Init => IInv
  BY InitHolds
<1> DEFINE Forward == \A c \in joined \cap joined', s \in Symbols : seen'[c][s] >= seen[c][s]
<1>2. ASSUME IInv, [Next]_vars PROVE [Forward]_vars
  <2> SUFFICES ASSUME NEW c \in joined \cap joined', NEW s \in Symbols
               PROVE  seen'[c][s] >= seen[c][s]
    OBVIOUS
  <2> TypeOK
    BY <1>2 DEF IInv
  <2>1. c \in Clients /\ seen[c][s] \in Nat
    BY BoundsAssumption DEF TypeOK
  <2>2. CASE UNCHANGED seen
    BY <2>1, <2>2
  <2>3. ASSUME NEW a \in Clients, Receive(a) PROVE seen'[c][s] >= seen[c][s]
    <3>1. PICK q, h :
            /\ q = queue[a] /\ 1 \in DOMAIN q /\ h = q[1] /\ h.n \in Nat
            /\ \A d \in Clients, t \in Symbols :
                    seen'[d][t] = IF d = a /\ t = h.sym THEN h.n ELSE seen[d][t]
      BY <2>3, Sent
    <3>2. InOrder(c)
      BY <1>2, <2>1 DEF IInv, OrderInv
    <3>3. c = a /\ s = h.sym => seen[c][s] <= h.n
      BY <3>1, <3>2 DEF InOrder
    <3> QED BY <2>1, <3>1, <3>3
  <2>4. ASSUME NEW a \in Clients, Disconnect(a) PROVE seen'[c][s] >= seen[c][s]
    <3>1. c # a
      BY <2>4 DEF Disconnect
    <3>2. seen'[c] = seen[c]
      BY <2>1, <2>4, <3>1 DEF Disconnect, TypeOK
    <3> QED BY <2>1, <3>2
  <2>5. CASE Startup
    BY <2>5 DEF Startup
  <2>6. CASE \/ \E t \in Symbols : Tick(t) \/ Register(t)
             \/ RedisDown \/ RedisUp
             \/ \E keep \in SUBSET Symbols : CleanupList(keep)
             \/ CleanupRemove \/ CleanupFails
             \/ Subscriber \/ RunCall
             \/ \E a \in Clients : Connect(a)
             \/ UNCHANGED vars
    <3>1. UNCHANGED seen
      BY <2>6 DEF Tick, Register, RedisDown, RedisUp, CleanupList, CleanupRemove, CleanupFails,
                  Subscriber, Hear, CopyQueues, Send, RunCall, Put, Connect, stream, vars
    <3> QED BY <2>2, <3>1
  <2> QED BY <1>2, <2>3, <2>4, <2>5, <2>6 DEF Next
<1> QED BY <1>1, <1>2, NextKeeps, PTL DEF Spec, NeverBackwards, Forward

=============================================================================
