------------------------ MODULE MessageCenterProofs ------------------------
(***************************************************************************)
(* Proofs about MessageCenter, for any sets of pods, clients and events    *)
(* and any sizes and bounds.  IInv strengthens the invariants the runs     *)
(* check with what holds while a batch is in hand.                         *)
(***************************************************************************)
EXTENDS MessageCenter, TLAPS

Covered(n) == \A e \in 1 .. n : e \in items \/ e \in Skipped

\* Positions, persisted or held by a thread, stand behind events dealt with.
CoverInv ==
    /\ Covered(cursor)
    /\ \A p \in Pods : Covered(lastId[p])
    /\ \A p \in Pods :
        thread[p] = "batch" => Covered(newest[p]) /\ newest[p] <= top[p]

\* The messages in hand are newer than anything sent before them.
BatchInv == \A p \in Pods :
    /\ thread[p] = "batch" =>
           /\ lastId[p] <= newest[p]
           /\ \A m \in messages[p] : lastId[p] < m /\ m <= newest[p]
    /\ thread[p] \in {"copy", "fan"} => \A m \in messages[p] : m <= lastId[p]

\* Everything client c was sent, or will be from its queue, is older than n.
SentBefore(c, n) ==
    seen[c] < n /\ \A i \in 1 .. Len(queue[c]) : queue[c][i] < n

Untouched(c) == queue[c] = <<>> /\ seen[c] = 0

SentInv == \A c \in Clients :
    /\ at[c] = Nowhere => Untouched(c)
    /\ \A p \in Pods : at[c] = p =>
        /\ thread[p] \in {"off", "boot"} => Untouched(c)
        /\ SentBefore(c, lastId[p] + 1)
        /\ thread[p] \in {"copy", "fan"} =>
               \A m \in messages[p] : SentBefore(c, m)

\* What a client is owed is in hand, and its queue is or will be a target.
OwedInv == faults = 0 => \A c \in Clients :
    /\ at[c] = Nowhere \/ ~joined[c] => owed[c] = {}
    /\ \A p \in Pods : at[c] = p =>
        /\ thread[p] \in {"off", "boot", "read"} => owed[c] = {}
        /\ owed[c] \subseteq messages[p]
        /\ thread[p] = "fan" /\ owed[c] # {} => c \in targets[p]

IInv == TypeOK /\ CoverInv /\ BatchInv /\ SentInv /\ StreamInOrder /\ OwedInv

-----------------------------------------------------------------------------
\* A queue as a set of values in order: what taking its head leaves.
LEMMA TailFacts ==
    ASSUME NEW q \in Seq(Nat), q # <<>>
    PROVE  /\ Tail(q) \in Seq(Nat)
           /\ Len(Tail(q)) = Len(q) - 1
           /\ Head(q) = q[1] /\ 1 \in 1 .. Len(q)
           /\ \A i \in 1 .. Len(Tail(q)) : i + 1 \in 1 .. Len(q) /\ Tail(q)[i] = q[i + 1]
OBVIOUS

Ordered(q) == \A i, j \in 1 .. Len(q) : i < j => q[i] < q[j]

\* Taking the head off an ordered queue leaves later messages, still ordered.
LEMMA TailOrdered ==
    ASSUME NEW q \in Seq(Nat), q # <<>>, Ordered(q)
    PROVE  Ordered(Tail(q)) /\ \A i \in 1 .. Len(Tail(q)) : Head(q) < Tail(q)[i]
<1> DEFINE r == Tail(q)
<1>1. /\ Len(q) \in Nat /\ Len(r) = Len(q) - 1
      /\ Head(q) = q[1] /\ 1 \in 1 .. Len(q)
      /\ \A i \in 1 .. Len(r) : i + 1 \in 1 .. Len(q) /\ r[i] = q[i + 1]
    BY TailFacts
<1> HIDE DEF r
<1>2. ASSUME NEW i \in 1 .. Len(r) PROVE Head(q) < r[i]
  <2>1. 1 < i + 1
    BY <1>1
  <2> QED
    BY <1>1, <2>1 DEF Ordered
<1>3. ASSUME NEW i \in 1 .. Len(r), NEW j \in 1 .. Len(r), i < j PROVE r[i] < r[j]
  <2>1. i + 1 < j + 1
    BY <1>1, <1>3
  <2> QED
    BY <1>1, <2>1 DEF Ordered
<1> QED
    BY <1>2, <1>3 DEF r, Ordered

\* Putting a newer message, with or without dropping the oldest, keeps the
\* bound and the order, and brings in nothing else.
LEMMA PutFacts ==
    ASSUME NEW q \in Seq(Nat), NEW e \in Nat, Len(q) <= QueueSize
    PROVE  /\ PutDropOldest(q, e) \in Seq(Nat)
           /\ Len(PutDropOldest(q, e)) <= QueueSize
           /\ \A i \in 1 .. Len(PutDropOldest(q, e)) :
                  PutDropOldest(q, e)[i] = e
                  \/ \E j \in 1 .. Len(q) : PutDropOldest(q, e)[i] = q[j]
           /\ (Ordered(q) /\ \A j \in 1 .. Len(q) : q[j] < e)
                  => Ordered(PutDropOldest(q, e))
<1> DEFINE r == IF Len(q) < QueueSize THEN q ELSE Tail(q)
<1>1. /\ r \in Seq(Nat) /\ Len(r) < QueueSize
      /\ \A i \in 1 .. Len(r) : \E j \in 1 .. Len(q) : r[i] = q[j]
      /\ Ordered(q) => Ordered(r)
  <2>1. CASE Len(q) < QueueSize
    BY <2>1
  <2>2. CASE ~(Len(q) < QueueSize)
    <3>1. q # <<>>
      BY <2>2, SizesAssumption
    <3> QED
      BY <2>2, <3>1, TailFacts, SizesAssumption DEF Ordered
  <2> QED
    BY <2>1, <2>2
<1>2. PutDropOldest(q, e) = Append(r, e)
    BY DEF PutDropOldest
<1> HIDE DEF r
<1>3. /\ Append(r, e) \in Seq(Nat)
      /\ Len(Append(r, e)) = Len(r) + 1
      /\ \A i \in 1 .. Len(r) : Append(r, e)[i] = r[i]
      /\ Append(r, e)[Len(r) + 1] = e
    BY <1>1
<1>4. \A i \in 1 .. Len(Append(r, e)) : i \in 1 .. Len(r) \/ i = Len(r) + 1
    BY <1>1, <1>3
<1>5. (Ordered(q) /\ \A j \in 1 .. Len(q) : q[j] < e) => Ordered(Append(r, e))
  <2> SUFFICES ASSUME Ordered(q), \A k \in 1 .. Len(q) : q[k] < e,
                      NEW i \in 1 .. Len(Append(r, e)),
                      NEW j \in 1 .. Len(Append(r, e)), i < j
               PROVE  Append(r, e)[i] < Append(r, e)[j]
    BY DEF Ordered
  <2>1. i \in 1 .. Len(r)
    BY <1>1, <1>3, <1>4
  <2>2. CASE j \in 1 .. Len(r)
    BY <1>1, <1>3, <2>1, <2>2 DEF Ordered
  <2>3. CASE j = Len(r) + 1
    BY <1>1, <1>3, <2>1, <2>3
  <2> QED
    BY <1>4, <2>2, <2>3
<1> QED
    BY <1>1, <1>2, <1>3, <1>4, <1>5, SizesAssumption

LEMMA IInvInit == Init => IInv
BY SizesAssumption, NowhereAssumption
   DEF Init, IInv, TypeOK, CoverInv, Covered, BatchInv, SentInv, Untouched,
       SentBefore, StreamInOrder, OwedInv, ThreadState

\* Neither the persisted position nor any thread's own ever stands past an
\* event that was not dealt with.
LEMMA CoverStep == IInv /\ [Next]_vars => CoverInv'
<1> SUFFICES ASSUME IInv, [Next]_vars PROVE CoverInv'
    OBVIOUS
<1> USE SizesAssumption
<1> USE DEF IInv, TypeOK, CoverInv, Covered, ThreadState
<1>1. CASE Publish
    BY <1>1 DEF Publish, reader, clients
<1>2. ASSUME NEW p \in Pods, Boot(p) PROVE CoverInv'
    BY <1>2 DEF Boot, redis, clients
<1>3. ASSUME NEW p \in Pods, BootFails(p) PROVE CoverInv'
    BY <1>3 DEF BootFails, Fault, redis, clients
<1>4. ASSUME NEW p \in Pods, ReadBatch(p) PROVE CoverInv'
    BY <1>4 DEF ReadBatch, redis, clients, Lesser
<1>5. ASSUME NEW p \in Pods, PassOver(p) PROVE CoverInv'
    BY <1>5 DEF PassOver, redis, clients
<1>6. ASSUME NEW p \in Pods, Materialize(p) PROVE CoverInv'
    BY <1>6 DEF Materialize
<1>7. ASSUME NEW p \in Pods, MaterializeFails(p) PROVE CoverInv'
    BY <1>7 DEF MaterializeFails, Fault, clients
<1>8. ASSUME NEW p \in Pods, Persist(p) PROVE CoverInv'
    BY <1>8 DEF Persist, clients
<1>9. ASSUME NEW p \in Pods, PersistFails(p) PROVE CoverInv'
    BY <1>9 DEF PersistFails, Fault, clients
<1>10. ASSUME NEW p \in Pods, CopyQueues(p) PROVE CoverInv'
    BY <1>10 DEF CopyQueues, redis, clients
<1>11. ASSUME NEW p \in Pods, FanOut(p) PROVE CoverInv'
    BY <1>11 DEF FanOut, redis, Send
<1>12. ASSUME NEW p \in Pods, Crash(p) PROVE CoverInv'
    BY <1>12 DEF Crash, Fault, redis
<1>13. ASSUME NEW c \in Clients, NEW p \in Pods, Connect(c, p) PROVE CoverInv'
    BY <1>13 DEF Connect, redis
<1>14. ASSUME NEW c \in Clients, Join(c) PROVE CoverInv'
    BY <1>14 DEF Join, redis, reader
<1>15. ASSUME NEW c \in Clients, Receive(c) PROVE CoverInv'
    BY <1>15 DEF Receive, redis, reader
<1>16. ASSUME NEW c \in Clients, Disconnect(c) PROVE CoverInv'
    BY <1>16 DEF Disconnect, redis
<1>17. CASE UNCHANGED vars
    BY <1>17 DEF vars, redis, reader, clients
<1> HIDE DEF CoverInv
<1> QED
    BY <1>1, <1>2, <1>3, <1>4, <1>5, <1>6, <1>7, <1>8, <1>9, <1>10, <1>11,
       <1>12, <1>13, <1>14, <1>15, <1>16, <1>17 DEF Next, Reader

\* Every variable stays in its type; no queue outgrows its bound.
LEMMA TypeStep == IInv /\ [Next]_vars => TypeOK'
<1> SUFFICES ASSUME IInv, [Next]_vars PROVE TypeOK'
    OBVIOUS
<1> USE SizesAssumption, NowhereAssumption
<1> USE DEF IInv, TypeOK, ThreadState
<1>1. CASE Publish
    BY <1>1 DEF Publish, reader, clients
<1>2. ASSUME NEW p \in Pods, Boot(p) PROVE TypeOK'
    BY <1>2 DEF Boot, redis, clients
<1>3. ASSUME NEW p \in Pods, BootFails(p) PROVE TypeOK'
    BY <1>3 DEF BootFails, Fault, redis, clients
<1>4. ASSUME NEW p \in Pods, ReadBatch(p) PROVE TypeOK'
    BY <1>4 DEF ReadBatch, redis, clients, Lesser
<1>5. ASSUME NEW p \in Pods, PassOver(p) PROVE TypeOK'
    BY <1>5 DEF PassOver, redis, clients
<1>6. ASSUME NEW p \in Pods, Materialize(p) PROVE TypeOK'
  <2> DEFINE e == newest[p] + 1
  <2>1. e \in (1 .. published) \ Skipped
    BY <1>6 DEF Materialize
  <2>2. items' = items \cup {e} /\ items' \subseteq (1 .. published) \ Skipped
    BY <1>6, <2>1 DEF Materialize
  <2>3. messages' \in [Pods -> SUBSET items']
    BY <1>6, <2>2 DEF Materialize
  <2>4. owed' \in [Clients -> SUBSET items']
    BY <1>6, <2>2 DEF Materialize
  <2>5. newest' \in [Pods -> 0 .. published]
    BY <1>6, <2>1 DEF Materialize
  <2> QED
    BY <1>6, <2>2, <2>3, <2>4, <2>5 DEF Materialize
<1>7. ASSUME NEW p \in Pods, MaterializeFails(p) PROVE TypeOK'
    BY <1>7 DEF MaterializeFails, Fault, clients
<1>8. ASSUME NEW p \in Pods, Persist(p) PROVE TypeOK'
    BY <1>8 DEF Persist, clients
<1>9. ASSUME NEW p \in Pods, PersistFails(p) PROVE TypeOK'
    BY <1>9 DEF PersistFails, Fault, clients
<1>10. ASSUME NEW p \in Pods, CopyQueues(p) PROVE TypeOK'
    BY <1>10 DEF CopyQueues, redis, clients
<1>11. ASSUME NEW p \in Pods, FanOut(p) PROVE TypeOK'
  <2>1. PICK e \in messages[p] : Send(p, e)
    BY <1>11 DEF FanOut
  <2>2. e \in Nat
    OBVIOUS
  <2>3. \A c \in Clients : queue'[c] \in Seq(Nat) /\ Len(queue'[c]) <= QueueSize
    BY <2>1, <2>2, PutFacts DEF Send
  <2>4. queue' \in [Clients -> Seq(Nat)]
    BY <2>1, <2>3 DEF Send
  <2>5. owed' \in [Clients -> SUBSET items]
    BY <2>1 DEF Send
  <2>6. messages' \in [Pods -> SUBSET items]
    BY <2>1 DEF Send
  <2>7. thread' \in [Pods -> ThreadState]
    BY <2>1 DEF Send
  <2> QED
    BY <2>1, <2>3, <2>4, <2>5, <2>6, <2>7 DEF Send, redis
<1>12. ASSUME NEW p \in Pods, Crash(p) PROVE TypeOK'
    BY <1>12 DEF Crash, Fault, redis
<1>13. ASSUME NEW c \in Clients, NEW p \in Pods, Connect(c, p) PROVE TypeOK'
    BY <1>13 DEF Connect, redis
<1>14. ASSUME NEW c \in Clients, Join(c) PROVE TypeOK'
    BY <1>14 DEF Join, redis, reader
<1>15. ASSUME NEW c \in Clients, Receive(c) PROVE TypeOK'
    BY <1>15 DEF Receive, redis, reader
<1>16. ASSUME NEW c \in Clients, Disconnect(c) PROVE TypeOK'
    BY <1>16 DEF Disconnect, redis
<1>17. CASE UNCHANGED vars
    BY <1>17 DEF vars, redis, reader, clients
<1> HIDE DEF TypeOK
<1> QED
    BY <1>1, <1>2, <1>3, <1>4, <1>5, <1>6, <1>7, <1>8, <1>9, <1>10, <1>11,
       <1>12, <1>13, <1>14, <1>15, <1>16, <1>17 DEF Next, Reader

\* The batch in hand lies after the thread's position until that moves.
LEMMA BatchStep == IInv /\ [Next]_vars => BatchInv'
<1> SUFFICES ASSUME IInv, [Next]_vars PROVE BatchInv'
    OBVIOUS
<1> USE SizesAssumption
<1> USE DEF IInv, TypeOK, CoverInv, BatchInv, ThreadState
<1>1. CASE Publish
    BY <1>1 DEF Publish, reader, clients
<1>2. ASSUME NEW p \in Pods, Boot(p) PROVE BatchInv'
    BY <1>2 DEF Boot, redis, clients
<1>3. ASSUME NEW p \in Pods, BootFails(p) PROVE BatchInv'
    BY <1>3 DEF BootFails, Fault, redis, clients
<1>4. ASSUME NEW p \in Pods, ReadBatch(p) PROVE BatchInv'
    BY <1>4 DEF ReadBatch, redis, clients, Lesser
<1>5. ASSUME NEW p \in Pods, PassOver(p) PROVE BatchInv'
    BY <1>5 DEF PassOver, redis, clients
<1>6. ASSUME NEW p \in Pods, Materialize(p) PROVE BatchInv'
    BY <1>6 DEF Materialize
<1>7. ASSUME NEW p \in Pods, MaterializeFails(p) PROVE BatchInv'
    BY <1>7 DEF MaterializeFails, Fault, clients
<1>8. ASSUME NEW p \in Pods, Persist(p) PROVE BatchInv'
    BY <1>8 DEF Persist, clients
<1>9. ASSUME NEW p \in Pods, PersistFails(p) PROVE BatchInv'
    BY <1>9 DEF PersistFails, Fault, clients
<1>10. ASSUME NEW p \in Pods, CopyQueues(p) PROVE BatchInv'
    BY <1>10 DEF CopyQueues, redis, clients
<1>11. ASSUME NEW p \in Pods, FanOut(p) PROVE BatchInv'
    BY <1>11 DEF FanOut, redis, Send
<1>12. ASSUME NEW p \in Pods, Crash(p) PROVE BatchInv'
    BY <1>12 DEF Crash, Fault, redis
<1>13. ASSUME NEW c \in Clients, NEW p \in Pods, Connect(c, p) PROVE BatchInv'
    BY <1>13 DEF Connect, redis
<1>14. ASSUME NEW c \in Clients, Join(c) PROVE BatchInv'
    BY <1>14 DEF Join, redis, reader
<1>15. ASSUME NEW c \in Clients, Receive(c) PROVE BatchInv'
    BY <1>15 DEF Receive, redis, reader
<1>16. ASSUME NEW c \in Clients, Disconnect(c) PROVE BatchInv'
    BY <1>16 DEF Disconnect, redis
<1>17. CASE UNCHANGED vars
    BY <1>17 DEF vars, redis, reader, clients
<1> HIDE DEF BatchInv
<1> QED
    BY <1>1, <1>2, <1>3, <1>4, <1>5, <1>6, <1>7, <1>8, <1>9, <1>10, <1>11,
       <1>12, <1>13, <1>14, <1>15, <1>16, <1>17 DEF Next, Reader

\* What a client was sent stays behind its pod's position and its batch.
LEMMA SentStep == IInv /\ [Next]_vars => SentInv'
<1> SUFFICES ASSUME IInv, [Next]_vars PROVE SentInv'
    OBVIOUS
<1> USE SizesAssumption, NowhereAssumption
<1> USE DEF IInv, TypeOK, CoverInv, BatchInv, SentInv, Untouched, SentBefore, ThreadState
<1>1. CASE Publish
    BY <1>1 DEF Publish, reader, clients
<1>2. ASSUME NEW p \in Pods, Boot(p) PROVE SentInv'
    BY <1>2 DEF Boot, redis, clients
<1>3. ASSUME NEW p \in Pods, BootFails(p) PROVE SentInv'
    BY <1>3 DEF BootFails, Fault, redis, clients
<1>4. ASSUME NEW p \in Pods, ReadBatch(p) PROVE SentInv'
    BY <1>4 DEF ReadBatch, redis, clients, Lesser
<1>5. ASSUME NEW p \in Pods, PassOver(p) PROVE SentInv'
    BY <1>5 DEF PassOver, redis, clients
<1>6. ASSUME NEW p \in Pods, Materialize(p) PROVE SentInv'
    BY SMTT(30), <1>6 DEF Materialize
<1>7. ASSUME NEW p \in Pods, MaterializeFails(p) PROVE SentInv'
    BY <1>7 DEF MaterializeFails, Fault, clients
<1>8. ASSUME NEW p \in Pods, Persist(p) PROVE SentInv'
  <2>1. lastId[p] <= newest[p] /\ lastId' = [lastId EXCEPT ![p] = newest[p]]
    BY <1>8 DEF Persist
  <2>2. /\ thread' \in [Pods -> ThreadState]
        /\ thread'[p] \notin {"off", "boot"}
        /\ \A u \in Pods : u # p => thread'[u] = thread[u]
        /\ UNCHANGED <<messages, clients>>
    BY <1>8 DEF Persist
  <2>3. \A c \in Clients : at[c] = p =>
            /\ SentBefore(c, lastId[p] + 1)
            /\ \A m \in messages[p] : SentBefore(c, m)
    BY <1>8 DEF Persist
  <2>4. \A c \in Clients : at[c] = p => SentBefore(c, newest[p] + 1)
    BY SMTT(30), <2>1, <2>3
  <2> QED
    BY SMTT(30), <2>1, <2>2, <2>3, <2>4 DEF clients
<1>9. ASSUME NEW p \in Pods, PersistFails(p) PROVE SentInv'
  <2>1. lastId[p] <= newest[p] /\ lastId' = [lastId EXCEPT ![p] = newest[p]]
    BY <1>9 DEF PersistFails
  <2>2. /\ thread' \in [Pods -> ThreadState]
        /\ thread'[p] \notin {"off", "boot"}
        /\ \A u \in Pods : u # p => thread'[u] = thread[u]
        /\ UNCHANGED <<messages, clients>>
    BY <1>9 DEF PersistFails
  <2>3. \A c \in Clients : at[c] = p =>
            /\ SentBefore(c, lastId[p] + 1)
            /\ \A m \in messages[p] : SentBefore(c, m)
    BY <1>9 DEF PersistFails
  <2>4. \A c \in Clients : at[c] = p => SentBefore(c, newest[p] + 1)
    BY SMTT(30), <2>1, <2>3
  <2> QED
    BY SMTT(30), <2>1, <2>2, <2>3, <2>4 DEF clients
<1>10. ASSUME NEW p \in Pods, CopyQueues(p) PROVE SentInv'
    BY <1>10 DEF CopyQueues, redis, clients
<1>11. ASSUME NEW p \in Pods, FanOut(p) PROVE SentInv'
  <2>1. PICK e \in messages[p] : (\A f \in messages[p] : e <= f) /\ Send(p, e)
    BY <1>11 DEF FanOut
  <2>2. e \in Nat /\ e <= lastId[p]
    BY <1>11 DEF FanOut
  <2>3. /\ UNCHANGED <<lastId, at, seen>>
        /\ thread'[p] \in {"read", "fan"}
        /\ \A u \in Pods : u # p => thread'[u] = thread[u] /\ messages'[u] = messages[u]
        /\ \A m \in messages'[p] : m \in messages[p] /\ m \in Nat /\ e < m
    BY <2>1, <2>2 DEF Send
  <2>4. ASSUME NEW c \in Clients, NEW n \in Nat, e < n, SentBefore(c, n)
        PROVE  SentBefore(c, n)'
    <3>1. \A i \in 1 .. Len(queue'[c]) :
              queue'[c][i] = e \/ \E j \in 1 .. Len(queue[c]) : queue'[c][i] = queue[c][j]
      BY <2>1, <2>2, PutFacts DEF Send
    <3> QED
      BY ZenonT(40), <2>2, <2>3, <2>4, <3>1
  <2>5. ASSUME NEW c \in Clients, at[c] # p
        PROVE  queue'[c] = queue[c]
    BY <2>1, <2>5 DEF Send
  <2>6. ASSUME NEW c \in Clients, at[c] = p
        PROVE  /\ SentBefore(c, lastId[p] + 1)'
               /\ \A m \in messages'[p] : SentBefore(c, m)'
    <3>1. /\ lastId[p] + 1 \in Nat /\ e < lastId[p] + 1
          /\ SentBefore(c, lastId[p] + 1)
          /\ \A m \in messages[p] : SentBefore(c, m)
      BY <1>11, <2>2, <2>6 DEF FanOut
    <3>2. SentBefore(c, lastId[p] + 1)'
      BY <2>3, <2>4, <3>1
    <3> QED
      BY <2>3, <2>4, <3>1, <3>2
  <2>7. ASSUME NEW c \in Clients, at[c] = Nowhere
        PROVE  Untouched(c)'
    BY <2>3, <2>5, <2>7
  <2>8. ASSUME NEW c \in Clients, NEW u \in Pods, at[c] = u, u # p
        PROVE  /\ thread'[u] \in {"off", "boot"} => Untouched(c)'
               /\ SentBefore(c, lastId[u] + 1)'
               /\ thread'[u] \in {"copy", "fan"} =>
                      \A m \in messages'[u] : SentBefore(c, m)'
    BY <2>3, <2>5, <2>8
  <2> HIDE DEF Untouched, SentBefore
  <2> QED
    BY <2>3, <2>6, <2>7, <2>8
<1>12. ASSUME NEW p \in Pods, Crash(p) PROVE SentInv'
    BY SMTT(30), <1>12 DEF Crash, Fault, redis
<1>13. ASSUME NEW c \in Clients, NEW p \in Pods, Connect(c, p) PROVE SentInv'
  <2>1. Untouched(c) /\ SentBefore(c, lastId[p] + 1)
    BY <1>13 DEF Connect
  <2>2. \A m \in messages[p] : SentBefore(c, m)
    BY <2>1
  <2>3. UNCHANGED <<lastId, messages, queue, seen>>
    BY <1>13 DEF Connect, redis
  <2>4. /\ thread' \in [Pods -> ThreadState]
        /\ \A u \in Pods : thread'[u] # thread[u] => thread[u] = "off" /\ thread'[u] = "boot"
    BY <1>13 DEF Connect
  <2>5. \A d \in Clients : d # c => at'[d] = at[d]
    BY <1>13 DEF Connect
  <2>6. at'[c] = p
    BY <1>13 DEF Connect
  <2>7. ASSUME NEW d \in Clients, d # c, NEW u \in Pods, at'[d] = u
        PROVE  /\ thread'[u] \in {"off", "boot"} => queue'[d] = <<>> /\ seen'[d] = 0
               /\ SentBefore(d, lastId[u] + 1)
               /\ thread'[u] \in {"copy", "fan"} =>
                      \A m \in messages[u] : SentBefore(d, m)
    <3>1. at[d] = u /\ queue'[d] = queue[d] /\ seen'[d] = seen[d]
      BY <2>3, <2>5, <2>7
    <3>2. thread'[u] \in {"off", "boot"} => thread[u] \in {"off", "boot"}
      BY <2>4
    <3>3. thread'[u] \in {"copy", "fan"} => thread[u] \in {"copy", "fan"}
      BY <2>4
    <3> QED
      BY <3>1, <3>2, <3>3
  <2>8. ASSUME NEW d \in Clients, at'[d] = Nowhere
        PROVE  queue'[d] = <<>> /\ seen'[d] = 0
    BY <2>3, <2>5, <2>6, <2>8
  <2>9. ASSUME NEW d \in Clients, NEW u \in Pods, at'[d] = u
        PROVE  /\ thread'[u] \in {"off", "boot"} => queue'[d] = <<>> /\ seen'[d] = 0
               /\ SentBefore(d, lastId[u] + 1)
               /\ thread'[u] \in {"copy", "fan"} =>
                      \A m \in messages[u] : SentBefore(d, m)
    <3>1. CASE d # c
      BY <2>7, <2>9, <3>1
    <3>2. CASE d = c
      <4>1. u = p
        BY <2>6, <2>9, <3>2
      <4> QED
        BY <2>1, <2>2, <2>3, <3>2, <4>1
    <3> QED
      BY <3>1, <3>2
  <2> QED
    BY <2>3, <2>8, <2>9
<1>14. ASSUME NEW c \in Clients, Join(c) PROVE SentInv'
    BY <1>14 DEF Join, redis, reader
<1>15. ASSUME NEW c \in Clients, Receive(c) PROVE SentInv'
  <2>1. /\ queue[c] # <<>> /\ queue[c] \in Seq(Nat)
        /\ queue'[c] = Tail(queue[c]) /\ seen'[c] = Head(queue[c])
        /\ UNCHANGED <<thread, lastId, messages, at>>
    BY <1>15 DEF Receive, reader
  <2>2. ASSUME NEW n, SentBefore(c, n)
        PROVE  SentBefore(c, n)'
    BY <2>1, <2>2, TailFacts
  <2>3. ASSUME NEW d \in Clients, d # c
        PROVE  queue'[d] = queue[d] /\ seen'[d] = seen[d]
    BY <1>15, <2>3 DEF Receive
  <2>4. ~Untouched(c)
    BY <2>1
  <2>5. ASSUME NEW d \in Clients, NEW n, SentBefore(d, n)
        PROVE  SentBefore(d, n)'
    BY <2>2, <2>3, <2>5
  <2>6. ASSUME NEW d \in Clients, Untouched(d)
        PROVE  Untouched(d)'
    BY <2>3, <2>4, <2>6
  <2> HIDE DEF Untouched, SentBefore
  <2> QED
    BY <2>1, <2>5, <2>6
<1>16. ASSUME NEW c \in Clients, Disconnect(c) PROVE SentInv'
  <2>1. at'[c] = Nowhere /\ Untouched(c)'
    BY <1>16 DEF Disconnect
  <2>2. \A d \in Clients : d # c =>
            at'[d] = at[d] /\ queue'[d] = queue[d] /\ seen'[d] = seen[d]
    BY <1>16 DEF Disconnect
  <2>3. UNCHANGED <<thread, lastId, messages>>
    BY <1>16 DEF Disconnect
  <2>4. ASSUME NEW d \in Clients, d # c
        PROVE  /\ at'[d] = Nowhere => Untouched(d)'
               /\ \A p \in Pods : at'[d] = p =>
                    /\ thread'[p] \in {"off", "boot"} => Untouched(d)'
                    /\ SentBefore(d, lastId[p] + 1)'
                    /\ thread'[p] \in {"copy", "fan"} =>
                           \A m \in messages'[p] : SentBefore(d, m)'
    BY ZenonT(40), <2>2, <2>3, <2>4
  <2>5. \A p \in Pods : at'[c] # p
    BY <2>1
  <2> QED
    BY <2>1, <2>4, <2>5
<1>17. CASE UNCHANGED vars
    BY <1>17 DEF vars, redis, reader, clients
<1> HIDE DEF SentInv
<1> QED
    BY <1>1, <1>2, <1>3, <1>4, <1>5, <1>6, <1>7, <1>8, <1>9, <1>10, <1>11,
       <1>12, <1>13, <1>14, <1>15, <1>16, <1>17 DEF Next, Reader

\* A queue stays ordered: what is put in it is newer than what it holds.
LEMMA OrderStep == IInv /\ [Next]_vars => StreamInOrder'
<1> SUFFICES ASSUME IInv, [Next]_vars PROVE StreamInOrder'
    OBVIOUS
<1> USE SizesAssumption
<1> USE DEF IInv, TypeOK, SentInv, Untouched, SentBefore, StreamInOrder
<1>1. CASE Publish
    BY <1>1 DEF Publish, reader, clients
<1>2. ASSUME NEW p \in Pods, Boot(p) PROVE StreamInOrder'
    BY <1>2 DEF Boot, redis, clients
<1>3. ASSUME NEW p \in Pods, BootFails(p) PROVE StreamInOrder'
    BY <1>3 DEF BootFails, Fault, redis, clients
<1>4. ASSUME NEW p \in Pods, ReadBatch(p) PROVE StreamInOrder'
    BY <1>4 DEF ReadBatch, redis, clients, Lesser
<1>5. ASSUME NEW p \in Pods, PassOver(p) PROVE StreamInOrder'
    BY <1>5 DEF PassOver, redis, clients
<1>6. ASSUME NEW p \in Pods, Materialize(p) PROVE StreamInOrder'
    BY <1>6 DEF Materialize
<1>7. ASSUME NEW p \in Pods, MaterializeFails(p) PROVE StreamInOrder'
    BY <1>7 DEF MaterializeFails, Fault, clients
<1>8. ASSUME NEW p \in Pods, Persist(p) PROVE StreamInOrder'
    BY <1>8 DEF Persist, clients
<1>9. ASSUME NEW p \in Pods, PersistFails(p) PROVE StreamInOrder'
    BY <1>9 DEF PersistFails, Fault, clients
<1>10. ASSUME NEW p \in Pods, CopyQueues(p) PROVE StreamInOrder'
    BY <1>10 DEF CopyQueues, redis, clients
<1>11. ASSUME NEW p \in Pods, FanOut(p) PROVE StreamInOrder'
  <2>1. PICK e \in messages[p] : Send(p, e)
    BY <1>11 DEF FanOut
  <2>2. e \in Nat
    OBVIOUS
  <2>3. ASSUME NEW c \in Clients, at[c] = p
        PROVE  /\ Ordered(queue[c]) /\ seen[c] < e /\ SentBefore(c, e)
               /\ \A i \in 1 .. Len(queue[c]) : seen[c] < queue[c][i]
    BY <1>11, <2>3 DEF FanOut, Ordered
  <2>4. ASSUME NEW c \in Clients, at[c] = p, c \in targets[p]
        PROVE  /\ Ordered(queue'[c])
               /\ \A i \in 1 .. Len(queue'[c]) : seen[c] < queue'[c][i]
    <3>1. queue'[c] = PutDropOldest(queue[c], e)
      BY <2>1, <2>4 DEF Send
    <3>2. /\ Ordered(queue[c]) /\ seen[c] < e
          /\ \A i \in 1 .. Len(queue[c]) : queue[c][i] < e /\ seen[c] < queue[c][i]
      BY <2>3, <2>4
    <3>3. queue[c] \in Seq(Nat) /\ Len(queue[c]) <= QueueSize
      OBVIOUS
    <3> HIDE DEF StreamInOrder, SentInv, TypeOK
    <3> DEFINE q == queue[c]
               r == PutDropOldest(q, e)
    <3>4. \A j \in 1 .. Len(q) : q[j] < e
      BY <3>2
    <3>5. Ordered(q)
      BY <3>2
    <3>6. q \in Seq(Nat) /\ Len(q) <= QueueSize
      BY <3>3
    <3> HIDE DEF q
    <3>7. /\ \A i \in 1 .. Len(r) : r[i] = e \/ \E j \in 1 .. Len(q) : r[i] = q[j]
          /\ Ordered(r)
      BY <2>2, <3>4, <3>5, <3>6, PutFacts
    <3> QED
      BY <3>1, <3>2, <3>7 DEF q
  <2>5. ASSUME NEW c \in Clients, ~(at[c] = p /\ c \in targets[p])
        PROVE  queue'[c] = queue[c]
    BY <2>1, <2>5 DEF Send
  <2>6. seen' = seen
    BY <2>1 DEF Send
  <2> QED
    BY <2>4, <2>5, <2>6 DEF Ordered
<1>12. ASSUME NEW p \in Pods, Crash(p) PROVE StreamInOrder'
    BY SMTT(30), <1>12 DEF Crash, Fault, redis
<1>13. ASSUME NEW c \in Clients, NEW p \in Pods, Connect(c, p) PROVE StreamInOrder'
    BY <1>13 DEF Connect, redis
<1>14. ASSUME NEW c \in Clients, Join(c) PROVE StreamInOrder'
    BY <1>14 DEF Join, redis, reader
<1>15. ASSUME NEW c \in Clients, Receive(c) PROVE StreamInOrder'
  <2>1. /\ queue[c] # <<>> /\ queue[c] \in Seq(Nat)
        /\ queue'[c] = Tail(queue[c]) /\ seen'[c] = Head(queue[c])
    BY <1>15 DEF Receive
  <2>4. Ordered(queue[c])
    BY DEF Ordered
  <2>2. /\ \A i \in 1 .. Len(queue'[c]) : seen'[c] < queue'[c][i]
        /\ \A i, j \in 1 .. Len(queue'[c]) : i < j => queue'[c][i] < queue'[c][j]
    <3> HIDE DEF IInv, TypeOK, BatchInv, StreamInOrder
    <3> QED
      BY <2>1, <2>4, TailOrdered DEF Ordered
  <2>3. \A d \in Clients : d # c => queue'[d] = queue[d] /\ seen'[d] = seen[d]
    BY <1>15 DEF Receive
  <2> QED
    BY <2>2, <2>3
<1>16. ASSUME NEW c \in Clients, Disconnect(c) PROVE StreamInOrder'
    BY SMTT(30), <1>16 DEF Disconnect, redis
<1>17. CASE UNCHANGED vars
    BY <1>17 DEF vars, redis, reader, clients
<1> HIDE DEF StreamInOrder
<1> QED
    BY <1>1, <1>2, <1>3, <1>4, <1>5, <1>6, <1>7, <1>8, <1>9, <1>10, <1>11,
       <1>12, <1>13, <1>14, <1>15, <1>16, <1>17 DEF Next, Reader

\* Without a failure a debt is paid before the thread turns to the next batch.
LEMMA OwedStep == IInv /\ [Next]_vars => OwedInv'
<1> SUFFICES ASSUME IInv, [Next]_vars PROVE OwedInv'
    OBVIOUS
<1> USE SizesAssumption, NowhereAssumption
<1> USE DEF IInv, TypeOK, OwedInv, BatchInv, ThreadState
<1>1. CASE Publish
    BY <1>1 DEF Publish, reader, clients
<1>2. ASSUME NEW p \in Pods, Boot(p) PROVE OwedInv'
    BY <1>2 DEF Boot, redis, clients
<1>3. ASSUME NEW p \in Pods, BootFails(p) PROVE OwedInv'
    BY <1>3 DEF BootFails, Fault, redis, clients
<1>4. ASSUME NEW p \in Pods, ReadBatch(p) PROVE OwedInv'
    BY <1>4 DEF ReadBatch, redis, clients, Lesser
<1>5. ASSUME NEW p \in Pods, PassOver(p) PROVE OwedInv'
    BY <1>5 DEF PassOver, redis, clients
<1>6. ASSUME NEW p \in Pods, Materialize(p) PROVE OwedInv'
    BY <1>6 DEF Materialize
<1>7. ASSUME NEW p \in Pods, MaterializeFails(p) PROVE OwedInv'
    BY <1>7 DEF MaterializeFails, Fault, clients
<1>8. ASSUME NEW p \in Pods, Persist(p) PROVE OwedInv'
    BY <1>8 DEF Persist, clients
<1>9. ASSUME NEW p \in Pods, PersistFails(p) PROVE OwedInv'
    BY <1>9 DEF PersistFails, Fault, clients
<1>10. ASSUME NEW p \in Pods, CopyQueues(p) PROVE OwedInv'
    BY <1>10 DEF CopyQueues, redis, clients
<1>11. ASSUME NEW p \in Pods, FanOut(p) PROVE OwedInv'
  <2>1. PICK e \in messages[p] : Send(p, e)
    BY <1>11 DEF FanOut
  <2>2. UNCHANGED <<at, joined, targets, faults>>
    BY <2>1 DEF Send
  <2>3. \A u \in Pods : u # p => thread'[u] = thread[u] /\ messages'[u] = messages[u]
    BY <2>1 DEF Send
  <2>4. /\ messages'[p] = messages[p] \ {e}
        /\ thread'[p] = IF messages[p] = {e} THEN "read" ELSE "fan"
    BY <2>1 DEF Send
  <2>5. ASSUME NEW c \in Clients, at[c] # p
        PROVE  owed'[c] = owed[c]
    BY <2>1, <2>5 DEF Send
  <2>6. ASSUME NEW c \in Clients, at[c] = p, faults = 0
        PROVE  owed'[c] = owed[c] \ {e} \/ (owed'[c] = owed[c] /\ owed[c] = {})
    BY <1>11, <2>1, <2>6 DEF Send, FanOut
  <2>7. ASSUME NEW c \in Clients, at[c] = p, faults = 0
        PROVE  /\ ~joined[c] => owed'[c] = {}
               /\ owed'[c] \subseteq messages'[p]
               /\ thread'[p] = "read" => owed'[c] = {}
               /\ owed'[c] # {} => c \in targets[p]
    <3>1. owed[c] \subseteq messages[p] /\ (~joined[c] => owed[c] = {})
      BY <2>7
    <3>2. owed[c] # {} => c \in targets[p]
      BY <1>11, <2>7 DEF FanOut
    <3> QED
      BY ZenonT(40), <2>4, <2>6, <2>7, <3>1, <3>2
  <2>8. thread[p] = "fan"
    BY <1>11 DEF FanOut
  <2>9. ASSUME NEW c \in Clients, NEW u \in Pods, at[c] = u, u # p, faults = 0
        PROVE  /\ ~joined[c] => owed'[c] = {}
               /\ thread'[u] \in {"off", "boot", "read"} => owed'[c] = {}
               /\ owed'[c] \subseteq messages'[u]
               /\ thread'[u] = "fan" /\ owed'[c] # {} => c \in targets[u]
    BY <2>3, <2>5, <2>9
  <2>10. ASSUME NEW c \in Clients, at[c] = Nowhere, faults = 0
         PROVE  owed'[c] = {}
    BY <2>5, <2>10
  <2>11. thread'[p] \in {"read", "fan"}
    BY <2>4
  <2> QED
    BY ZenonT(40), <2>2, <2>7, <2>9, <2>10, <2>11
<1>12. ASSUME NEW p \in Pods, Crash(p) PROVE OwedInv'
    BY <1>12 DEF Crash, Fault, redis
<1>13. ASSUME NEW c \in Clients, NEW p \in Pods, Connect(c, p) PROVE OwedInv'
    BY <1>13 DEF Connect, redis
<1>14. ASSUME NEW c \in Clients, Join(c) PROVE OwedInv'
    BY <1>14 DEF Join, redis, reader
<1>15. ASSUME NEW c \in Clients, Receive(c) PROVE OwedInv'
    BY <1>15 DEF Receive, redis, reader
<1>16. ASSUME NEW c \in Clients, Disconnect(c) PROVE OwedInv'
    BY <1>16 DEF Disconnect, redis
<1>17. CASE UNCHANGED vars
    BY <1>17 DEF vars, redis, reader, clients
<1> HIDE DEF OwedInv
<1> QED
    BY <1>1, <1>2, <1>3, <1>4, <1>5, <1>6, <1>7, <1>8, <1>9, <1>10, <1>11,
       <1>12, <1>13, <1>14, <1>15, <1>16, <1>17 DEF Next, Reader

-----------------------------------------------------------------------------
LEMMA IInvStep == IInv /\ [Next]_vars => IInv'
BY TypeStep, CoverStep, BatchStep, SentStep, OrderStep, OwedStep DEF IInv

\* In every reachable state IInv holds.
THEOREM Inductive == Spec => []IInv
BY IInvInit, IInvStep, PTL DEF Spec

\* Type correctness of the message center; in particular no SSE queue ever
\* holds more than QueueSize messages.
THEOREM TypeCorrect == Spec => []TypeOK
<1>1. IInv => TypeOK
    BY DEF IInv
<1> QED
    BY <1>1, Inductive, PTL

\* No event at or before the persisted position is ever lost to the list.
THEOREM NothingLost == Spec => []CursorCovered
<1>1. IInv => CursorCovered
    BY DEF IInv, CoverInv, Covered, CursorCovered
<1> QED
    BY <1>1, Inductive, PTL

\* Every SSE connection is in stream order, without repeats.
THEOREM InOrder == Spec => []StreamInOrder
<1>1. IInv => StreamInOrder
    BY DEF IInv
<1> QED
    BY <1>1, Inductive, PTL

\* Without a failure a connected client's queue gets every message.
THEOREM NoneSkipped == Spec => []NoMessageSkipped
<1>1. IInv => NoMessageSkipped
    BY DEF IInv, OwedInv, NoMessageSkipped
<1> QED
    BY <1>1, Inductive, PTL

\* A step of the system is a step of the durable cursor, or none.
LEMMA StepRefines == IInv /\ [Next]_vars => [Promise!DNext]_(Promise!dvars)
<1> SUFFICES ASSUME IInv, [Next]_vars PROVE [Promise!DNext]_(Promise!dvars)
    OBVIOUS
<1> USE DEF Promise!dvars
<1>1. CASE Publish
    BY <1>1 DEF Publish, Promise!DNext, Promise!DPublish
<1>2. ASSUME NEW p \in Pods, Materialize(p) PROVE Promise!DNext
  <2>1. newest[p] + 1 \in (1 .. published) \ Skipped
    BY <1>2 DEF Materialize, IInv, TypeOK
  <2> QED
    BY <1>2, <2>1 DEF Materialize, Promise!DNext, Promise!Materialized
<1>3. ASSUME NEW p \in Pods, MaterializeFails(p)
      PROVE  Promise!DNext \/ UNCHANGED Promise!dvars
  <2>1. newest[p] + 1 \in (1 .. published) \ Skipped
    BY <1>3 DEF MaterializeFails, IInv, TypeOK
  <2> QED
    BY <1>3, <2>1 DEF MaterializeFails, Promise!DNext, Promise!Materialized
<1>4. ASSUME NEW p \in Pods, Persist(p) \/ PersistFails(p)
      PROVE  Promise!DNext \/ UNCHANGED Promise!dvars
  <2>1. newest[p] \in 0 .. published /\ Promise!Covered(newest[p])
    BY <1>4 DEF Persist, PersistFails, IInv, TypeOK, CoverInv, Covered, Promise!Covered
  <2> QED
    BY <1>4, <2>1 DEF Persist, PersistFails, Promise!DNext, Promise!Commit
<1>5. ASSUME NEW p \in Pods,
             Boot(p) \/ BootFails(p) \/ ReadBatch(p) \/ PassOver(p) \/ CopyQueues(p)
             \/ FanOut(p) \/ Crash(p)
      PROVE  UNCHANGED Promise!dvars
    BY <1>5 DEF Boot, BootFails, ReadBatch, PassOver, CopyQueues, FanOut, Send, Crash,
                redis
<1>6. ASSUME NEW c \in Clients,
             (\E p \in Pods : Connect(c, p)) \/ Join(c) \/ Receive(c) \/ Disconnect(c)
      PROVE  UNCHANGED Promise!dvars
    BY <1>6 DEF Connect, Join, Receive, Disconnect, redis
<1>7. CASE UNCHANGED vars
    BY <1>7 DEF vars, redis
<1> QED
    BY <1>1, <1>2, <1>3, <1>4, <1>5, <1>6, <1>7 DEF Next, Reader

\* The reader threads of all pods, with their crashes and failing calls,
\* implement the durable cursor.
THEOREM Refinement == Spec => ImplementsPromise
<1>1. Init => Promise!DInit
    BY DEF Init, Promise!DInit
<1> QED
    BY <1>1, StepRefines, Inductive, PTL
       DEF Spec, ImplementsPromise, Promise!DSpec

=============================================================================
