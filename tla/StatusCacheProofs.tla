------------------------- MODULE StatusCacheProofs -------------------------
(***************************************************************************)
(* Proofs about StatusCache, for any set of request threads, any TTL and   *)
(* any bounds.  IInv is the inductive invariant: it follows a page from    *)
(* the reads of a request into the cache and out to another request.       *)
(***************************************************************************)
EXTENDS StatusCache, TLAPS

\* The page shows a state the flag has had, and the latest one exactly.
Sound(p) ==
    \/ p.run = NoRun
    \/ /\ p.run.ver \in 0 .. run.ver
       /\ p.run.ver = run.ver => p.run = run

Causal(p) == p.run # NoRun => p.row <= p.run.ver

Current(p) == p.run \in {run, NoRun}

HasRun(t) == pc[t] \in {"rest", "store"}

RowInv == \A t \in Threads : pc[t] = "run" => page[t].row <= run.ver

ReadInv == \A t \in Threads :
    HasRun(t) => /\ Sound(page[t])
                 /\ Causal(page[t])
                 /\ ~Current(page[t]) => sinceWrite <= age[t]
                 /\ page[t].run = NoRun => sinceUnread <= age[t]

CacheInv ==
    cacheSet => /\ Sound(cache)
                /\ Causal(cache)
                /\ ~Current(cache) => sinceWrite <= cacheAge + MaxCompute
                /\ cache.run = NoRun => sinceUnread <= cacheAge + MaxCompute

AnswerInv == \A t \in Threads :
    outcome[t] = "page" => pc[t] = "idle" /\ Causal(page[t])

OverlapInv == \A t \in Threads :
    (HasRun(t) /\ ~overlapped[t] /\ cacheSet)
        => \/ page[t].run = NoRun
           \/ cache.run = NoRun
           \/ cache.run.ver <= page[t].run.ver

\* Two pages that tell of the same write tell the same of it.
Agree(p, q) == p.run.ver = q.run.ver => p.run = q.run

AgreeInv ==
    /\ \A t, u \in Threads : HasRun(t) /\ HasRun(u) => Agree(page[t], page[u])
    /\ \A t \in Threads : HasRun(t) /\ cacheSet => Agree(page[t], cache)

IInv == TypeOK /\ RowInv /\ ReadInv /\ CacheInv /\ AnswerInv /\ OverlapInv
        /\ AgreeInv

-----------------------------------------------------------------------------
\* What the record constants are, so that no step needs to look inside them.
LEMMA PageFacts ==
    /\ NoRun \in RunState
    /\ BlankPage \in Page
    /\ NoRun.ver = -1
    /\ BlankPage.run = NoRun
    /\ \A p \in Page : /\ p.row \in Nat
                        /\ p.run \in RunState
                        /\ \A n \in Nat : [p EXCEPT !.row = n] \in Page
                        /\ \A r \in RunState : [p EXCEPT !.run = r] \in Page
                        /\ \A f \in BOOLEAN : [p EXCEPT !.full = f] \in Page
    /\ \A r \in RunState : r = NoRun \/ r.ver \in Nat \cup {-1}
BY DEF NoRun, RunState, BlankPage, Page

\* Every variable stays in its type: pages are pages, the daemon never acts
\* on a control call that was not made, no phase outlasts its bound.
LEMMA TypeStep == TypeOK /\ [Next]_vars => TypeOK'
<1> SUFFICES ASSUME TypeOK, [Next]_vars PROVE TypeOK'
    OBVIOUS
<1> USE TTLAssumption, BoundsAssumption, PageFacts
<1> USE DEF TypeOK, Phase, Outcome, PhaseBound, CacheHorizon, QuietBound
<1>0. run \in RunState
    BY DEF RunState
<1>1. ASSUME NEW t \in Threads, NEW f \in Details, Arrive(t, f) PROVE TypeOK'
  <2>1. /\ page' \in [Threads -> Page]
        /\ pc' \in [Threads -> Phase]
        /\ outcome' \in [Threads -> Outcome]
        /\ full' \in [Threads -> BOOLEAN]
    BY <1>1, DetailsAssumption DEF Arrive
  <2>2. \A u \in Threads : age'[u] <= PhaseBound(pc'[u])
    BY <1>1, <2>1 DEF Arrive
  <2> QED
    BY <1>1, <2>1, <2>2 DEF Arrive
<1>2. ASSUME NEW t \in Threads, LookupHit(t) PROVE TypeOK'
    BY <1>2 DEF LookupHit, Finish
<1>3. ASSUME NEW t \in Threads, LookupMiss(t) PROVE TypeOK'
    BY <1>3 DEF LookupMiss
<1>4. ASSUME NEW t \in Threads, ReadRow(t) PROVE TypeOK'
    BY <1>4 DEF ReadRow
<1>5. ASSUME NEW t \in Threads, ReadRun(t) PROVE TypeOK'
  <2>1. PICK r \in {run, NoRun} : page' = [page EXCEPT ![t].run = r]
    BY <1>5 DEF ReadRun
  <2>3. sinceUnread' \in 0 .. QuietBound
    BY <1>5 DEF ReadRun
  <2>2. page' \in [Threads -> Page]
    BY <1>0, <2>1
  <2> QED
    BY <1>5, <2>2, <2>3 DEF ReadRun
<1>6. ASSUME NEW t \in Threads, ReadRest(t) PROVE TypeOK'
    BY <1>6 DEF ReadRest
<1>7. ASSUME NEW t \in Threads, Fail(t) PROVE TypeOK'
    BY <1>7 DEF Fail, Finish
<1>8. ASSUME NEW t \in Threads, Store(t) PROVE TypeOK'
    BY <1>8 DEF Store, Finish
<1>9. ASSUME NEW s \in BOOLEAN, SetSuspended(s) PROVE TypeOK'
    BY <1>9 DEF SetSuspended
<1>10. CASE DaemonBeat
    BY <1>10 DEF DaemonBeat
<1>11. CASE Restart
  <2>1. /\ page' \in [Threads -> Page]
        /\ pc' \in [Threads -> Phase]
        /\ outcome' \in [Threads -> Outcome]
        /\ full' \in [Threads -> BOOLEAN]
        /\ overlapped' \in [Threads -> BOOLEAN]
        /\ age' \in [Threads -> Nat]
    BY <1>11 DEF Restart
  <2>2. cache' \in Page /\ cacheSet' \in BOOLEAN
    BY <1>11 DEF Restart
  <2>3. cacheAge' \in 0 .. CacheHorizon
    BY <1>11 DEF Restart
  <2> QED
    BY <1>11, <2>1, <2>2, <2>3 DEF Restart
<1>12. CASE Tick
    BY <1>12 DEF Tick, UpTo
<1>13. CASE UNCHANGED vars
    BY <1>13 DEF vars
<1> HIDE DEF TypeOK
<1> QED
    BY <1>1, <1>2, <1>3, <1>4, <1>5, <1>6, <1>7, <1>8, <1>9, <1>10, <1>11,
       <1>12, <1>13 DEF Next, Step, Suspend, Resume

-----------------------------------------------------------------------------
LEMMA IInvInit == Init => IInv
<1> SUFFICES ASSUME Init PROVE IInv
    OBVIOUS
<1> USE TTLAssumption, BoundsAssumption, PageFacts
<1>1. /\ run \in [ver : 0 .. MaxWrites, suspended : BOOLEAN]
      /\ row \in 0 .. run.ver
    BY DEF Init
<1>2. /\ cacheAge \in 0 .. CacheHorizon
      /\ sinceWrite \in 0 .. QuietBound
      /\ sinceUnread \in 0 .. QuietBound
    BY DEF Init, CacheHorizon, QuietBound
<1>3. /\ page \in [Threads -> Page]
      /\ cache \in Page
      /\ \A t \in Threads : age[t] <= PhaseBound(pc[t])
    BY DEF Init, PhaseBound
<1>4. TypeOK
    BY <1>1, <1>2, <1>3 DEF Init, TypeOK, Phase, Outcome
<1> QED
    BY <1>4 DEF Init, IInv, RowInv, ReadInv, CacheInv, AnswerInv, OverlapInv,
                AgreeInv, HasRun

\* The row a request has read is never ahead of the flag.
LEMMA RowStep == IInv /\ [Next]_vars => RowInv'
<1> SUFFICES ASSUME IInv, [Next]_vars PROVE RowInv'
    OBVIOUS
<1> USE DEF RowInv, IInv
<1> USE PageFacts
<1>1. ASSUME NEW t \in Threads, NEW f \in Details, Arrive(t, f) PROVE RowInv'
    BY <1>1 DEF Arrive, TypeOK
<1>2. ASSUME NEW t \in Threads, LookupHit(t) PROVE RowInv'
    BY <1>2 DEF LookupHit, Finish, TypeOK
<1>3. ASSUME NEW t \in Threads, LookupMiss(t) PROVE RowInv'
    BY <1>3 DEF LookupMiss, TypeOK
<1>4. ASSUME NEW t \in Threads, ReadRow(t) PROVE RowInv'
    BY <1>4 DEF ReadRow, TypeOK
<1>5. ASSUME NEW t \in Threads, ReadRun(t) PROVE RowInv'
    BY <1>5 DEF ReadRun, TypeOK
<1>6. ASSUME NEW t \in Threads, ReadRest(t) PROVE RowInv'
    BY <1>6 DEF ReadRest, TypeOK
<1>7. ASSUME NEW t \in Threads, Fail(t) PROVE RowInv'
    BY <1>7 DEF Fail, Finish, TypeOK
<1>8. ASSUME NEW t \in Threads, Store(t) PROVE RowInv'
    BY <1>8 DEF Store, Finish, TypeOK
<1>9. ASSUME NEW s \in BOOLEAN, SetSuspended(s) PROVE RowInv'
    BY <1>9 DEF SetSuspended, TypeOK, Page
<1>10. CASE DaemonBeat
    BY <1>10 DEF DaemonBeat
<1>11. CASE Restart
    BY <1>11 DEF Restart
<1>12. CASE Tick
    BY <1>12 DEF Tick
<1>13. CASE UNCHANGED vars
    BY <1>13 DEF vars
<1> HIDE DEF RowInv
<1> QED
    BY <1>1, <1>2, <1>3, <1>4, <1>5, <1>6, <1>7, <1>8, <1>9, <1>10, <1>11,
       <1>12, <1>13 DEF Next, Step, Suspend, Resume

\* Whatever a request was told was causal when it was stored or read.
LEMMA AnswerStep == IInv /\ [Next]_vars => AnswerInv'
<1> SUFFICES ASSUME IInv, [Next]_vars PROVE AnswerInv'
    OBVIOUS
<1> USE PageFacts, TTLAssumption, BoundsAssumption
<1> USE DEF AnswerInv, ReadInv, CacheInv, HasRun, Causal, IInv, TypeOK
<1>1. ASSUME NEW t \in Threads, NEW f \in Details, Arrive(t, f) PROVE AnswerInv'
    BY <1>1 DEF Arrive
<1>2. ASSUME NEW t \in Threads, LookupHit(t) PROVE AnswerInv'
    BY <1>2 DEF LookupHit, Finish, Warm
<1>3. ASSUME NEW t \in Threads, LookupMiss(t) PROVE AnswerInv'
    BY <1>3 DEF LookupMiss
<1>4. ASSUME NEW t \in Threads, ReadRow(t) PROVE AnswerInv'
    BY <1>4 DEF ReadRow
<1>5. ASSUME NEW t \in Threads, ReadRun(t) PROVE AnswerInv'
    BY <1>5 DEF ReadRun
<1>6. ASSUME NEW t \in Threads, ReadRest(t) PROVE AnswerInv'
    BY <1>6 DEF ReadRest
<1>7. ASSUME NEW t \in Threads, Fail(t) PROVE AnswerInv'
    BY <1>7 DEF Fail, Finish
<1>8. ASSUME NEW t \in Threads, Store(t) PROVE AnswerInv'
    BY <1>8 DEF Store, Finish
<1>9. ASSUME NEW s \in BOOLEAN, SetSuspended(s) PROVE AnswerInv'
    BY <1>9 DEF SetSuspended
<1>10. CASE DaemonBeat
    BY <1>10 DEF DaemonBeat
<1>11. CASE Restart
    BY <1>11 DEF Restart
<1>12. CASE Tick
    BY <1>12 DEF Tick
<1>13. CASE UNCHANGED vars
    BY <1>13 DEF vars
<1> HIDE DEF AnswerInv
<1> QED
    BY <1>1, <1>2, <1>3, <1>4, <1>5, <1>6, <1>7, <1>8, <1>9, <1>10, <1>11,
       <1>12, <1>13 DEF Next, Step, Suspend, Resume

\* A request in progress carries a flag that is current, or outdated by less
\* than the time it has been reading.
LEMMA ReadStep == IInv /\ [Next]_vars => ReadInv'
<1> SUFFICES ASSUME IInv, [Next]_vars PROVE ReadInv'
    OBVIOUS
<1> USE PageFacts, TTLAssumption, BoundsAssumption
<1> USE DEF ReadInv, RowInv, HasRun, Sound, Causal, Current, IInv, TypeOK
<1>1. ASSUME NEW t \in Threads, NEW f \in Details, Arrive(t, f) PROVE ReadInv'
    BY <1>1 DEF Arrive
<1>2. ASSUME NEW t \in Threads, LookupHit(t) PROVE ReadInv'
    BY <1>2 DEF LookupHit, Finish
<1>3. ASSUME NEW t \in Threads, LookupMiss(t) PROVE ReadInv'
    BY <1>3 DEF LookupMiss
<1>4. ASSUME NEW t \in Threads, ReadRow(t) PROVE ReadInv'
    BY <1>4 DEF ReadRow
<1>5. ASSUME NEW t \in Threads, ReadRun(t) PROVE ReadInv'
  <2>1. CASE page' = [page EXCEPT ![t].run = run] /\ UNCHANGED sinceUnread
    BY <1>5, <2>1 DEF ReadRun
  <2>2. CASE page' = [page EXCEPT ![t].run = NoRun] /\ sinceUnread' = 0
    BY <1>5, <2>2 DEF ReadRun
  <2> QED
    BY <1>5, <2>1, <2>2 DEF ReadRun
<1>6. ASSUME NEW t \in Threads, ReadRest(t) PROVE ReadInv'
    BY <1>6 DEF ReadRest
<1>7. ASSUME NEW t \in Threads, Fail(t) PROVE ReadInv'
    BY <1>7 DEF Fail, Finish
<1>8. ASSUME NEW t \in Threads, Store(t) PROVE ReadInv'
    BY <1>8 DEF Store, Finish
<1>9. ASSUME NEW s \in BOOLEAN, SetSuspended(s) PROVE ReadInv'
    BY <1>9 DEF SetSuspended
<1>10. CASE DaemonBeat
    BY <1>10 DEF DaemonBeat
<1>11. CASE Restart
    BY <1>11 DEF Restart
<1>12. CASE Tick
    BY <1>12 DEF Tick, UpTo, QuietBound
<1>13. CASE UNCHANGED vars
    BY <1>13 DEF vars
<1> HIDE DEF ReadInv
<1> QED
    BY <1>1, <1>2, <1>3, <1>4, <1>5, <1>6, <1>7, <1>8, <1>9, <1>10, <1>11,
       <1>12, <1>13 DEF Next, Step, Suspend, Resume

\* The cached page is current, or outdated by no more than its age and the time
\* its reads took.
LEMMA CacheStep == IInv /\ [Next]_vars => CacheInv'
<1> SUFFICES ASSUME IInv, [Next]_vars PROVE CacheInv'
    OBVIOUS
<1> USE PageFacts, TTLAssumption, BoundsAssumption
<1> USE DEF CacheInv, ReadInv, HasRun, Sound, Causal, Current, IInv, TypeOK
<1>1. ASSUME NEW t \in Threads, NEW f \in Details, Arrive(t, f) PROVE CacheInv'
    BY <1>1 DEF Arrive
<1>2. ASSUME NEW t \in Threads, LookupHit(t) PROVE CacheInv'
    BY <1>2 DEF LookupHit, Finish
<1>3. ASSUME NEW t \in Threads, LookupMiss(t) PROVE CacheInv'
    BY <1>3 DEF LookupMiss
<1>4. ASSUME NEW t \in Threads, ReadRow(t) PROVE CacheInv'
    BY <1>4 DEF ReadRow
<1>5. ASSUME NEW t \in Threads, ReadRun(t) PROVE CacheInv'
    BY <1>5 DEF ReadRun
<1>6. ASSUME NEW t \in Threads, ReadRest(t) PROVE CacheInv'
    BY <1>6 DEF ReadRest
<1>7. ASSUME NEW t \in Threads, Fail(t) PROVE CacheInv'
    BY <1>7 DEF Fail, Finish
<1>8. ASSUME NEW t \in Threads, Store(t) PROVE CacheInv'
    BY SMTT(30), <1>8 DEF Store, Finish, PhaseBound
<1>9. ASSUME NEW s \in BOOLEAN, SetSuspended(s) PROVE CacheInv'
    BY <1>9 DEF SetSuspended
<1>10. CASE DaemonBeat
    BY <1>10 DEF DaemonBeat
<1>11. CASE Restart
    BY <1>11 DEF Restart
<1>12. CASE Tick
    BY <1>12 DEF Tick, UpTo, QuietBound, CacheHorizon
<1>13. CASE UNCHANGED vars
    BY <1>13 DEF vars
<1> HIDE DEF CacheInv
<1> QED
    BY <1>1, <1>2, <1>3, <1>4, <1>5, <1>6, <1>7, <1>8, <1>9, <1>10, <1>11,
       <1>12, <1>13 DEF Next, Step, Suspend, Resume

\* A request nobody stored beside is at least as recent as the cache.
LEMMA OverlapStep == IInv /\ [Next]_vars => OverlapInv'
<1> SUFFICES ASSUME IInv, [Next]_vars PROVE OverlapInv'
    OBVIOUS
<1> USE PageFacts, TTLAssumption, BoundsAssumption
<1> USE DEF OverlapInv, CacheInv, HasRun, Sound, IInv, TypeOK
<1>1. ASSUME NEW t \in Threads, NEW f \in Details, Arrive(t, f) PROVE OverlapInv'
    BY <1>1 DEF Arrive
<1>2. ASSUME NEW t \in Threads, LookupHit(t) PROVE OverlapInv'
    BY <1>2 DEF LookupHit, Finish
<1>3. ASSUME NEW t \in Threads, LookupMiss(t) PROVE OverlapInv'
    BY <1>3 DEF LookupMiss
<1>4. ASSUME NEW t \in Threads, ReadRow(t) PROVE OverlapInv'
    BY <1>4 DEF ReadRow
<1>5. ASSUME NEW t \in Threads, ReadRun(t) PROVE OverlapInv'
  <2>1. CASE page' = [page EXCEPT ![t].run = run] /\ UNCHANGED sinceUnread
    BY <1>5, <2>1 DEF ReadRun
  <2>2. CASE page' = [page EXCEPT ![t].run = NoRun] /\ sinceUnread' = 0
    BY <1>5, <2>2 DEF ReadRun
  <2> QED
    BY <1>5, <2>1, <2>2 DEF ReadRun
<1>6. ASSUME NEW t \in Threads, ReadRest(t) PROVE OverlapInv'
    BY <1>6 DEF ReadRest
<1>7. ASSUME NEW t \in Threads, Fail(t) PROVE OverlapInv'
    BY <1>7 DEF Fail, Finish
<1>8. ASSUME NEW t \in Threads, Store(t) PROVE OverlapInv'
    BY <1>8 DEF Store, Finish
<1>9. ASSUME NEW s \in BOOLEAN, SetSuspended(s) PROVE OverlapInv'
    BY <1>9 DEF SetSuspended
<1>10. CASE DaemonBeat
    BY <1>10 DEF DaemonBeat
<1>11. CASE Restart
    BY <1>11 DEF Restart
<1>12. CASE Tick
    BY <1>12 DEF Tick
<1>13. CASE UNCHANGED vars
    BY <1>13 DEF vars
<1> HIDE DEF OverlapInv
<1> QED
    BY <1>1, <1>2, <1>3, <1>4, <1>5, <1>6, <1>7, <1>8, <1>9, <1>10, <1>11,
       <1>12, <1>13 DEF Next, Step, Suspend, Resume

\* What two requests, or a request and the cache, tell of one write agrees:
\* each has read it from the same Redis.
LEMMA AgreeStep == IInv /\ [Next]_vars => AgreeInv'
<1> SUFFICES ASSUME IInv, [Next]_vars PROVE AgreeInv'
    OBVIOUS
<1> USE PageFacts, TTLAssumption, BoundsAssumption
<1> USE DEF AgreeInv, Agree, ReadInv, CacheInv, HasRun, Sound, IInv, TypeOK
<1>1. ASSUME NEW t \in Threads, NEW f \in Details, Arrive(t, f) PROVE AgreeInv'
    BY <1>1 DEF Arrive
<1>2. ASSUME NEW t \in Threads, LookupHit(t) PROVE AgreeInv'
    BY <1>2 DEF LookupHit, Finish
<1>3. ASSUME NEW t \in Threads, LookupMiss(t) PROVE AgreeInv'
    BY <1>3 DEF LookupMiss
<1>4. ASSUME NEW t \in Threads, ReadRow(t) PROVE AgreeInv'
    BY <1>4 DEF ReadRow
<1>5. ASSUME NEW t \in Threads, ReadRun(t) PROVE AgreeInv'
  <2>1. CASE page' = [page EXCEPT ![t].run = run] /\ UNCHANGED sinceUnread
    BY <1>5, <2>1 DEF ReadRun
  <2>2. CASE page' = [page EXCEPT ![t].run = NoRun] /\ sinceUnread' = 0
    BY <1>5, <2>2 DEF ReadRun
  <2> QED
    BY <1>5, <2>1, <2>2 DEF ReadRun
<1>6. ASSUME NEW t \in Threads, ReadRest(t) PROVE AgreeInv'
    BY <1>6 DEF ReadRest
<1>7. ASSUME NEW t \in Threads, Fail(t) PROVE AgreeInv'
    BY <1>7 DEF Fail, Finish
<1>8. ASSUME NEW t \in Threads, Store(t) PROVE AgreeInv'
    BY <1>8 DEF Store, Finish
<1>9. ASSUME NEW s \in BOOLEAN, SetSuspended(s) PROVE AgreeInv'
    BY <1>9 DEF SetSuspended
<1>10. CASE DaemonBeat
    BY <1>10 DEF DaemonBeat
<1>11. CASE Restart
    BY <1>11 DEF Restart
<1>12. CASE Tick
    BY <1>12 DEF Tick
<1>13. CASE UNCHANGED vars
    BY <1>13 DEF vars
<1> HIDE DEF AgreeInv
<1> QED
    BY <1>1, <1>2, <1>3, <1>4, <1>5, <1>6, <1>7, <1>8, <1>9, <1>10, <1>11,
       <1>12, <1>13 DEF Next, Step, Suspend, Resume

-----------------------------------------------------------------------------
LEMMA IInvStep == IInv /\ [Next]_vars => IInv'
BY TypeStep, RowStep, ReadStep, CacheStep, AnswerStep, OverlapStep, AgreeStep
   DEF IInv

\* In every reachable state IInv holds.
THEOREM Inductive == Spec => []IInv
BY IInvInit, IInvStep, PTL DEF Spec

\* Type correctness of the status cache.
THEOREM TypeCorrect == Spec => []TypeOK
<1>1. IInv => TypeOK
    BY DEF IInv
<1> QED
    BY <1>1, Inductive, PTL

\* No answer shows the daemon acting on a control call it does not show.
THEOREM Causality == Spec => []CausalPage
<1>1. IInv => CausalPage
    BY DEF IInv, AnswerInv, CausalPage, Causal
<1> QED
    BY <1>1, Inductive, PTL

\* A control call is hidden by the cache for less than QuietBound.
LEMMA FreshStep ==
    ASSUME IInv, [Next]_vars, NEW t \in Threads,
           Finishes(t), outcome'[t] = "page", sinceWrite >= QuietBound
    PROVE  \/ page'[t].run = run
           \/ page'[t].run = NoRun /\ sinceUnread < QuietBound
<1> USE TTLAssumption, BoundsAssumption, PageFacts
<1>1. CASE LookupHit(t)
  <2>1. cacheSet /\ cacheAge - age[t] < TTL /\ page'[t] = cache
    BY <1>1 DEF LookupHit, Warm, Finish, IInv, TypeOK
  <2>2. age[t] <= MaxWait
    BY <1>1 DEF LookupHit, IInv, TypeOK, PhaseBound
  <2> QED
    BY <2>1, <2>2 DEF IInv, TypeOK, CacheInv, Current, QuietBound
<1>2. CASE Store(t)
  <2>1. HasRun(t) /\ page'[t] = page[t]
    BY <1>2 DEF Store, Finish, HasRun, IInv, TypeOK
  <2>2. age[t] \in Nat /\ age[t] <= MaxCompute
    BY <1>2 DEF Store, IInv, TypeOK, PhaseBound
  <2>3. sinceWrite \in Int
    BY DEF QuietBound, IInv, TypeOK
  <2>4. age[t] < sinceWrite
    BY <2>2, <2>3 DEF QuietBound
  <2>5. Current(page[t])
    BY <2>1, <2>2, <2>3, <2>4 DEF IInv, ReadInv
  <2>6. sinceUnread \in Int
    BY DEF QuietBound, IInv, TypeOK
  <2>7. page[t].run = NoRun => sinceUnread < QuietBound
    BY <2>1, <2>2, <2>6 DEF IInv, ReadInv, QuietBound
  <2> QED
    BY <2>1, <2>5, <2>7 DEF Current
<1>3. LookupHit(t) \/ Store(t)
  <2>1. pc[t] # "idle" /\ pc'[t] = "idle"
    BY DEF Finishes
  <2>2. ASSUME NEW u \in Threads, u # t,
               (\E f \in Details : Arrive(u, f)) \/ Step(u)
        PROVE  FALSE
    BY <2>1, <2>2 DEF IInv, TypeOK, Arrive, Step, LookupHit, LookupMiss, ReadRow,
                      ReadRun, ReadRest, Fail, Store, Finish
  <2>3. ~(Suspend \/ Resume \/ DaemonBeat \/ Tick \/ UNCHANGED vars)
    BY <2>1 DEF Suspend, Resume, SetSuspended, DaemonBeat, Tick, vars
  <2>4. ~Restart
    BY DEF Restart
  <2>5. ~(\E f \in Details : Arrive(t, f))
    BY <2>1 DEF Arrive
  <2>6. ~(LookupMiss(t) \/ ReadRow(t) \/ ReadRun(t) \/ ReadRest(t))
    BY <2>1 DEF IInv, TypeOK, LookupMiss, ReadRow, ReadRun, ReadRest
  <2>7. ~Fail(t)
    BY DEF IInv, TypeOK, Fail, Finish
  <2> QED
    BY <2>2, <2>3, <2>4, <2>5, <2>6, <2>7 DEF Next, Step
<1> QED
    BY <1>1, <1>2, <1>3

\* Once no control call has landed for QuietBound ticks, every answer shows
\* the flag as it is, for any number of overlapping requests, or "not
\* suspended" within QuietBound ticks of a read that had no answer.
THEOREM Freshness == Spec => FreshAfterQuiet
<1>1. IInv /\ [Next]_vars =>
        [\A t \in Threads :
            (Finishes(t) /\ outcome'[t] = "page" /\ sinceWrite >= QuietBound)
                => \/ page'[t].run = run
                   \/ page'[t].run = NoRun /\ sinceUnread < QuietBound]_vars
    BY FreshStep
<1> QED
    BY <1>1, Inductive, PTL DEF Spec, FreshAfterQuiet

\* The cached page goes back only when its request was overtaken or had no
\* answer to its own read of the flag.
THEOREM Regression == Spec => GoesBackForCause
<1>1. ASSUME IInv, [Next]_vars, NEW t \in Threads,
             pc[t] = "store", pc'[t] = "idle", cacheSet, cacheSet',
             ~overlapped[t], page[t].run # NoRun
      PROVE  cache'.run = cache.run \/ cache'.run.ver > cache.run.ver
  <2>1. HasRun(t)
    BY <1>1 DEF HasRun
  <2>2. Store(t)
    BY <1>1 DEF IInv, TypeOK, Next, Step, vars, Arrive, LookupHit, LookupMiss,
                ReadRow, ReadRun, ReadRest, Fail, Store, Finish, Suspend, Resume,
                SetSuspended, DaemonBeat, Tick, Restart
  <2>3. cache' = page[t] /\ page[t].run.ver \in Nat
    BY <1>1, <2>1, <2>2 DEF Store, IInv, TypeOK, ReadInv, Sound
  <2>4. cache.run = NoRun \/ cache.run.ver \in Nat
    BY <1>1 DEF IInv, TypeOK, CacheInv, Sound
  <2>5. cache.run = NoRun \/ cache.run.ver <= page[t].run.ver
    BY <1>1, <2>1 DEF IInv, OverlapInv
  <2>6. Agree(page[t], cache)
    BY <1>1, <2>1 DEF IInv, AgreeInv
  <2> QED
    BY <2>3, <2>4, <2>5, <2>6, PageFacts DEF Agree
<1>2. IInv /\ [Next]_vars =>
        [\A t \in Threads :
            (pc[t] = "store" /\ pc'[t] = "idle" /\ cacheSet /\ cacheSet')
                => \/ cache'.run = cache.run
                   \/ cache'.run.ver > cache.run.ver
                   \/ overlapped[t]
                   \/ page[t].run = NoRun]_vars
    BY <1>1
<1> QED
    BY <1>2, Inductive, PTL DEF Spec, GoesBackForCause

=============================================================================
