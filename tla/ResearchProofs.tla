--------------------------- MODULE ResearchProofs ---------------------------
(***************************************************************************)
(* What is served under /research.  The application, proved for any number *)
(* of requests and routes, any tokens and ladders, any stay of a page and  *)
(* any length of a scan; then the merged documentation, for any documents; *)
(* then the tables of the Stock Inspector, for statements of any length.   *)
(***************************************************************************)
EXTENDS ResearchApp, InspectorRows, MergedDocs, FiniteSetTheorems, WellFoundedInduction, TLAPS

\* What a read of a route's plan may be: its failure is a 503 exactly where the
\* route is not excused, and ok false is one only for two routes.
GoodRead(q, read) ==
    /\ read.get \in Service
    /\ read.fails \in {"error", "blank", "zero", "end"} /\ read.none \in {"blank", "zero", "end"}
    /\ read.fails = "error" <=> ~Excused(q, read.get)
    /\ read.refused \in {"error", "blank", "zero", "end"}
    /\ "zero" \in {read.fails, read.none, read.refused} => q = "pcr"
    /\ read.refused = "error" => q \in {"summary", "dates"} /\ read.get = "plugin"

\* Which route a request is in, and that it begins with nothing heard.
RouteInv ==
    \A r \in Requests :
        /\ pc[r] \in {"idle", "asked"} =>
            heard[r] = {} /\ shown[r] = {} /\ step[r] = 0 /\ page[r] = NoPage
        /\ pc[r] = "read" => route[r] \in Readers
        /\ pc[r] \in {"look", "fetch", "store"} => route[r] = "snapshots"
        /\ pc[r] \in {"exps", "chain", "iv", "next"} => route[r] = "screener" /\ name[r] >= 1
        /\ pc[r] = "look" => page[r] = NoPage
        /\ pc[r] = "store" => page[r] \in Pages
        /\ pc[r] \in {"fetch", "store"} => ladder[r] \in Ladders

\* A reader that goes on has heard no failure it has to tell of.
HeardInv ==
    \A r \in Requests : pc[r] = "read" =>
        /\ \A h \in heard[r] :
            /\ Failed(h[1], h[2]) => Excused(route[r], h[1])
            /\ h[2] # "rows" => shown[r] \ {"rows"} # {}
        /\ "zero" \in shown[r] => route[r] = "pcr"

\* A page in Redis is of its key, and a blank one has been there since the last
\* was stored or longer.
CacheInv ==
    \A k \in Ladders : cache[k].left > 0 =>
        /\ cache[k].page \in Pages /\ cache[k].page.of = k
        /\ cache[k].page.blank => calm + cache[k].left <= CacheTTL

\* A scan that goes on has heard no failure of the plugin.
ScanInv ==
    \A r \in Requests :
        /\ pc[r] = "exps" => heard[r] = {} /\ step[r] = 0
        /\ pc[r] \in {"chain", "iv"} =>
            \A h \in heard[r] : h[1] = "plugin" /\ ~Failed("plugin", h[2])
        /\ pc[r] = "chain" => step[r] < Batches
        /\ pc[r] = "iv" => step[r] = Batches

IInv == TypeOK /\ RouteInv /\ HeardInv /\ CacheInv /\ ScanInv /\ RowsAsAsked /\ OutagesSaid
        /\ ScanHonest

-----------------------------------------------------------------------------
\* Every read of every plan is one of those.
LEMMA PlanReads ==
  ASSUME NEW q \in Readers
  PROVE  /\ Len(Plan(q)) \in Nat
         /\ \A i \in 1 .. Len(Plan(q)) : GoodRead(q, Plan(q)[i])
<1> USE DEF GoodRead, Excused, Service, OnRead, Of, Quietly, OrEnd, OkOnly
<1>1. CASE q \in {"summary", "dates"}
  <2>1. Plan(q) = <<OkOnly("plugin")>>
    BY <1>1 DEF Plan, Summary, AvailableDates
  <2> QED BY <1>1, <2>1
<1>2. CASE q \in {"criteria", "distribution", "grades", "tierStats", "tierFilter"}
  <2>1. Plan(q) = <<Of("research")>>
    BY <1>2 DEF Plan, Criteria, Distribution, Grades, Tiers
  <2> QED BY <1>2, <2>1
<1>3. CASE q = "conditions"
  <2>1. Plan(q) = <<OrEnd("optional")>>
    BY <1>3 DEF Plan, Conditions
  <2> QED BY <1>3, <2>1
<1>4. CASE q = "raw"
  <2>1. Plan(q) = <<Of("plugin"), Of("plugin"), Quietly("optional")>>
    BY <1>4 DEF Plan, FundamentalRaw
  <2> QED BY <1>4, <2>1
<1>5. CASE q = "pcr"
  <2>1. Plan(q) = <<OnRead("optional", "zero", "zero", "zero"),
                    OnRead("optional", "blank", "blank", "blank"), Quietly("plugin")>>
    BY <1>5 DEF Plan, OptionPcr, PcrTrend, PcrAggregate
  <2> QED BY <1>5, <2>1
<1>6. CASE q = "statements"
  <2>1. Plan(q) = <<Of("plugin"), Of("plugin"), Of("plugin"), Of("plugin"), Of("plugin")>>
    BY <1>6 DEF Plan, Statements
  <2> QED BY <1>6, <2>1
<1>7. CASE q = "overview"
  <2>1. Plan(q) = <<OnRead("plugin", "end", "end", "end"), Quietly("db")>>
    BY <1>7 DEF Plan, TickerOverview, TickerDetail
  <2> QED BY <1>7, <2>1
<1>8. CASE q = "greeks"
  <2>1. Plan(q) = <<OrEnd("plugin"), OrEnd("plugin")>>
    BY <1>8 DEF Plan, Greeks
  <2> QED BY <1>8, <2>1
<1>9. CASE q \in {"liquidity", "relative"}
  <2>1. Plan(q) = <<Quietly("plugin")>>
    BY <1>9 DEF Plan, Liquidity, RelativeValue
  <2> QED BY <1>9, <2>1
<1>10. CASE q = "feedback"
  <2>1. Plan(q) = << >>
    BY <1>10 DEF Plan
  <2> QED BY <2>1
<1> QED BY <1>1, <1>2, <1>3, <1>4, <1>5, <1>6, <1>7, <1>8, <1>9, <1>10 DEF Readers

-----------------------------------------------------------------------------
LEMMA Codes == {0, 200, 400, 403, 404, 422, 503} \subseteq Code
BY DEF Code

\* The initial state.
LEMMA InitInv == Init => IInv
<1> SUFFICES ASSUME Init PROVE IInv
  OBVIOUS
<1> USE SizesAssumption
<1>1. TypeOK
  BY TokensAssumption, Codes DEF Init, TypeOK, Phase, Routes, Readers, NoCaller, Tokens, Outcome,
                                Nothing
<1>2. RouteInv /\ HeardInv /\ ScanInv
  BY DEF Init, RouteInv, HeardInv, ScanInv
<1>3. CacheInv
  BY DEF Init, CacheInv, Nothing
<1>4. RowsAsAsked /\ OutagesSaid /\ ScanHonest
  BY DEF Init, RowsAsAsked, OutagesSaid, ScanHonest
<1> QED BY <1>1, <1>2, <1>3, <1>4 DEF IInv

-----------------------------------------------------------------------------
\* What the two ends of a step do to the phase and the status.
LEMMA Ends ==
  ASSUME TypeOK, NEW r \in Requests
  PROVE  /\ \A answered \in Code : Answer(r, answered) =>
              pc' \in [Requests -> Phase] /\ status' \in [Requests -> Code] /\ pc'[r] = "done"
         /\ \A to \in Phase : Go(r, to) =>
              pc' \in [Requests -> Phase] /\ status' \in [Requests -> Code] /\ pc'[r] = to
         /\ \A answered \in Code : Answer(r, answered) => status'[r] = answered
         /\ \A outcome \in Outcome : EndScan(r, outcome) =>
              /\ pc' \in [Requests -> Phase] /\ status' \in [Requests -> Code]
              /\ found' \in [Requests -> Outcome] /\ pc'[r] = "next" /\ found'[r] = outcome
         /\ \A to \in Phase : GoOn(r, to) =>
              /\ pc' \in [Requests -> Phase] /\ status' \in [Requests -> Code]
              /\ found' \in [Requests -> Outcome] /\ pc'[r] = to
<1>1. pc \in [Requests -> Phase] /\ status \in [Requests -> Code] /\ found \in [Requests -> Outcome]
  BY DEF TypeOK
<1>2. "done" \in Phase /\ "next" \in Phase
  BY DEF Phase
<1>3. ASSUME NEW answered \in Code, Answer(r, answered)
      PROVE  /\ pc' \in [Requests -> Phase] /\ status' \in [Requests -> Code]
             /\ pc'[r] = "done" /\ status'[r] = answered
  BY <1>1, <1>2, <1>3 DEF Answer
<1>4. ASSUME NEW to \in Phase, Go(r, to)
      PROVE  /\ pc' \in [Requests -> Phase] /\ status' \in [Requests -> Code] /\ pc'[r] = to
  BY <1>1, <1>4 DEF Go
<1>5. ASSUME NEW outcome \in Outcome, EndScan(r, outcome)
      PROVE  /\ pc' \in [Requests -> Phase] /\ status' \in [Requests -> Code]
             /\ found' \in [Requests -> Outcome] /\ pc'[r] = "next" /\ found'[r] = outcome
  BY <1>1, <1>2, <1>5 DEF EndScan, Go
<1>6. ASSUME NEW to \in Phase, GoOn(r, to)
      PROVE  /\ pc' \in [Requests -> Phase] /\ status' \in [Requests -> Code]
             /\ found' \in [Requests -> Outcome] /\ pc'[r] = to
  BY <1>1, <1>6 DEF GoOn, Go
<1> QED BY <1>3, <1>4, <1>5, <1>6

\* Type correctness of a step.
LEMMA NextType == IInv /\ [Next]_vars => TypeOK'
<1> SUFFICES ASSUME IInv, [Next]_vars PROVE TypeOK'
  OBVIOUS
<1> USE SizesAssumption DEF IInv, TypeOK
<1>1. ASSUME NEW r \in Requests, Arrive(r) PROVE TypeOK'
  <2>1. Asks[r] \subseteq Routes
    OBVIOUS
  <2>2. route' \in [Requests -> Routes] /\ caller' \in [Requests -> [token : Tokens, old : BOOLEAN]]
    BY <1>1, <2>1 DEF Arrive
  <2> QED BY <1>1, <2>2 DEF Arrive, Go, reading, snapshot, scan, redis, Phase
<1>2. ASSUME NEW r \in Requests, Leave(r) PROVE TypeOK'
  BY <1>2, Codes DEF Leave, redis, Phase, Routes, Readers, Outcome
<1>3. ASSUME NEW r \in Requests, Layers(r) PROVE TypeOK'
  <2>1. caller' \in [Requests -> [token : Tokens, old : BOOLEAN]]
    BY <1>3 DEF Layers, NoCaller, Tokens
  <2>2. Admit(Method(route[r]), route[r], caller[r].token, caller[r].old) \in {200, 403, 422}
    BY DEF Admit
  <2>3. Entry(route[r]) \in Phase
    BY DEF Entry, Phase
  <2>4. pc' \in [Requests -> Phase] /\ status' \in [Requests -> Code]
    BY <1>3, <2>2, <2>3, Ends, Codes DEF Layers
  <2>5. name' \in [Requests -> 0 .. Names]
    BY <1>3 DEF Layers
  <2> QED BY <1>3, <2>1, <2>4, <2>5 DEF Layers, reading, snapshot, redis
<1>4. ASSUME NEW r \in Requests, BadArguments(r) \/ Respond(r) \/ NoStrikes(r) PROVE TypeOK'
  <2>1. /\ Answer(r, 400) \/ Answer(r, 200) \/ Answer(r, 404)
        /\ UNCHANGED <<route, caller, reading, snapshot, scan, redis>>
    BY <1>4 DEF BadArguments, Respond, NoStrikes
  <2>2. pc' \in [Requests -> Phase] /\ status' \in [Requests -> Code]
    BY <2>1, Ends, Codes
  <2> QED BY <2>1, <2>2 DEF reading, snapshot, scan, redis
<1>5. ASSUME NEW r \in Requests, Read(r) PROVE TypeOK'
  <2> DEFINE read == Plan(route[r])[step[r] + 1]
  <2>1. pc[r] = "read" /\ route[r] \in Readers /\ step[r] + 1 \in 1 .. Len(Plan(route[r]))
    BY <1>5, PlanReads DEF Read, RouteInv
  <2>2. /\ read.get \in Service
        /\ \A said : Comes(read, said) \in {"rows", "error", "blank", "zero", "end"}
    BY <2>1, PlanReads DEF GoodRead, Comes
  <2>3. PICK said \in Says(read.get) :
          /\ heard' = [heard EXCEPT ![r] = @ \cup {<<read.get, said>>}]
          /\ shown' = shown \/ \E b \in Part : shown' = [shown EXCEPT ![r] = @ \cup {b}]
          /\ Answer(r, 503) \/ Answer(r, 200) \/ Go(r, "read")
    BY <1>5, <2>2 DEF Read, Part
  <2>4. said \in Said
    BY DEF Says, Said
  <2>5. heard' \in [Requests -> SUBSET (Service \X Said)]
    BY <2>2, <2>3, <2>4
  <2>6. pc' \in [Requests -> Phase] /\ status' \in [Requests -> Code]
    BY <2>3, Ends, Codes DEF Phase
  <2>7. shown' \in [Requests -> SUBSET Part]
    BY <2>3
  <2> QED BY SMTT(30), <1>5, <2>5, <2>6, <2>7 DEF Read, snapshot, scan, redis
<1>6. ASSUME NEW r \in Requests, PickNothing(r) PROVE TypeOK'
  BY <1>6, Ends, Codes DEF PickNothing, Part, snapshot, scan, redis
<1>7. ASSUME NEW r \in Requests, Look(r) PROVE TypeOK'
  <2>1. PICK l \in Ladders :
          /\ ladder' = [ladder EXCEPT ![r] = l]
          /\ \/ /\ page' = [page EXCEPT ![r] = cache[l].page] /\ cache' = cache
                /\ Answer(r, 200)
             \/ Go(r, "fetch") /\ UNCHANGED <<page, cache>>
    BY <1>7 DEF Look, OnHit, Key
  <2>2. pc' \in [Requests -> Phase] /\ status' \in [Requests -> Code]
    BY <2>1, Ends, Codes DEF Phase
  <2>3. page' \in [Requests -> Pages \cup {NoPage}] /\ ladder' \in [Requests -> Ladders \cup {NoLadder}]
    BY <2>1
  <2> QED BY <1>7, <2>1, <2>2, <2>3 DEF Look, reading, scan
<1>8. ASSUME NEW r \in Requests, Fetch(r) PROVE TypeOK'
  <2>1. ladder[r] \in Ladders
    BY <1>8 DEF Fetch, RouteInv
  <2>2. page' \in [Requests -> Pages \cup {NoPage}] /\ heard' \in [Requests -> SUBSET (Service \X Said)]
    BY <1>8, <2>1 DEF Fetch, Pages, Service
  <2> QED BY <1>8, <2>2 DEF Fetch, Go, scan, redis, Phase
<1>9. ASSUME NEW r \in Requests, Store(r) PROVE TypeOK'
  <2>1. ladder[r] \in Ladders
    BY <1>9 DEF Store, RouteInv
  <2>2. cache' \in [Ladders -> [page : Pages \cup {NoPage}, left : 0 .. CacheTTL]]
    <3>1. [page |-> page[r], left |-> CacheTTL] \in [page : Pages \cup {NoPage}, left : 0 .. CacheTTL]
      OBVIOUS
    <3>2. \/ cache' = [cache EXCEPT ![ladder[r]] = [page |-> page[r], left |-> CacheTTL]]
          \/ cache' = cache
      BY <1>9 DEF Store, Key, redis
    <3>. QED  BY <2>1, <3>1, <3>2
  <2>3. calm' \in 0 .. CacheTTL
    BY <1>9 DEF Store, redis
  <2> QED BY <1>9, <2>2, <2>3, Ends, Codes DEF Store, reading, snapshot, scan
<1>10. ASSUME NEW r \in Requests, Expirations(r) PROVE TypeOK'
  <2>1. heard' \in [Requests -> SUBSET (Service \X Said)]
    BY <1>10 DEF Expirations, Hear, Service
  <2>2. \/ \E outcome \in Outcome : EndScan(r, outcome)
        \/ GoOn(r, "chain")
    BY <1>10 DEF Expirations, Outcome
  <2>3. found' \in [Requests -> Outcome] /\ pc' \in [Requests -> Phase] /\ status' \in [Requests -> Code]
    BY <2>2, Ends DEF Phase
  <2> QED BY <1>10, <2>1, <2>3 DEF Expirations, snapshot, redis
<1>11. ASSUME NEW r \in Requests, Chain(r) PROVE TypeOK'
  <2>1. heard' \in [Requests -> SUBSET (Service \X Said)]
    BY <1>11 DEF Chain, Hear, Service
  <2>2. \/ \E outcome \in Outcome : EndScan(r, outcome)
        \/ GoOn(r, "chain") \/ GoOn(r, "iv")
    BY <1>11 DEF Chain, Outcome
  <2>3. found' \in [Requests -> Outcome] /\ pc' \in [Requests -> Phase] /\ status' \in [Requests -> Code]
    BY <2>2, Ends DEF Phase
  <2>4. shown' \in [Requests -> SUBSET Part] /\ step' \in [Requests -> Nat]
    BY <1>11 DEF Chain, Part
  <2> QED BY <1>11, <2>1, <2>3, <2>4 DEF Chain, snapshot, redis
<1>12. ASSUME NEW r \in Requests, IvPercentile(r) PROVE TypeOK'
  <2>1. PICK said \in Says("optional") :
          Hear(r, "optional", said) /\ \E outcome \in Filtered(Noted(said)) : EndScan(r, outcome)
    BY <1>12 DEF IvPercentile
  <2>2. said \in Said /\ Filtered(Noted(said)) \subseteq Outcome
    BY DEF Says, Said, Filtered, Noted, Outcome
  <2>3. found' \in [Requests -> Outcome] /\ pc' \in [Requests -> Phase] /\ status' \in [Requests -> Code]
    BY <2>1, <2>2, Ends
  <2>4. heard' \in [Requests -> SUBSET (Service \X Said)]
    BY <2>1, <2>2 DEF Hear, Service
  <2> QED BY <1>12, <2>3, <2>4 DEF IvPercentile, snapshot, redis
<1>13. ASSUME NEW r \in Requests, NextName(r) PROVE TypeOK'
  <2>1. pc' \in [Requests -> Phase] /\ status' \in [Requests -> Code]
    BY <1>13, Ends, Codes DEF NextName, Phase
  <2>2. CASE MoreNames(r)
    <3>0. /\ name' = [name EXCEPT ![r] = @ + 1] /\ found' = [found EXCEPT ![r] = "open"]
          /\ heard' = [heard EXCEPT ![r] = {}] /\ step' = [step EXCEPT ![r] = 0]
          /\ shown' = [shown EXCEPT ![r] = {}]
      BY <1>13, <2>2 DEF NextName
    <3>1. name' \in [Requests -> 0 .. Names] /\ found' \in [Requests -> Outcome]
      BY <2>2, <3>0 DEF MoreNames, Outcome
    <3>2. /\ heard' \in [Requests -> SUBSET (Service \X Said)] /\ step' \in [Requests -> Nat]
          /\ shown' \in [Requests -> SUBSET Part]
      BY <3>0
    <3> QED BY <1>13, <2>1, <3>1, <3>2 DEF NextName, snapshot, redis
  <2>3. CASE ~MoreNames(r)
    BY <1>13, <2>1, <2>3 DEF NextName, scan, reading, snapshot, redis
  <2> QED BY <2>2, <2>3
<1>14. CASE Tick
  <2>1. ASSUME NEW k \in Ladders
        PROVE  cache'[k] \in [page : Pages \cup {NoPage}, left : 0 .. CacheTTL]
    BY SMTT(30), <1>14 DEF Tick, Nothing
  <2>2. cache' \in [Ladders -> [page : Pages \cup {NoPage}, left : 0 .. CacheTTL]]
    BY <1>14, <2>1 DEF Tick
  <2> QED BY <1>14, <2>2 DEF Tick, request, reading, snapshot, scan
<1>15. CASE UNCHANGED vars
  BY <1>15 DEF vars, request, reading, snapshot, scan, redis
<1> QED BY <1>1, <1>2, <1>3, <1>4, <1>5, <1>6, <1>7, <1>8, <1>9, <1>10, <1>11, <1>12, <1>13, <1>14,
          <1>15 DEF Next

-----------------------------------------------------------------------------
\* What the invariants but the types and the cache say of one request.
OwnRoute(r) ==
    /\ pc[r] \in {"idle", "asked"} =>
        heard[r] = {} /\ shown[r] = {} /\ step[r] = 0 /\ page[r] = NoPage
    /\ pc[r] = "read" => route[r] \in Readers
    /\ pc[r] \in {"look", "fetch", "store"} => route[r] = "snapshots"
    /\ pc[r] \in {"exps", "chain", "iv", "next"} => route[r] = "screener" /\ name[r] >= 1
    /\ pc[r] = "look" => page[r] = NoPage
    /\ pc[r] = "store" => page[r] \in Pages
    /\ pc[r] \in {"fetch", "store"} => ladder[r] \in Ladders

OwnHeard(r) ==
    pc[r] = "read" =>
        /\ \A h \in heard[r] :
            /\ Failed(h[1], h[2]) => Excused(route[r], h[1])
            /\ h[2] # "rows" => shown[r] \ {"rows"} # {}
        /\ "zero" \in shown[r] => route[r] = "pcr"

OwnScan(r) ==
    /\ pc[r] = "exps" => heard[r] = {} /\ step[r] = 0
    /\ pc[r] \in {"chain", "iv"} =>
        \A h \in heard[r] : h[1] = "plugin" /\ ~Failed("plugin", h[2])
    /\ pc[r] = "chain" => step[r] < Batches
    /\ pc[r] = "iv" => step[r] = Batches

OwnRows(r) == page[r] # NoPage => page[r].of = ladder[r]

OwnSaid(r) ==
    pc[r] = "done" /\ route[r] \in Readers =>
        LET failures == {h \in heard[r] : Failed(h[1], h[2]) /\ ~Excused(route[r], h[1])} IN
        /\ status[r] = 200 =>
            /\ failures = {}
            /\ (\E h \in heard[r] : h[2] # "rows") => shown[r] \ {"rows"} # {}
            /\ "zero" \in shown[r] => route[r] = "pcr"
        /\ status[r] = 503 =>
            \/ failures # {}
            \/ route[r] \in {"summary", "dates"} /\ <<"plugin", "refused">> \in heard[r]

OwnHonest(r) ==
    pc[r] = "next" =>
        LET failed == \E h \in heard[r] : h[1] = "plugin" /\ Failed(h[1], h[2]) IN
        /\ found[r] = "outage" <=> failed
        /\ found[r] = "empty" => \E h \in heard[r] : h[2] \in {"none", "refused"}
        /\ found[r] \in {"group", "unmeasured", "unread", "filters"} => step[r] = Batches
        /\ found[r] = "unread" => <<"optional", "down">> \in heard[r]
        /\ found[r] \in {"group", "unmeasured"} => <<"optional", "down">> \notin heard[r]

Own(r) == OwnRoute(r) /\ OwnHeard(r) /\ OwnScan(r) /\ OwnRows(r) /\ OwnSaid(r) /\ OwnHonest(r)

LEMMA OwnIsInv ==
  (\A r \in Requests : Own(r))
      <=> RouteInv /\ HeardInv /\ ScanInv /\ RowsAsAsked /\ OutagesSaid /\ ScanHonest
BY DEF Own, OwnRoute, OwnHeard, OwnScan, OwnRows, OwnSaid, OwnHonest,
       RouteInv, HeardInv, ScanInv, RowsAsAsked, OutagesSaid, ScanHonest

Act(r) ==
    \/ Arrive(r) \/ Leave(r) \/ Layers(r) \/ BadArguments(r)
    \/ Read(r) \/ Respond(r) \/ PickNothing(r)
    \/ NoStrikes(r) \/ Look(r) \/ Fetch(r) \/ Store(r)
    \/ Expirations(r) \/ Chain(r) \/ IvPercentile(r) \/ NextName(r)

\* The same to one request before and after.
Stays(u) ==
    /\ pc'[u] = pc[u] /\ route'[u] = route[u] /\ status'[u] = status[u] /\ step'[u] = step[u]
    /\ heard'[u] = heard[u] /\ shown'[u] = shown[u] /\ ladder'[u] = ladder[u]
    /\ page'[u] = page[u] /\ name'[u] = name[u] /\ found'[u] = found[u]

LEMMA SameOwn ==
  ASSUME NEW u \in Requests, Own(u), Stays(u)
  PROVE  Own(u)'
BY DEF Own, OwnRoute, OwnHeard, OwnScan, OwnRows, OwnSaid, OwnHonest, Stays

\* A step of a request leaves the others alone.
LEMMA OthersSame ==
  ASSUME TypeOK, NEW r \in Requests, Act(r), NEW u \in Requests \ {r}
  PROVE  Stays(u)
<1> USE DEF Stays, TypeOK, reading, snapshot, scan, Go, Answer
<1>1. CASE Arrive(r) \/ Leave(r)
  BY <1>1 DEF Arrive, Leave
<1>2. CASE Layers(r) \/ BadArguments(r)
  BY <1>2 DEF Layers, BadArguments
<1>3. CASE Read(r)
  BY <1>3 DEF Read
<1>4. CASE Respond(r) \/ PickNothing(r) \/ NoStrikes(r)
  BY <1>4 DEF Respond, PickNothing, NoStrikes
<1>5. CASE Look(r)
  BY <1>5 DEF Look
<1>6. CASE Fetch(r) \/ Store(r)
  BY <1>6 DEF Fetch, Store
<1>7. CASE Expirations(r)
  BY <1>7 DEF Expirations, Hear, EndScan, GoOn
<1>8. CASE Chain(r)
  BY <1>8 DEF Chain, Hear, EndScan, GoOn
<1>9. CASE IvPercentile(r)
  BY <1>9 DEF IvPercentile, Hear, EndScan
<1>10. CASE NextName(r)
  BY <1>10 DEF NextName
<1> QED BY <1>1, <1>2, <1>3, <1>4, <1>5, <1>6, <1>7, <1>8, <1>9, <1>10 DEF Act

-----------------------------------------------------------------------------
\* What is assumed of one request before a step, with the types of its state.
LEMMA OwnBefore ==
  ASSUME IInv, NEW r \in Requests
  PROVE  /\ Own(r) /\ TypeOK
         /\ step[r] \in Nat /\ name[r] \in 0 .. Names /\ page[r] \in Pages \cup {NoPage}
         /\ heard[r] \in SUBSET (Service \X Said)
BY OwnIsInv DEF IInv, TypeOK

\* The steps before a route, and after it.
LEMMA AroundOwn ==
  ASSUME IInv, NEW r \in Requests, Arrive(r) \/ Leave(r) \/ Layers(r) \/ BadArguments(r)
  PROVE  Own(r)'
<1> USE SizesAssumption, OwnBefore
    DEF TypeOK, Own, OwnRoute, OwnHeard, OwnScan, OwnRows, OwnSaid, OwnHonest
<1>1. CASE Arrive(r)
  BY <1>1 DEF Arrive, Go, reading, snapshot, scan
<1>2. CASE Leave(r)
  BY <1>2 DEF Leave
<1>3. CASE Layers(r)
  <2>1. /\ UNCHANGED <<route, heard, shown, step, page, ladder, found>>
        /\ heard[r] = {} /\ shown[r] = {} /\ step[r] = 0 /\ page[r] = NoPage
        /\ name'[r] = IF route[r] = "screener" THEN 1 ELSE 0
    BY <1>3 DEF Layers, reading, snapshot
  <2>2. Admit(Method(route[r]), route[r], caller[r].token, caller[r].old) \in {200, 403, 422}
    BY DEF Admit
  <2>3. \/ pc'[r] = Entry(route[r])
        \/ pc'[r] = "done" /\ status'[r] \in {403, 422}
    BY <1>3, <2>2 DEF Layers, Go, Answer
  <2>4. \/ route[r] = "snapshots" /\ Entry(route[r]) = "look"
        \/ route[r] = "screener" /\ Entry(route[r]) = "exps"
        \/ route[r] \in Readers /\ Entry(route[r]) = "read"
    BY DEF Entry, Routes
  <2> QED BY <2>1, <2>3, <2>4
<1>4. CASE BadArguments(r)
  BY <1>4 DEF BadArguments, Answer, reading, snapshot, scan
<1> QED BY <1>1, <1>2, <1>3, <1>4

\* The steps of the routes that read and answer.
LEMMA ReaderOwn ==
  ASSUME IInv, NEW r \in Requests, Read(r) \/ Respond(r) \/ PickNothing(r)
  PROVE  Own(r)'
<1> USE SizesAssumption, OwnBefore
    DEF TypeOK, Own, OwnRoute, OwnHeard, OwnScan, OwnRows, OwnSaid, OwnHonest
<1>1. CASE Read(r)
  <2> DEFINE read == Plan(route[r])[step[r] + 1]
  <2>1. pc[r] = "read" /\ route[r] \in Readers /\ step[r] + 1 \in 1 .. Len(Plan(route[r]))
    BY SMTT(30), <1>1, PlanReads DEF Read
  <2>2. GoodRead(route[r], read)
    BY <2>1, PlanReads
  <2>3. PICK said \in Says(read.get) :
          /\ heard' = [heard EXCEPT ![r] = @ \cup {<<read.get, said>>}]
          /\ IF Comes(read, said) = "error" THEN UNCHANGED shown
             ELSE shown' = [shown EXCEPT ![r] =
                              @ \cup {IF Comes(read, said) = "end" THEN "blank" ELSE Comes(read, said)}]
          /\ CASE Comes(read, said) = "error" -> Answer(r, 503)
               [] Comes(read, said) = "end" -> Answer(r, 200)
               [] OTHER -> Go(r, "read")
    BY <1>1 DEF Read
  <2> HIDE DEF read
  <2>4. UNCHANGED <<route, ladder, page, name, found>>
    BY <1>1 DEF Read, snapshot, scan
  <2>5. heard'[r] = heard[r] \cup {<<read.get, said>>} /\ shown[r] \subseteq shown'[r]
    BY <2>3
  <2>6. /\ Comes(read, said) = "rows" => said = "rows"
        /\ Comes(read, said) = "zero" => route[r] = "pcr"
        /\ Comes(read, said) \in {"rows", "error", "blank", "zero", "end"}
        /\ Comes(read, said) # "error" /\ Failed(read.get, said) => Excused(route[r], read.get)
        /\ Comes(read, said) = "error" =>
              \/ Failed(read.get, said) /\ ~Excused(route[r], read.get)
              \/ said = "refused" /\ route[r] \in {"summary", "dates"} /\ read.get = "plugin"
    BY <2>2 DEF GoodRead, Comes, Failed
  <2>6a. Comes(read, said) # "error" =>
            /\ said # "rows" => shown'[r] \ {"rows"} # {}
            /\ "zero" \in shown'[r] => route[r] = "pcr"
    <3>1. SUFFICES ASSUME Comes(read, said) # "error"
                   PROVE  /\ said # "rows" => shown'[r] \ {"rows"} # {}
                          /\ "zero" \in shown'[r] => route[r] = "pcr"
      OBVIOUS
    <3>2. PICK part : /\ shown'[r] = shown[r] \cup {part}
                      /\ part = IF Comes(read, said) = "end" THEN "blank" ELSE Comes(read, said)
      BY <2>3, <3>1
    <3>3. said # "rows" => part # "rows" /\ part \in shown'[r]
      BY <2>6, <3>2
    <3>4. "zero" \in shown'[r] => route[r] = "pcr"
      BY <2>1, <2>6, <3>2
    <3> QED BY <3>3, <3>4
  <2>7. \A h \in heard'[r] :
          Comes(read, said) # "error" =>
            /\ Failed(h[1], h[2]) => Excused(route[r], h[1])
            /\ h[2] # "rows" => shown'[r] \ {"rows"} # {}
    BY <2>1, <2>5, <2>6, <2>6a
  <2>8. \/ Comes(read, said) = "error" /\ pc'[r] = "done" /\ status'[r] = 503
        \/ Comes(read, said) # "error" /\ pc'[r] = "done" /\ status'[r] = 200
        \/ Comes(read, said) # "error" /\ pc'[r] = "read"
    BY <2>3 DEF Answer, Go
  <2>9. OwnRoute(r)' /\ OwnScan(r)' /\ OwnRows(r)' /\ OwnHonest(r)'
    BY <2>1, <2>4, <2>8
  <2>10. OwnHeard(r)'
    BY <2>4, <2>7, <2>8, <2>6a
  <2>11. OwnSaid(r)'
    <3>1. CASE status'[r] = 503 /\ pc'[r] = "done"
      <4>1. Comes(read, said) = "error" /\ <<read.get, said>> \in heard'[r]
        BY <2>5, <2>8, <3>1
      <4>2. CASE Failed(read.get, said) /\ ~Excused(route[r], read.get)
        <5>1. <<read.get, said>> \in {h \in heard'[r] : Failed(h[1], h[2]) /\ ~Excused(route'[r], h[1])}
          BY <2>4, <4>1, <4>2
        <5>2. {h \in heard'[r] : Failed(h[1], h[2]) /\ ~Excused(route'[r], h[1])} # {}
          BY <5>1
        <5> QED BY <3>1, <5>2
      <4>3. CASE said = "refused" /\ route[r] \in {"summary", "dates"} /\ read.get = "plugin"
        BY <2>4, <3>1, <4>1, <4>3
      <4> QED BY <2>6, <4>1, <4>2, <4>3
    <3>2. CASE status'[r] = 200 /\ pc'[r] = "done"
      BY <2>4, <2>7, <2>8, <2>6a, <3>2
    <3> QED BY <2>8, <3>1, <3>2
  <2> QED BY <2>9, <2>10, <2>11
<1>2. CASE Respond(r)
  BY <1>2 DEF Respond, Answer, reading, snapshot, scan
<1>3. CASE PickNothing(r)
  <2>1. /\ pc[r] = "read" /\ pc'[r] = "done" /\ status'[r] = 200 /\ shown'[r] = {"blank"}
        /\ UNCHANGED <<route, heard, step, page, ladder, name, found>>
    BY <1>3 DEF PickNothing, Answer, snapshot, scan
  <2>2. shown'[r] \ {"rows"} # {} /\ "zero" \notin shown'[r]
    BY <2>1
  <2> QED BY <2>1, <2>2
<1> QED BY <1>1, <1>2, <1>3

\* The steps of the snapshots.
LEMMA SnapshotOwn ==
  ASSUME IInv, NEW r \in Requests, NoStrikes(r) \/ Look(r) \/ Fetch(r) \/ Store(r)
  PROVE  Own(r)'
<1> USE SizesAssumption, OwnBefore
    DEF TypeOK, Own, OwnRoute, OwnHeard, OwnScan, OwnRows, OwnSaid, OwnHonest
<1>0. route[r] = "snapshots" /\ route'[r] = "snapshots" /\ "snapshots" \notin Readers
  BY DEF NoStrikes, Look, Fetch, Store, Readers
<1>1. CASE NoStrikes(r)
  BY <1>0, <1>1 DEF NoStrikes, Answer, reading, snapshot, scan
<1>2. CASE Look(r)
  <2> HIDE DEF TypeOK, Own, OwnRoute, OwnHeard, OwnScan, OwnRows, OwnSaid, OwnHonest
  <2>1. PICK l \in Ladders :
          /\ ladder' = [ladder EXCEPT ![r] = l]
          /\ \/ /\ cache[l].left > 0 /\ page' = [page EXCEPT ![r] = cache[l].page]
                /\ Answer(r, 200)
             \/ Go(r, "fetch") /\ UNCHANGED page
    BY <1>2 DEF Look, Key
  <2> USE DEF TypeOK, Own, OwnRoute, OwnHeard, OwnScan, OwnRows, OwnSaid, OwnHonest
  <2>2. cache[l].left > 0 => cache[l].page.of = l
    BY DEF IInv, CacheInv
  <2>3. page[r] = NoPage /\ UNCHANGED <<heard, shown, step, name, found>>
    BY <1>2 DEF Look, reading, scan
  <2> QED BY <1>0, <2>1, <2>2, <2>3 DEF Answer, Go
<1>3. CASE Fetch(r)
  <2>1. /\ pc'[r] = "store" /\ ladder' = ladder /\ ladder[r] \in Ladders
        /\ page'[r] \in Pages /\ page'[r].of = ladder[r]
    BY <1>3 DEF Fetch, Go, Pages
  <2> QED BY <1>0, <2>1
<1>4. CASE Store(r)
  BY <1>0, <1>4 DEF Store, Answer, reading, snapshot, scan
<1> QED BY <1>1, <1>2, <1>3, <1>4

\* What a scan has heard once a service has said one thing more.
LEMMA HeardOneMore ==
  ASSUME NEW S, NEW said
  PROVE  LET T == S \cup {<<"plugin", said>>} IN
         /\ (\E h \in T : h[1] = "plugin" /\ Failed(h[1], h[2]))
              <=> (\E h \in S : h[1] = "plugin" /\ Failed(h[1], h[2])) \/ Failed("plugin", said)
         /\ said \in {"none", "refused"} => \E h \in T : h[2] \in {"none", "refused"}
<1> DEFINE T == S \cup {<<"plugin", said>>}
           new == <<"plugin", said>>
<1>1. new \in T /\ new[1] = "plugin" /\ new[2] = said
  OBVIOUS
<1>2. \A h \in T : h \in S \/ h = new
  OBVIOUS
<1>3. \A h \in S : h \in T
  OBVIOUS
<1> HIDE DEF T, new
<1>4. (\E h \in T : h[1] = "plugin" /\ Failed(h[1], h[2]))
        <=> (\E h \in S : h[1] = "plugin" /\ Failed(h[1], h[2])) \/ Failed("plugin", said)
  BY <1>1, <1>2, <1>3
<1>5. said \in {"none", "refused"} => \E h \in T : h[2] \in {"none", "refused"}
  BY <1>1
<1> QED BY <1>4, <1>5 DEF T, new

\* The steps of a scan.
LEMMA ScanOwn ==
  ASSUME IInv, NEW r \in Requests, Expirations(r) \/ Chain(r) \/ IvPercentile(r) \/ NextName(r)
  PROVE  Own(r)'
<1> USE SizesAssumption, OwnBefore
    DEF TypeOK, Own, OwnRoute, OwnHeard, OwnScan, OwnRows, OwnSaid, OwnHonest
<1>0. route[r] = "screener" /\ route'[r] = "screener" /\ "screener" \notin Readers /\ name[r] >= 1
  BY DEF Expirations, Chain, IvPercentile, NextName, Readers
<1>1. CASE Expirations(r)
  <2>1. PICK said \in Said :
          /\ heard' = [heard EXCEPT ![r] = @ \cup {<<"plugin", said>>}]
          /\ \/ Failed("plugin", said) /\ EndScan(r, "outage")
             \/ said \in {"none", "refused"} /\ EndScan(r, "empty")
             \/ said = "rows" /\ \E outcome \in {"window", "price"} : EndScan(r, outcome)
             \/ said = "rows" /\ GoOn(r, "chain")
    BY <1>1 DEF Expirations, Hear
  <2>2. heard[r] = {} /\ step[r] = 0 /\ UNCHANGED <<step, shown, ladder, page, name>>
    BY <1>1 DEF Expirations, snapshot
  <2>3. heard'[r] = {<<"plugin", said>>} /\ (page[r] # NoPage => page[r].of = ladder[r])
    BY <2>1, <2>2
  <2>4. ~Failed("plugin", "none") /\ ~Failed("plugin", "refused") /\ ~Failed("plugin", "rows")
    BY DEF Failed
  <2>5. \/ pc'[r] = "next" /\ found'[r] = "outage" /\ Failed("plugin", said)
        \/ pc'[r] = "next" /\ found'[r] = "empty" /\ said \in {"none", "refused"}
        \/ pc'[r] = "next" /\ found'[r] \in {"window", "price"} /\ said = "rows"
        \/ pc'[r] = "chain" /\ said = "rows"
    BY <2>1 DEF EndScan, GoOn, Go
  <2>6. (\E h \in heard'[r] : h[1] = "plugin" /\ Failed(h[1], h[2])) <=> Failed("plugin", said)
    <3>1. heard'[r] = {} \cup {<<"plugin", said>>}
      BY <2>3
    <3> HIDE DEF TypeOK, Own, OwnRoute, OwnHeard, OwnScan, OwnRows, OwnSaid, OwnHonest
    <3> QED BY <3>1, HeardOneMore
  <2>7. said \in {"none", "refused"} => \E h \in heard'[r] : h[2] \in {"none", "refused"}
    <3>1. heard'[r] = {} \cup {<<"plugin", said>>}
      BY <2>3
    <3> HIDE DEF TypeOK, Own, OwnRoute, OwnHeard, OwnScan, OwnRows, OwnSaid, OwnHonest
    <3> QED BY <3>1, HeardOneMore
  <2>8. OwnRoute(r)' /\ OwnHeard(r)' /\ OwnRows(r)' /\ OwnSaid(r)'
    BY <1>0, <2>2, <2>3, <2>5
  <2>9. OwnScan(r)'
    <3>1. CASE pc'[r] = "chain"
      <4>1. \A h \in heard'[r] : h[1] = "plugin" /\ ~Failed("plugin", h[2])
        BY <2>3, <2>4, <2>5, <3>1
      <4> QED BY <2>2, <3>1, <4>1
    <3>2. CASE pc'[r] = "next"
      BY <3>2
    <3> QED BY <2>5, <3>1, <3>2
  <2>10. OwnHonest(r)'
    BY <2>4, <2>5, <2>6, <2>7
  <2> QED BY <2>8, <2>9, <2>10
<1>2. CASE Chain(r)
  <2> HIDE DEF TypeOK, Own, OwnRoute, OwnHeard, OwnScan, OwnRows, OwnSaid, OwnHonest
  <2>1. PICK said \in Said :
          /\ heard' = [heard EXCEPT ![r] = @ \cup {<<"plugin", said>>}]
          /\ IF Failed("plugin", said) THEN EndScan(r, "outage")
             ELSE IF step[r] + 1 < Batches THEN GoOn(r, "chain")
             ELSE IF said = "rows" \/ shown[r] # {} THEN GoOn(r, "iv")
             ELSE EndScan(r, "empty")
    BY <1>2 DEF Chain, Hear, Raises, BatchesAsked
  <2>2. /\ step' = [step EXCEPT ![r] = @ + 1] /\ step[r] < Batches
        /\ UNCHANGED <<ladder, page, name>>
        /\ \A h \in heard[r] : h[1] = "plugin" /\ ~Failed("plugin", h[2])
    BY <1>2, OwnBefore DEF Chain, snapshot, Own, OwnScan
  <2>3. heard'[r] = heard[r] \cup {<<"plugin", said>>} /\ step'[r] = step[r] + 1
    BY <2>1, <2>2, OwnBefore DEF TypeOK
  <2>4. \/ pc'[r] = "next" /\ found'[r] = "outage" /\ Failed("plugin", said)
        \/ pc'[r] = "next" /\ found'[r] = "empty" /\ ~Failed("plugin", said) /\ said # "rows"
        \/ pc'[r] = "chain" /\ ~Failed("plugin", said) /\ step'[r] < Batches
        \/ pc'[r] = "iv" /\ ~Failed("plugin", said) /\ step'[r] = Batches
    <3>1. CASE EndScan(r, "outage") \/ EndScan(r, "empty")
      BY <2>1, <3>1 DEF EndScan, GoOn, Go, TypeOK
    <3>2. CASE GoOn(r, "chain") \/ GoOn(r, "iv")
      <4>1. step[r] \in Nat /\ pc'[r] \in {"chain", "iv"}
        BY <3>2, OwnBefore DEF GoOn, Go, TypeOK
      <4>2. step'[r] < Batches <=> step[r] + 1 < Batches
        BY <2>3
      <4>3. step[r] + 1 < Batches \/ step[r] + 1 = Batches
        BY <2>2, <4>1
      <4>4. pc'[r] # "next"
        BY <4>1
      <4>5. EndScan(r, "outage") \/ EndScan(r, "empty") => pc'[r] = "next"
        BY DEF EndScan, Go, TypeOK, IInv
      <4>6. GoOn(r, "chain") => pc'[r] = "chain"
        BY DEF GoOn, Go, TypeOK, IInv
      <4>7. GoOn(r, "iv") => pc'[r] = "iv"
        BY DEF GoOn, Go, TypeOK, IInv
      <4> QED BY <2>1, <2>3, <3>2, <4>2, <4>3, <4>4, <4>5, <4>6, <4>7
    <3> QED BY <2>1, <3>1, <3>2
  <2> USE DEF TypeOK, Own, OwnRoute, OwnHeard, OwnScan, OwnRows, OwnSaid, OwnHonest
  <2>5. ~Failed("plugin", said) /\ said # "rows" => \E h \in heard'[r] : h[2] \in {"none", "refused"}
    <3>1. ~Failed("plugin", said) /\ said # "rows" => said \in {"none", "refused"}
      BY DEF Failed, Said
    <3> HIDE DEF TypeOK, Own, OwnRoute, OwnHeard, OwnScan, OwnRows, OwnSaid, OwnHonest
    <3> QED BY <2>3, <3>1, HeardOneMore
  <2>6. (\E h \in heard'[r] : h[1] = "plugin" /\ Failed(h[1], h[2])) <=> Failed("plugin", said)
    <3> HIDE DEF TypeOK, Own, OwnRoute, OwnHeard, OwnScan, OwnRows, OwnSaid, OwnHonest
    <3>1. ~\E h \in heard[r] : h[1] = "plugin" /\ Failed(h[1], h[2])
      BY <2>2
    <3> QED BY <2>3, <3>1, HeardOneMore
  <2>7. OwnRoute(r)' /\ OwnHeard(r)' /\ OwnRows(r)' /\ OwnSaid(r)'
    BY <1>0, <1>2, <2>2, <2>4 DEF Chain
  <2>8. OwnScan(r)'
    BY <2>2, <2>3, <2>4
  <2>9. OwnHonest(r)'
    BY <2>4, <2>5, <2>6
  <2> QED BY <2>7, <2>8, <2>9
<1>3. CASE IvPercentile(r)
  <2>1. PICK said \in Says("optional") :
          /\ heard' = [heard EXCEPT ![r] = @ \cup {<<"optional", said>>}]
          /\ \E outcome \in Filtered(Noted(said)) : EndScan(r, outcome)
    BY <1>3 DEF IvPercentile, Hear
  <2>2. /\ step[r] = Batches /\ UNCHANGED <<step, ladder, page, name>>
        /\ \A h \in heard[r] : h[1] = "plugin" /\ ~Failed("plugin", h[2])
    BY <1>3 DEF IvPercentile, snapshot
  <2>3. heard'[r] = heard[r] \cup {<<"optional", said>>}
    BY <2>1
  <2>4. pc'[r] = "next" /\ found'[r] \in Filtered(Noted(said))
    BY <2>1 DEF EndScan, Go
  <2>5. /\ found'[r] \in {"group", "unmeasured", "unread", "filters"}
        /\ found'[r] = "unread" => said = "down"
        /\ found'[r] \in {"group", "unmeasured"} => said # "down"
    BY <2>4 DEF Filtered, Noted, Failed
  <2>6. ~\E h \in heard'[r] : h[1] = "plugin" /\ Failed(h[1], h[2])
    BY <2>2, <2>3
  <2>7. <<"optional", "down">> \in heard'[r] <=> said = "down"
    BY <2>2, <2>3
  <2> QED BY <1>0, <2>2, <2>4, <2>5, <2>6, <2>7
<1>4. CASE NextName(r)
  <2>1. CASE MoreNames(r)
    BY <1>0, <1>4, <2>1 DEF NextName, Go, snapshot
  <2>2. CASE ~MoreNames(r)
    BY <1>0, <1>4, <2>2 DEF NextName, Answer, scan, reading, snapshot
  <2> QED BY <2>1, <2>2
<1> QED BY <1>1, <1>2, <1>3, <1>4

-----------------------------------------------------------------------------
\* What Redis holds after a step.
LEMMA NextCache == IInv /\ [Next]_vars => CacheInv'
<1> SUFFICES ASSUME IInv, [Next]_vars PROVE CacheInv'
  OBVIOUS
<1> USE SizesAssumption DEF IInv
<1>1. CASE UNCHANGED redis
  BY <1>1 DEF redis, CacheInv
<1>2. ASSUME NEW r \in Requests, Store(r) PROVE CacheInv'
  <2>1. ladder[r] \in Ladders /\ page[r] \in Pages /\ page[r].of = ladder[r] /\ calm \in Nat
    <3>1. page[r] # NoPage
      BY <1>2 DEF Store, RouteInv, Pages, NoPage
    <3> QED BY <1>2, <3>1 DEF Store, RouteInv, RowsAsAsked, TypeOK
  <2>2. CASE UNCHANGED redis
    BY <2>2 DEF redis, CacheInv
  <2>3. CASE /\ cache' = [cache EXCEPT ![ladder[r]] = [page |-> page[r], left |-> CacheTTL]]
             /\ calm' = IF page[r].blank THEN 0 ELSE calm
    <3>1. ASSUME NEW k \in Ladders, cache'[k].left > 0
          PROVE  /\ cache'[k].page \in Pages /\ cache'[k].page.of = k
                 /\ cache'[k].page.blank => calm' + cache'[k].left <= CacheTTL
      <4>1. CASE k = ladder[r]
        BY <2>1, <2>3, <4>1 DEF TypeOK
      <4>2. CASE k # ladder[r]
        BY <2>1, <2>3, <3>1, <4>2 DEF TypeOK, CacheInv
      <4> QED BY <4>1, <4>2
    <3> QED BY <3>1 DEF CacheInv
  <2> QED BY <1>2, <2>2, <2>3 DEF Store, Key
<1>3. CASE Tick
  <2>1. ASSUME NEW k \in Ladders, cache'[k].left > 0
        PROVE  /\ cache'[k].page \in Pages /\ cache'[k].page.of = k
               /\ cache'[k].page.blank => calm' + cache'[k].left <= CacheTTL
    <3>1. cache[k].left \in Nat /\ calm \in Nat /\ calm' <= calm + 1 /\ calm' \in Nat
      BY <1>3 DEF Tick, TypeOK
    <3>2. cache[k].left > 1 /\ cache'[k].left = cache[k].left - 1 /\ cache'[k].page = cache[k].page
      BY <1>3, <2>1, <3>1 DEF Tick, TypeOK, Nothing
    <3> QED BY <3>1, <3>2 DEF CacheInv
  <2> QED BY <2>1 DEF CacheInv
<1>4. ASSUME NEW r \in Requests, Look(r) PROVE CacheInv'
  BY <1>4 DEF Look, OnHit, CacheInv
<1>5. \/ UNCHANGED redis
      \/ \E r \in Requests : Store(r) \/ Look(r)
      \/ Tick
  BY DEF Next, vars, Arrive, Leave, Layers, BadArguments, Read, Respond, PickNothing, NoStrikes,
         Fetch, Expirations, Chain, IvPercentile, NextName
<1> QED BY <1>1, <1>2, <1>3, <1>4, <1>5

\* The invariant is inductive.
LEMMA NextInv == IInv /\ [Next]_vars => IInv'
<1> SUFFICES ASSUME IInv, [Next]_vars PROVE IInv'
  OBVIOUS
<1>1. TypeOK /\ \A u \in Requests : Own(u)
  BY OwnIsInv DEF IInv
<1>2. \A u \in Requests : Own(u)'
  <2>1. CASE Tick \/ UNCHANGED vars
    <3>1. \A u \in Requests : Stays(u)
      BY <2>1 DEF Tick, vars, request, reading, snapshot, scan, Stays
    <3> QED BY <1>1, <3>1, SameOwn
  <2>2. ASSUME NEW r \in Requests, Act(r) PROVE \A u \in Requests : Own(u)'
    <3>1. Own(r)'
      BY <2>2, AroundOwn, ReaderOwn, SnapshotOwn, ScanOwn DEF Act
    <3>2. \A u \in Requests \ {r} : Own(u)'
      BY <1>1, <2>2, OthersSame, SameOwn
    <3> QED BY <3>1, <3>2
  <2> QED BY <2>1, <2>2 DEF Next, Act
<1>3. (RouteInv /\ HeardInv /\ ScanInv /\ RowsAsAsked /\ OutagesSaid /\ ScanHonest)'
  <2>1. (\A r \in Requests : Own(r))'
    BY <1>2
  <2> QED BY <2>1, OwnIsInv, PTL
<1> QED BY <1>3, NextType, NextCache DEF IInv

\* Every reachable state satisfies it.
LEMMA Invariant == Spec => []IInv
BY InitInv, NextInv, PTL DEF Spec

-----------------------------------------------------------------------------
\* The state is of its types at all times.
THEOREM TypeCorrect == Spec => []TypeOK
<1>1. IInv => TypeOK
  BY DEF IInv
<1> QED BY <1>1, Invariant, PTL

\* Whatever callers, stores, expiries and failures of Redis, a page of option
\* snapshots is of the contracts it was asked for.
THEOREM PagesOfTheirOwn == Spec => []RowsAsAsked
<1>1. IInv => RowsAsAsked
  BY DEF IInv
<1> QED BY <1>1, Invariant, PTL

\* Every reader tells an outage from data that is missing, but for the reads
\* whose failures it leaves blank.
THEOREM NoOutageUnsaid == Spec => []OutagesSaid
<1>1. IInv => OutagesSaid
  BY DEF IInv
<1> QED BY <1>1, Invariant, PTL

\* The screener says of each name what it was told, however many batches its
\* window takes and whichever of them fails.
THEOREM ScansHonest == Spec => []ScanHonest
<1>1. IInv => ScanHonest
  BY DEF IInv
<1> QED BY <1>1, Invariant, PTL

\* A blank page is never found later than its stay after the last one stored.
THEOREM BlankPagesFade == Spec => BlanksFade
<1> DEFINE Fades == \A r \in Requests :
        pc[r] = "look" /\ pc'[r] = "done" /\ status'[r] = 200 /\ page'[r].blank
            => calm < CacheTTL
<1>1. ASSUME IInv, [Next]_vars PROVE [Fades]_vars
  <2> USE SizesAssumption
  <2> SUFFICES ASSUME Next, NEW r \in Requests, pc[r] = "look", pc'[r] = "done",
                      status'[r] = 200, page'[r].blank
               PROVE  calm < CacheTTL
    BY <1>1
  <2>1. pc \in [Requests -> Phase] /\ status \in [Requests -> Code] /\ page \in [Requests -> Pages \cup {NoPage}]
    BY <1>1 DEF IInv, TypeOK
  <2>2. page[r] = NoPage
    BY <1>1 DEF IInv, RouteInv
  <2>3. Act(r)
    <3>1. PICK u \in Requests : Act(u)
      BY DEF Next, Tick, Act
    <3>2. u # r => Stays(r)
      BY <1>1, <3>1, OthersSame DEF IInv
    <3> QED BY <3>1, <3>2 DEF Stays
  <2>4. Look(r)
    BY <2>1, <2>2, <2>3 DEF Act, Arrive, Leave, Layers, BadArguments, Read, Respond, PickNothing,
         NoStrikes, Fetch, Store, Expirations, Chain, IvPercentile, NextName, Answer, NoPage, snapshot
  <2>5. PICK l \in Ladders : cache[l].left > 0 /\ page' = [page EXCEPT ![r] = cache[l].page]
    BY <2>1, <2>4 DEF Look, Key, Go
  <2>6. calm + cache[l].left <= CacheTTL
    BY <1>1, <2>1, <2>5 DEF IInv, CacheInv
  <2>7. calm \in Nat /\ cache[l].left \in Nat
    BY <1>1 DEF IInv, TypeOK
  <2> QED BY <2>5, <2>6, <2>7
<1> QED BY <1>1, Invariant, PTL DEF Spec, BlanksFade

-----------------------------------------------------------------------------
\* The role of a token, and who has the role a write needs.
LEMMA Roles ==
  ASSUME NEW token \in Tokens
  PROVE  Resolve(token) \in VALID_ROLES /\ (Resolve(token) # "viewer" <=> token \in Entitled)
<1> DEFINE high == {"operator", "admin"}
           yaml == {t \in DOMAIN YamlTokens : YamlTokens[t] \in VALID_ROLES}
<1>1. VALID_ROLES = {"viewer", "operator", "admin"}
  BY DEF VALID_ROLES, ROLE_HIERARCHY
<1>2. DOMAIN FromYaml = yaml /\ \A t \in yaml : FromYaml[t] = YamlTokens[t]
  BY DEF FromYaml, Restrict
<1>3. /\ DOMAIN Configured = yaml \cup {EnvOperator, EnvAdmin}
      /\ \A t \in yaml : Configured[t] = YamlTokens[t]
      /\ \A t \in {EnvOperator, EnvAdmin} \ yaml : Configured[t] \in high
  BY <1>2 DEF Configured
<1>4. token \in Entitled <=>
        \/ token \in DOMAIN YamlTokens /\ YamlTokens[token] \in high
        \/ token \in {EnvOperator, EnvAdmin} \ yaml
        \/ token = NoToken /\ DefaultRole \in high
  BY <1>2 DEF Entitled
<1>5. CASE token = NoToken
  BY <1>1, <1>4, <1>5, TokensAssumption DEF Resolve, Anonymous
<1>6. CASE token # NoToken /\ token \in yaml
  BY <1>1, <1>3, <1>4, <1>6 DEF Resolve
<1>7. CASE token # NoToken /\ token \in {EnvOperator, EnvAdmin} \ yaml
  BY <1>1, <1>3, <1>4, <1>7 DEF Resolve
<1>8. CASE token # NoToken /\ token \notin DOMAIN Configured
  <2>1. Resolve(token) = "viewer"
    BY <1>8 DEF Resolve
  <2>2. token \notin Entitled
    BY <1>1, <1>3, <1>4, <1>8
  <2> QED BY <1>1, <2>1, <2>2
<1> QED BY <1>3, <1>5, <1>6, <1>7, <1>8

\* What the layers answer each request of a route.
LEMMA Admitted ==
  ASSUME NEW q \in Routes, NEW token \in Tokens, NEW old \in BOOLEAN
  PROVE  Admit(Method(q), q, token, old) = 200
            <=> /\ ~(old /\ q \in {"greeks", "snapshots", "liquidity", "relative"})
                /\ q = "feedback" => token \in Entitled
<1>1. Retired(Method(q), q, old) <=> old /\ q \in {"greeks", "snapshots", "liquidity", "relative"}
  BY DEF Retired, Method, Posts, RETIRED_QUERY_NAMES, Routes, Readers
<1>2. RequiredRole(Method(q), q) = IF q = "feedback" THEN "operator" ELSE "viewer"
  BY DEF RequiredRole, Method, Posts, SAFE_METHODS, READ_ONLY_POSTS
<1>3. Resolve(token) \in {"viewer", "operator", "admin"}
  BY Roles DEF VALID_ROLES, ROLE_HIERARCHY
<1>4. ~Below(token, "viewer") /\ (Below(token, "operator") <=> Resolve(token) = "viewer")
  BY <1>3 DEF Below, ROLE_HIERARCHY
<1>5. Denied(Method(q), q, token) <=> q = "feedback" /\ token \notin Entitled
  BY <1>2, <1>4, Roles DEF Denied
<1> QED BY <1>1, <1>5 DEF Admit

\* A write is let through for exactly those whose token, or whose lack of one,
\* entitles them to it, whatever the two places tokens are configured in say.
THEOREM WritersEntitled == Spec => WritesByRole
<1> DEFINE By(r) == pc[r] = "asked" /\ pc'[r] # "asked" =>
        LET through == pc'[r] # "done"
            refused == caller[r].old /\ route[r] \in {"greeks", "snapshots", "liquidity", "relative"} IN
        through <=> ~refused /\ (route[r] = "feedback" => caller[r].token \in Entitled)
<1>1. ASSUME IInv, Next PROVE \A r \in Requests : By(r)
  <2> SUFFICES ASSUME NEW r \in Requests, pc[r] = "asked", pc'[r] # "asked"
               PROVE  pc'[r] # "done" <=>
                        /\ ~(caller[r].old /\ route[r] \in {"greeks", "snapshots", "liquidity", "relative"})
                        /\ route[r] = "feedback" => caller[r].token \in Entitled
    OBVIOUS
  <2>1. /\ pc \in [Requests -> Phase] /\ route[r] \in Routes
        /\ caller[r].token \in Tokens /\ caller[r].old \in BOOLEAN
    BY <1>1 DEF IInv, TypeOK
  <2>2. Layers(r)
    <3>1. PICK u \in Requests : Act(u)
      BY <1>1 DEF Next, Tick, Act
    <3>2. u # r => Stays(r)
      BY <1>1, <3>1, OthersSame DEF IInv
    <3>3. Act(r)
      BY <3>1, <3>2 DEF Stays
    <3> QED BY <3>3 DEF Act, Arrive, Leave, BadArguments, Read, Respond, PickNothing,
         NoStrikes, Look, Fetch, Store, Expirations, Chain, IvPercentile, NextName
  <2>3. pc'[r] # "done" <=> Admit(Method(route[r]), route[r], caller[r].token, caller[r].old) = 200
    BY <2>1, <2>2 DEF Layers, Answer, Go, Entry
  <2> QED BY <2>1, <2>3, Admitted
<1>2. ASSUME IInv, [Next]_vars PROVE [\A r \in Requests : By(r)]_vars
  BY <1>1, <1>2
<1> HIDE DEF By
<1>3. Spec => [][\A r \in Requests : By(r)]_vars
  BY <1>2, Invariant, PTL DEF Spec
<1> QED BY <1>3 DEF WritesByRole, By

-----------------------------------------------------------------------------
(* The merged documentation. *)

\* How many services have been asked.
AskedSoFar == 4 - Len(fetching)

\* What is left to ask is the end of the order, and there is no answer before.
OrderInv ==
    /\ fetching \in {<<"Main", "Research", "Account", "Market">>, <<"Research", "Account", "Market">>,
                     <<"Account", "Market">>, <<"Market">>, << >>}
    /\ code \in {0, 200, 502}
    /\ fetching # << >> => code = 0

\* Who answered is among those asked, and the other secondaries are named.
HeardDocs == code # 502 =>
    /\ DOMAIN fetched \subseteq {Order[i] : i \in 1 .. AskedSoFar}
    /\ \A s \in DOMAIN fetched : fetched[s] \in Documents
    /\ unreachable = {Order[i] : i \in 2 .. AskedSoFar} \ DOMAIN fetched

\* A merged path is that of the first service asked that has it.
PathInv == code # 502 =>
    /\ \A p : p \in DOMAIN merged.paths <=> \E s \in DOMAIN fetched : p \in DOMAIN fetched[s].paths
    /\ \A p \in DOMAIN merged.paths :
        LET of == merged.paths[p].of IN
        /\ of \in DOMAIN fetched /\ p \in DOMAIN fetched[of].paths
        /\ \A i, j \in 1 .. 4 :
            Order[i] \in DOMAIN fetched /\ p \in DOMAIN fetched[Order[i]].paths /\ of = Order[j] => j <= i
        /\ merged.paths[p].refs = {<<Prefix(of), n>> : n \in fetched[of].paths[p]}

\* Every component of every service that answered is there under its prefix.
ComponentInv == code # 502 =>
    \A s \in DOMAIN fetched : \A n \in DOMAIN fetched[s].components :
        <<Prefix(s), n>> \in DOMAIN merged.components

DocsInv == OrderInv /\ HeardDocs /\ PathInv /\ ComponentInv

LEMMA OrderIs ==
  /\ Order = <<"Main", "Research", "Account", "Market">>
  /\ DOMAIN Order = 1 .. 4
  /\ Order[1] = "Main" /\ Order[2] = "Research" /\ Order[3] = "Account" /\ Order[4] = "Market"
  /\ DOMAIN Secondaries = 1 .. 3
  /\ \A i \in 1 .. 3 : Secondaries[i] = Order[i + 1]
  /\ Range(Secondaries) = {Order[i] : i \in 2 .. 4}
<1>1. Order = <<"Main", "Research", "Account", "Market">>
  BY DEF Order
<1>2. /\ DOMAIN Order = 1 .. 4
      /\ Order[1] = "Main" /\ Order[2] = "Research" /\ Order[3] = "Account" /\ Order[4] = "Market"
  BY <1>1
<1>3. /\ DOMAIN Secondaries = 1 .. 3
      /\ \A i \in 1 .. 3 : Secondaries[i] = Order[i + 1]
  <2>1. DOMAIN Secondaries = 1 .. 3 /\ Secondaries[1] = "Research" /\ Secondaries[2] = "Account" /\ Secondaries[3] = "Market"
    BY <1>1 DEF Secondaries
  <2>. QED  BY <2>1, <1>2
<1>4. Range(Secondaries) = {Order[i] : i \in 2 .. 4}
  <2>1. Range(Secondaries) = {Secondaries[i] : i \in 1 .. 3}
    BY <1>3 DEF Range
  <2>2. ASSUME NEW x  PROVE (\E i \in 1 .. 3 : x = Secondaries[i]) <=> (\E i \in 2 .. 4 : x = Order[i])
    BY <1>3, <1>2
  <2>. QED  BY <2>1, <2>2
<1>. QED  BY <1>1, <1>2, <1>3, <1>4

LEMMA AskedAt ==
  ASSUME OrderInv, NEW s, Asked(s)
  PROVE  /\ OrderInv' /\ code = 0 /\ code' \in {0, 200}
         /\ \E n \in 1 .. 4 :
              /\ s = Order[n] /\ AskedSoFar = n - 1 /\ AskedSoFar' = n
              /\ code' = 200 => n = 4
<1>1. CASE fetching = <<"Main", "Research", "Account", "Market">>
  BY <1>1, OrderIs DEF OrderInv, Asked, AskedSoFar
<1>2. CASE fetching = <<"Research", "Account", "Market">>
  BY <1>2, OrderIs DEF OrderInv, Asked, AskedSoFar
<1>3. CASE fetching = <<"Account", "Market">>
  BY <1>3, OrderIs DEF OrderInv, Asked, AskedSoFar
<1>4. CASE fetching = <<"Market">>
  BY <1>4, OrderIs DEF OrderInv, Asked, AskedSoFar
<1>. QED  BY SMTT(30), <1>1, <1>2, <1>3, <1>4 DEF OrderInv, Asked

LEMMA DocsInitInv == DocsInit => DocsInv
<1>. SUFFICES ASSUME DocsInit  PROVE DocsInv
  OBVIOUS
<1>1. fetching = Order /\ AskedSoFar = 0 /\ code = 0 /\ unreachable = {}
  BY OrderIs DEF DocsInit, AskedSoFar
<1>2. DOMAIN fetched = {} /\ DOMAIN merged.paths = {}
  BY DEF DocsInit, Nobody, NoDocument
<1>3. OrderInv
  BY <1>1, OrderIs DEF OrderInv
<1>4. HeardDocs
  BY <1>1, <1>2 DEF HeardDocs
<1>5. PathInv /\ ComponentInv
  BY <1>1, <1>2 DEF PathInv, ComponentInv
<1>. QED  BY <1>3, <1>4, <1>5 DEF DocsInv

\* A document's own paths refer to components of its own, under its prefix.
LEMMA RefsPrefixed ==
  ASSUME NEW d \in Documents, NEW p \in DOMAIN d.paths, NEW s
  PROVE  Refs(s, d, d.paths[p]) = {<<s, n>> : n \in d.paths[p]}
<1>1. d.paths[p] \subseteq DOMAIN d.components
  BY DocumentsAssumption
<1>2. d.paths[p] \cap DOMAIN d.components = d.paths[p] /\ d.paths[p] \ DOMAIN d.components = {}
  BY <1>1
<1>3. Refs(s, d, d.paths[p]) = Prefixed(s, d.paths[p]) \cup Plain({})
  BY <1>2 DEF Refs
<1>. QED  BY <1>3 DEF Prefixed, Plain

\* What one more answer adds to those heard.
LEMMA HeardOf ==
  ASSUME NEW s, NEW d, Heard(s, d), s \notin DOMAIN fetched
  PROVE  /\ DOMAIN fetched' = DOMAIN fetched \cup {s}
         /\ fetched'[s] = d
         /\ \A t \in DOMAIN fetched : fetched'[t] = fetched[t]
BY DEF Heard, Onto

LEMMA HeardStep ==
  ASSUME DocsInv, NEW n \in 1 .. 4, AskedSoFar = n - 1, AskedSoFar' = n, code = 0,
         NEW d \in Documents, Heard(Order[n], d), UNCHANGED unreachable
  PROVE  /\ HeardDocs'
         /\ Order[n] \notin DOMAIN fetched
         /\ DOMAIN fetched \subseteq {Order[i] : i \in 1 .. n - 1}
<1>1. DOMAIN fetched \subseteq {Order[i] : i \in 1 .. n - 1}
  BY DEF DocsInv, HeardDocs
<1>2. \A i, j \in 1 .. 4 : Order[i] = Order[j] => i = j
  BY OrderIs
<1>3. Order[n] \notin DOMAIN fetched
  BY <1>1, <1>2
<1>4. /\ DOMAIN fetched' = DOMAIN fetched \cup {Order[n]}
      /\ \A t \in DOMAIN fetched' : fetched'[t] \in Documents
  <2>1. \A t \in DOMAIN fetched : fetched[t] \in Documents
    BY DEF DocsInv, HeardDocs
  <2>. QED  BY SMTT(30), <1>3, <2>1, HeardOf
<1>5. DOMAIN fetched' \subseteq {Order[i] : i \in 1 .. n}
  BY <1>1, <1>4
<1>6. unreachable' = {Order[i] : i \in 2 .. n} \ DOMAIN fetched'
  <2>1. unreachable = {Order[i] : i \in 2 .. n - 1} \ DOMAIN fetched
    BY DEF DocsInv, HeardDocs
  <2>2. ASSUME NEW x
        PROVE  (x \in {Order[i] : i \in 2 .. n - 1} /\ x \notin DOMAIN fetched)
                <=> (x \in {Order[i] : i \in 2 .. n} /\ x \notin DOMAIN fetched')
    BY <1>4, <1>2, <1>3
  <2>. QED  BY <2>1, <2>2
<1>. QED  BY <1>1, <1>3, <1>4, <1>5, <1>6 DEF HeardDocs

LEMMA MainStep ==
  ASSUME DocsInv, NEW d \in Documents, FetchMain(d)
  PROVE  DocsInv'
<1>. PICK n \in 1 .. 4 : "Main" = Order[n] /\ AskedSoFar = n - 1 /\ AskedSoFar' = n
  BY AskedAt DEF FetchMain, DocsInv
<1>1. OrderInv' /\ code = 0 /\ code' # 502
  BY AskedAt DEF FetchMain, DocsInv
<1>2. n = 1
  BY OrderIs
<1>3. HeardDocs' /\ DOMAIN fetched = {}
  BY <1>1, <1>2, HeardStep DEF FetchMain
<1>4. DOMAIN fetched' = {"Main"} /\ fetched'["Main"] = d
  BY <1>3, HeardOf DEF FetchMain
<1>5. /\ DOMAIN merged'.paths = DOMAIN d.paths
      /\ \A p \in DOMAIN d.paths :
            merged'.paths[p].of = "Main" /\ merged'.paths[p].refs = {<<"", m>> : m \in d.paths[p]}
      /\ DOMAIN merged'.components = {<<"", m>> : m \in DOMAIN d.components}
  BY DEF FetchMain, MainDocument, Plain
<1>6. PathInv'
  <2>1. ASSUME NEW i \in 1 .. 4, Order[i] = "Main"  PROVE i = 1
    BY <2>1, OrderIs
  <2>2. Prefix("Main") = ""
    BY DEF Prefix
  <2>3. \A p : p \in DOMAIN merged'.paths <=> \E t \in DOMAIN fetched' : p \in DOMAIN fetched'[t].paths
    BY <1>4, <1>5
  <2>4. ASSUME NEW p \in DOMAIN merged'.paths
        PROVE  /\ merged'.paths[p].of = "Main"
               /\ "Main" \in DOMAIN fetched' /\ p \in DOMAIN fetched'["Main"].paths
               /\ merged'.paths[p].refs = {<<Prefix("Main"), m>> : m \in fetched'["Main"].paths[p]}
    <3>1. p \in DOMAIN d.paths /\ fetched'["Main"] = d
      BY <1>4, <1>5
    <3>2. merged'.paths[p].of = "Main" /\ merged'.paths[p].refs = {<<"", m>> : m \in d.paths[p]}
      BY <1>5, <3>1
    <3>. QED  BY <1>4, <2>2, <3>1, <3>2
  <2>5. ASSUME NEW i \in 1 .. 4, NEW j \in 1 .. 4, Order[i] \in DOMAIN fetched', "Main" = Order[j]
        PROVE  j <= i
    BY <1>4, <2>1, <2>5
  <2>. QED  BY <2>3, <2>4, <2>5 DEF PathInv
<1>7. ComponentInv'
  BY ZenonT(40), <1>4, <1>5 DEF ComponentInv, Prefix
<1>. QED  BY <1>1, <1>3, <1>6, <1>7 DEF DocsInv

LEMMA OtherStep ==
  ASSUME DocsInv, NEW s, s # "Main", NEW d \in Documents, FetchOther(s, d)
  PROVE  DocsInv'
<1>. PICK n \in 1 .. 4 : s = Order[n] /\ AskedSoFar = n - 1 /\ AskedSoFar' = n
  BY AskedAt DEF FetchOther, DocsInv
<1>1. OrderInv' /\ code = 0 /\ code' # 502
  BY AskedAt DEF FetchOther, DocsInv
<1>2. HeardDocs' /\ s \notin DOMAIN fetched /\ DOMAIN fetched \subseteq {Order[i] : i \in 1 .. n - 1}
  BY <1>1, HeardStep DEF FetchOther
<1>3. /\ DOMAIN fetched' = DOMAIN fetched \cup {s} /\ fetched'[s] = d
      /\ \A t \in DOMAIN fetched : fetched'[t] = fetched[t]
  BY <1>2, HeardOf DEF FetchOther
<1>4. /\ DOMAIN merged'.paths = DOMAIN merged.paths \cup DOMAIN d.paths
      /\ \A p \in DOMAIN merged.paths : merged'.paths[p] = merged.paths[p]
      /\ \A p \in DOMAIN d.paths \ DOMAIN merged.paths :
            merged'.paths[p] = [of |-> s, refs |-> Refs(s, d, d.paths[p])]
      /\ DOMAIN merged'.components = {<<s, m>> : m \in DOMAIN d.components} \cup DOMAIN merged.components
  BY DEF FetchOther, Merge, Onto, Prefixed
<1>5. PathInv'
  <2>0. PathInv
    BY DEF DocsInv
  <2>1. \A p : p \in DOMAIN merged'.paths <=> \E t \in DOMAIN fetched' : p \in DOMAIN fetched'[t].paths
    BY <1>1, <1>3, <1>4, <2>0 DEF PathInv
  <2>2. ASSUME NEW p \in DOMAIN merged.paths
        PROVE  LET of == merged'.paths[p].of IN
               /\ of \in DOMAIN fetched' /\ p \in DOMAIN fetched'[of].paths
               /\ \A i, j \in 1 .. 4 :
                    Order[i] \in DOMAIN fetched' /\ p \in DOMAIN fetched'[Order[i]].paths /\ of = Order[j] => j <= i
               /\ merged'.paths[p].refs = {<<Prefix(of), m>> : m \in fetched'[of].paths[p]}
    <3>. DEFINE of == merged.paths[p].of
    <3>1. /\ of \in DOMAIN fetched /\ p \in DOMAIN fetched[of].paths
          /\ \A i, j \in 1 .. 4 :
                Order[i] \in DOMAIN fetched /\ p \in DOMAIN fetched[Order[i]].paths /\ of = Order[j] => j <= i
          /\ merged.paths[p].refs = {<<Prefix(of), m>> : m \in fetched[of].paths[p]}
      BY <1>1, <2>0 DEF PathInv
    <3>2. merged'.paths[p] = merged.paths[p] /\ fetched'[of] = fetched[of]
      BY <1>3, <1>4, <3>1
    <3>3. ASSUME NEW i \in 1 .. 4, NEW j \in 1 .. 4, Order[i] = s, of = Order[j]
          PROVE  j <= i
      <4>1. i = n /\ j \in 1 .. n - 1
        BY <1>2, <3>1, <3>3, OrderIs
      <4>. QED  BY <4>1
    <3>. QED  BY <1>3, <3>1, <3>2, <3>3
  <2>3. ASSUME NEW p \in DOMAIN d.paths \ DOMAIN merged.paths
        PROVE  LET of == merged'.paths[p].of IN
               /\ of \in DOMAIN fetched' /\ p \in DOMAIN fetched'[of].paths
               /\ \A i, j \in 1 .. 4 :
                    Order[i] \in DOMAIN fetched' /\ p \in DOMAIN fetched'[Order[i]].paths /\ of = Order[j] => j <= i
               /\ merged'.paths[p].refs = {<<Prefix(of), m>> : m \in fetched'[of].paths[p]}
    <3>1. merged'.paths[p].of = s /\ merged'.paths[p].refs = {<<Prefix(s), m>> : m \in d.paths[p]}
      <4>1. Prefix(s) = s
        BY DEF Prefix
      <4>2. Refs(s, d, d.paths[p]) = {<<s, m>> : m \in d.paths[p]}
        BY RefsPrefixed
      <4>3. merged'.paths[p] = [of |-> s, refs |-> Refs(s, d, d.paths[p])]
        BY <1>4
      <4>. QED  BY <4>1, <4>2, <4>3
    <3>2. \A t \in DOMAIN fetched : p \notin DOMAIN fetched[t].paths
      BY <1>1, <2>0 DEF PathInv
    <3>3. ASSUME NEW i \in 1 .. 4, NEW j \in 1 .. 4, Order[i] = s, s = Order[j]
          PROVE  j <= i
      BY <3>3, OrderIs
    <3>. QED  BY <1>3, <3>1, <3>2, <3>3
  <2>. QED  BY SMTT(30), <1>4, <2>1, <2>2, <2>3 DEF PathInv
<1>6. ComponentInv'
  <2>1. ASSUME NEW t \in DOMAIN fetched, NEW m \in DOMAIN fetched[t].components
        PROVE  <<Prefix(t), m>> \in DOMAIN merged.components
    BY <1>1 DEF DocsInv, ComponentInv
  <2>2. ASSUME NEW t \in DOMAIN fetched', NEW m \in DOMAIN fetched'[t].components
        PROVE  <<Prefix(t), m>> \in DOMAIN merged'.components
    <3>1. CASE t \in DOMAIN fetched
      BY <1>3, <1>4, <2>1, <3>1
    <3>2. CASE t = s
      <4>1. m \in DOMAIN d.components /\ Prefix(t) = s
        BY <1>3, <3>2 DEF Prefix
      <4>. QED  BY <1>4, <4>1
    <3>. QED  BY <1>3, <3>1, <3>2
  <2>. QED  BY <2>2 DEF ComponentInv
<1>. QED  BY <1>1, <1>2, <1>5, <1>6 DEF DocsInv

LEMMA DownStep ==
  ASSUME DocsInv, NEW s, s # "Main", Down(s)
  PROVE  DocsInv'
<1>. PICK n \in 1 .. 4 : s = Order[n] /\ AskedSoFar = n - 1 /\ AskedSoFar' = n
  BY AskedAt DEF Down, DocsInv
<1>1. OrderInv' /\ code = 0 /\ n # 1
  BY AskedAt, OrderIs DEF Down, DocsInv
<1>2. HeardDocs'
  <2>1. /\ DOMAIN fetched \subseteq {Order[i] : i \in 1 .. n - 1}
        /\ \A t \in DOMAIN fetched : fetched[t] \in Documents
        /\ unreachable = {Order[i] : i \in 2 .. n - 1} \ DOMAIN fetched
    BY <1>1 DEF DocsInv, HeardDocs
  <2>2. s \notin DOMAIN fetched
    BY <2>1, OrderIs
  <2>3. {Order[i] : i \in 2 .. n} = {Order[i] : i \in 2 .. n - 1} \cup {s}
    BY <1>1
  <2>4. unreachable' = {Order[i] : i \in 2 .. n} \ DOMAIN fetched
    BY <2>1, <2>2, <2>3 DEF Down
  <2>5. DOMAIN fetched \subseteq {Order[i] : i \in 1 .. n}
    BY <2>1
  <2>. QED  BY <2>1, <2>4, <2>5 DEF HeardDocs, Down
<1>3. PathInv' /\ ComponentInv'
  BY <1>1 DEF DocsInv, PathInv, ComponentInv, Down
<1>. QED  BY <1>1, <1>2, <1>3 DEF DocsInv

LEMMA DocsStep == DocsInv /\ [DocsNext]_docsVars => DocsInv'
<1>. SUFFICES ASSUME DocsInv, [DocsNext]_docsVars  PROVE DocsInv'
  OBVIOUS
<1>1. CASE MainDown
  BY <1>1 DEF MainDown, DocsInv, OrderInv, HeardDocs, PathInv, ComponentInv
<1>2. CASE LeaveDocs
  <2>1. DocsInit'
    BY <1>2 DEF LeaveDocs, DocsInit
  <2>2. AskedSoFar' = 0 /\ code' = 0 /\ unreachable' = {} /\ DOMAIN fetched' = {} /\ DOMAIN merged'.paths = {}
    BY <2>1, OrderIs DEF DocsInit, AskedSoFar, Nobody, NoDocument
  <2>3. OrderInv'
    BY <2>1, OrderIs DEF DocsInit, OrderInv
  <2>. QED  BY <2>2, <2>3 DEF DocsInv, HeardDocs, PathInv, ComponentInv
<1>3. ASSUME NEW d \in Documents, FetchMain(d)  PROVE DocsInv'
  BY <1>3, MainStep
<1>4. ASSUME NEW i \in DOMAIN Secondaries, NEW d \in Documents, FetchOther(Secondaries[i], d)
      PROVE  DocsInv'
  <2>1. Secondaries[i] # "Main"
    BY OrderIs
  <2>. QED  BY <1>4, <2>1, OtherStep
<1>5. ASSUME NEW i \in DOMAIN Secondaries, Down(Secondaries[i])  PROVE DocsInv'
  <2>1. Secondaries[i] # "Main"
    BY OrderIs
  <2>. QED  BY <1>5, <2>1, DownStep
<1>6. CASE UNCHANGED docsVars
  BY <1>6 DEF docsVars, DocsInv, OrderInv, HeardDocs, PathInv, ComponentInv, AskedSoFar
<1>. QED  BY <1>1, <1>2, <1>3, <1>4, <1>5, <1>6 DEF DocsNext

LEMMA WholeByInv == DocsInv => DocumentWhole
<1>. SUFFICES ASSUME DocsInv, code = 200  PROVE DocumentWhole
  BY DEF DocumentWhole
<1>1. AskedSoFar = 4
  BY DEF DocsInv, OrderInv, AskedSoFar
<1>2. unreachable = Range(Secondaries) \ DOMAIN fetched
  BY <1>1, OrderIs DEF DocsInv, HeardDocs
<1>3. DOMAIN merged.paths = UNION {DOMAIN fetched[s].paths : s \in DOMAIN fetched}
  <2>1. \A p : p \in DOMAIN merged.paths <=> \E s \in DOMAIN fetched : p \in DOMAIN fetched[s].paths
    BY DEF DocsInv, PathInv
  <2>. QED  BY <2>1
<1>4. ASSUME NEW p \in DOMAIN merged.paths
      PROVE  LET of == merged.paths[p].of IN
             /\ \A i, j \in DOMAIN Order :
                    Order[i] \in DOMAIN fetched /\ p \in DOMAIN fetched[Order[i]].paths /\ of = Order[j] => j <= i
             /\ merged.paths[p].refs = {<<Prefix(of), n>> : n \in fetched[of].paths[p]}
             /\ merged.paths[p].refs \subseteq DOMAIN merged.components
  <2>. DEFINE of == merged.paths[p].of
  <2>1. /\ of \in DOMAIN fetched /\ p \in DOMAIN fetched[of].paths
        /\ \A i, j \in 1 .. 4 :
            Order[i] \in DOMAIN fetched /\ p \in DOMAIN fetched[Order[i]].paths /\ of = Order[j] => j <= i
        /\ merged.paths[p].refs = {<<Prefix(of), n>> : n \in fetched[of].paths[p]}
    BY DEF DocsInv, PathInv
  <2>2. fetched[of].paths[p] \subseteq DOMAIN fetched[of].components
    BY <2>1, DocumentsAssumption DEF DocsInv, HeardDocs
  <2>3. \A n \in fetched[of].paths[p] : <<Prefix(of), n>> \in DOMAIN merged.components
    BY <2>1, <2>2 DEF DocsInv, ComponentInv
  <2>. QED  BY <2>1, <2>3, OrderIs
<1>. QED  BY <1>2, <1>3, <1>4 DEF DocumentWhole

\* Whatever the services answer and whichever of them are down, the merged
\* document holds every path fetched with the components it refers to, and
\* names every service that is not in it (_merged_openapi_response).
THEOREM WholeDocument == DocsSpec => []DocumentWhole
BY DocsInitInv, DocsStep, WholeByInv, PTL DEF DocsSpec

-----------------------------------------------------------------------------
(* The tables of the Stock Inspector. *)

\* A set of numbers that is not empty has a least one.
LEMMA Least ==
  ASSUME NEW T \in SUBSET Nat, T # {}
  PROVE  \E m \in T : \A n \in T : m <= n
<1>. DEFINE R == OpToRel(<, Nat)
<1>1. IsWellFoundedOn(R, Nat)
  BY NatLessThanWellFounded
<1>2. \A m, n \in Nat : n < m => <<n, m>> \in R
  BY DEF OpToRel
<1>. HIDE DEF R
<1>3. PICK m \in T : \A n \in T : ~(<<n, m>> \in R)
  BY <1>1, WFMin
<1>4. \A n \in T : ~(n < m)
  BY <1>2, <1>3
<1>. QED  BY <1>4

-----------------------------------------------------------------------------
\* The rows of some of a list that come before one of them.
Ahead(rows, some, i) == {j \in some : Before(rows, j, i)}

LEMMA RowsAre ==
  ASSUME NEW rows \in Seq(IncomeRow)
  PROVE  /\ Len(rows) \in Nat /\ DOMAIN rows = 1 .. Len(rows) /\ IsFiniteSet(DOMAIN rows)
         /\ \A i \in DOMAIN rows : rows[i] \in IncomeRow /\ rows[i].end \in Int
<1>1. Len(rows) \in Nat /\ DOMAIN rows = 1 .. Len(rows)
  OBVIOUS
<1>2. \A i \in DOMAIN rows : rows[i] \in IncomeRow
  OBVIOUS
<1>3. \A i \in DOMAIN rows : rows[i].end \in Int
  BY <1>2 DEF IncomeRow
<1>. QED  BY <1>1, <1>2, <1>3, FS_Interval

\* Before is a strict total order of the rows of a list.
LEMMA BeforeIs ==
  ASSUME NEW rows \in Seq(IncomeRow), NEW i \in DOMAIN rows, NEW j \in DOMAIN rows
  PROVE  /\ ~Before(rows, i, i)
         /\ Before(rows, i, j) => ~Before(rows, j, i)
         /\ i # j => Before(rows, i, j) \/ Before(rows, j, i)
         /\ Before(rows, i, j) => rows[i].end >= rows[j].end
         /\ \A k \in DOMAIN rows : Before(rows, i, j) /\ Before(rows, j, k) => Before(rows, i, k)
<1>1. i \in Int /\ j \in Int /\ rows[i].end \in Int /\ rows[j].end \in Int
  BY RowsAre
<1>2. \A k \in DOMAIN rows : k \in Int /\ rows[k].end \in Int
  BY RowsAre
<1>. QED  BY <1>1, <1>2 DEF Before

LEMMA AheadIs ==
  ASSUME NEW rows \in Seq(IncomeRow), NEW some \in SUBSET DOMAIN rows, NEW i \in some
  PROVE  /\ IsFiniteSet(Ahead(rows, some, i))
         /\ Cardinality(Ahead(rows, some, i)) \in 0 .. Cardinality(some) - 1
         /\ \A j \in some : Before(rows, j, i) =>
                Cardinality(Ahead(rows, some, j)) < Cardinality(Ahead(rows, some, i))
<1>1. IsFiniteSet(some) /\ Cardinality(some) \in Nat
  BY RowsAre, FS_Subset, FS_CardinalityType
<1>2. \A j \in some : /\ Ahead(rows, some, j) \subseteq some
                      /\ IsFiniteSet(Ahead(rows, some, j))
                      /\ Cardinality(Ahead(rows, some, j)) \in Nat
  BY <1>1, FS_Subset, FS_CardinalityType DEF Ahead
<1>3. i \notin Ahead(rows, some, i)
  BY BeforeIs DEF Ahead
<1>4. Cardinality(Ahead(rows, some, i)) < Cardinality(some)
  <2>1. Cardinality(Ahead(rows, some, i)) <= Cardinality(some) /\ Ahead(rows, some, i) # some
        /\ (Cardinality(some) = Cardinality(Ahead(rows, some, i)) => some = Ahead(rows, some, i))
    BY <1>1, <1>2, <1>3, FS_Subset
  <2>. QED  BY <1>1, <1>2, <2>1
<1>5. ASSUME NEW j \in some, Before(rows, j, i)
      PROVE  Cardinality(Ahead(rows, some, j)) < Cardinality(Ahead(rows, some, i))
  <2>1. Ahead(rows, some, j) \subseteq Ahead(rows, some, i)
    BY <1>5, BeforeIs DEF Ahead
  <2>2. j \in Ahead(rows, some, i) /\ j \notin Ahead(rows, some, j)
    BY <1>5, BeforeIs DEF Ahead
  <2>3. Cardinality(Ahead(rows, some, j)) <= Cardinality(Ahead(rows, some, i))
        /\ (Cardinality(Ahead(rows, some, i)) = Cardinality(Ahead(rows, some, j))
            => Ahead(rows, some, i) = Ahead(rows, some, j))
    BY <1>2, <2>1, FS_Subset
  <2>. QED  BY <1>2, <2>2, <2>3
<1>. QED  BY <1>1, <1>2, <1>4, <1>5

InOrder(rows, some, p) ==
    p \in [1 .. Cardinality(some) -> some] /\ \A k, l \in DOMAIN p : k < l => Before(rows, p[k], p[l])

\* Each of the rows once, and in the order of their places.
WholeOrder(rows, some, p) ==
    /\ Cardinality(some) \in Nat /\ DOMAIN p = 1 .. Cardinality(some)
    /\ \A k \in DOMAIN p : p[k] \in some
    /\ \A k, l \in DOMAIN p : k # l => p[k] # p[l]
    /\ \A i \in some : \E k \in DOMAIN p : p[k] = i
    /\ \A k, l \in DOMAIN p : Before(rows, p[k], p[l]) <=> k < l

\* Some rows in order are all of them.
LEMMA OrderIsWhole ==
  ASSUME NEW rows \in Seq(IncomeRow), NEW some \in SUBSET DOMAIN rows, NEW p, InOrder(rows, some, p)
  PROVE  WholeOrder(rows, some, p)
<1>. DEFINE D == 1 .. Cardinality(some)
<1>1. IsFiniteSet(some) /\ Cardinality(some) \in Nat
  BY RowsAre, FS_Subset, FS_CardinalityType
<1>2. p \in [D -> some] /\ DOMAIN p = D /\ \A k, l \in D : k < l => Before(rows, p[k], p[l])
  BY DEF InOrder
<1>3. \A k, l \in D : k # l => p[k] # p[l]
  <2>. SUFFICES ASSUME NEW k \in D, NEW l \in D, k < l  PROVE p[k] # p[l]
    BY <1>1
  <2>. QED  BY <1>2, BeforeIs
<1>4. Cardinality(D) = Cardinality(some)
  BY <1>1, FS_Interval
<1>. HIDE DEF D
<1>5. p \in Injection(D, some)
  BY <1>2, <1>3 DEF Injection, IsInjective
<1>6. p \in Surjection(D, some)
  BY <1>1, <1>4, <1>5, FS_Injection
<1>7. \A i \in some : \E k \in D : p[k] = i
  BY <1>6 DEF Surjection
<1>8. \A k, l \in D : Before(rows, p[k], p[l]) <=> k < l
  <2>. SUFFICES ASSUME NEW k \in D, NEW l \in D, Before(rows, p[k], p[l]), ~(k < l)  PROVE FALSE
    BY <1>2
  <2>1. p[k] \in DOMAIN rows /\ p[l] \in DOMAIN rows
    BY <1>2
  <2>2. k = l \/ l < k
    BY <1>1 DEF D
  <2>. QED  BY <1>2, <2>1, <2>2, BeforeIs
<1>. QED  BY <1>1, <1>2, <1>3, <1>7, <1>8 DEF D, WholeOrder

\* Any rows can be put in order: each has its place, how many are ahead of it.
LEMMA OrderExists ==
  ASSUME NEW rows \in Seq(IncomeRow), NEW some \in SUBSET DOMAIN rows
  PROVE  \E p : InOrder(rows, some, p)
<1>. DEFINE D == 1 .. Cardinality(some)
            place == [i \in some |-> Cardinality(Ahead(rows, some, i)) + 1]
<1>1. IsFiniteSet(some) /\ Cardinality(some) \in Nat
  BY RowsAre, FS_Subset, FS_CardinalityType
<1>2. /\ \A i \in some : place[i] \in D
      /\ \A i, j \in some : Before(rows, j, i) => place[j] < place[i]
  BY <1>1, AheadIs
<1>3. Cardinality(D) = Cardinality(some) /\ IsFiniteSet(D)
  BY <1>1, FS_Interval
<1>3a. D \subseteq Int
  OBVIOUS
<1>4. place \in [some -> D]
  BY <1>2
<1>. HIDE DEF D, place
<1>5. \A i, j \in some : i # j => place[i] # place[j]
  <2>. SUFFICES ASSUME NEW i \in some, NEW j \in some, i # j  PROVE place[i] # place[j]
    OBVIOUS
  <2>1. Before(rows, i, j) \/ Before(rows, j, i)
    BY BeforeIs
  <2>2. place[i] \in Int /\ place[j] \in Int
    BY <1>2, <1>3a
  <2>3. place[i] < place[j] \/ place[j] < place[i]
    BY <1>2, <2>1
  <2>. QED  BY <2>2, <2>3
<1>6. place \in Injection(some, D)
  BY <1>4, <1>5 DEF Injection, IsInjective
<1>7. place \in Surjection(some, D)
  BY <1>3, <1>6, FS_Injection
<1>8. \A k \in D : \E i \in some : place[i] = k
  BY <1>7 DEF Surjection
<1>. DEFINE p == [k \in D |-> CHOOSE i \in some : place[i] = k]
<1>9. \A k \in D : p[k] \in some /\ place[p[k]] = k
  BY <1>8
<1>10. p \in [D -> some]
  BY <1>9
<1>11. ASSUME NEW k \in D, NEW l \in D, k < l  PROVE Before(rows, p[k], p[l])
  <2>. DEFINE i == p[k]  j == p[l]
  <2>1. i \in some /\ j \in some /\ place[i] = k /\ place[j] = l
    BY <1>9
  <2>. HIDE DEF i, j, p
  <2>2. i # j /\ ~Before(rows, j, i)
    BY <1>2, <1>3a, <1>11, <2>1
  <2>3. Before(rows, i, j)
    BY <2>1, <2>2, BeforeIs
  <2>. QED  BY <2>3 DEF i, j
<1>12. DOMAIN p = D
  OBVIOUS
<1>. HIDE DEF p
<1>13. InOrder(rows, some, p)
  BY <1>10, <1>11, <1>12 DEF InOrder, D
<1>. QED  BY <1>13

LEMMA NewestFirstIs ==
  ASSUME NEW rows \in Seq(IncomeRow), NEW some \in SUBSET DOMAIN rows
  PROVE  \E p : InOrder(rows, some, p) /\ NewestFirst(rows, some) = [k \in DOMAIN p |-> rows[p[k]]]
<1>. DEFINE order == CHOOSE p \in [1 .. Cardinality(some) -> some] :
                       \A k, l \in DOMAIN p : k < l => Before(rows, p[k], p[l])
<1>1. \E p \in [1 .. Cardinality(some) -> some] :
          \A k, l \in DOMAIN p : k < l => Before(rows, p[k], p[l])
  BY OrderExists DEF InOrder
<1>2. InOrder(rows, some, order)
  BY <1>1 DEF InOrder
<1>3. NewestFirst(rows, some) = [k \in DOMAIN order |-> rows[order[k]]]
  BY DEF NewestFirst
<1>. HIDE DEF order
<1>. QED  BY <1>2, <1>3

-----------------------------------------------------------------------------
\* The table after each of the first m rows.
Filling(f, s, m, key, limit) ==
    f = [k \in 0 .. m |-> IF k = 0 THEN << >> ELSE Take(f[k - 1], s[k], key, limit)]

LEMMA FillingExists ==
  ASSUME NEW s, NEW key, NEW limit, NEW n \in Nat
  PROVE  \E f : Filling(f, s, n, key, limit)
<1>. DEFINE T == {m \in Nat : ~\E f : Filling(f, s, m, key, limit)}
<1>. SUFFICES ASSUME T # {}  PROVE FALSE
  OBVIOUS
<1>1. PICK m \in T : \A l \in T : m <= l
  BY Least
<1>2. m # 0
  <2>. DEFINE f == [k \in 0 .. 0 |-> << >>]
  <2>1. Filling(f, s, 0, key, limit)
    BY DEF Filling
  <2>. QED  BY <2>1
<1>3. m - 1 \in Nat /\ ~(m <= m - 1)
  BY <1>2
<1>4. PICK f : Filling(f, s, m - 1, key, limit)
  BY <1>1, <1>3
<1>. DEFINE g == [k \in 0 .. m |-> IF k = m THEN Take(f[m - 1], s[m], key, limit) ELSE f[k]]
<1>5. \A k \in 0 .. m - 1 : g[k] = f[k]
  BY <1>3
<1>6. \A k \in 0 .. m - 1 : f[k] = IF k = 0 THEN << >> ELSE Take(f[k - 1], s[k], key, limit)
  BY <1>4 DEF Filling
<1>7. ASSUME NEW k \in 0 .. m
      PROVE  g[k] = IF k = 0 THEN << >> ELSE Take(g[k - 1], s[k], key, limit)
  <2>1. CASE k = m
    <3>1. g[m] = Take(f[m - 1], s[m], key, limit) /\ g[m - 1] = f[m - 1]
      BY <1>3, <1>5
    <3>. HIDE DEF g
    <3>. QED  BY <1>2, <2>1, <3>1
  <2>2. CASE k = 0
    <3>1. g[0] = f[0] /\ f[0] = << >>
      BY <1>3, <1>5, <1>6
    <3>. HIDE DEF g
    <3>. QED  BY <2>2, <3>1
  <2>3. CASE k \in 1 .. m - 1
    <3>1. g[k] = f[k] /\ g[k - 1] = f[k - 1] /\ f[k] = Take(f[k - 1], s[k], key, limit)
      BY <1>3, <1>5, <1>6, <2>3
    <3>. HIDE DEF g
    <3>. QED  BY <2>3, <3>1
  <2>. QED  BY <2>1, <2>2, <2>3
<1>8. Filling(g, s, m, key, limit)
  <2>1. g = [k \in 0 .. m |-> g[k]]
    OBVIOUS
  <2>. HIDE DEF g
  <2>. QED  BY <1>7, <2>1 DEF Filling
<1>. HIDE DEF g
<1>. QED  BY <1>8

LEMMA TableIs ==
  ASSUME NEW s, Len(s) \in Nat, NEW key, NEW limit
  PROVE  \E f : Filling(f, s, Len(s), key, limit) /\ Table(s, key, limit) = f[Len(s)]
<1>. DEFINE out == CHOOSE f : f = [k \in 0 .. Len(s) |->
                       IF k = 0 THEN << >> ELSE Take(f[k - 1], s[k], key, limit)]
<1>1. Table(s, key, limit) = out[Len(s)]
  BY DEF Table
<1>2. Filling(out, s, Len(s), key, limit)
  BY FillingExists DEF Filling
<1>. HIDE DEF out
<1>. QED  BY <1>1, <1>2

-----------------------------------------------------------------------------
\* No earlier row has the key of this one.
First(s, key, i) == key[s[i]] = NoKey \/ \A j \in 1 .. i - 1 : key[s[j]] # key[s[i]]
Kept(s, key, k) == {i \in 1 .. k : First(s, key, i)}
\* Of these, those there is room for.
Fitting(s, key, limit, k) == {i \in Kept(s, key, k) : Cardinality(Kept(s, key, i - 1)) < limit}

LEMMA KeptIs ==
  ASSUME NEW s, NEW key, NEW k \in Nat
  PROVE  /\ IsFiniteSet(Kept(s, key, k)) /\ Cardinality(Kept(s, key, k)) \in Nat
         /\ Kept(s, key, 0) = {} /\ Cardinality(Kept(s, key, 0)) = 0
         /\ \A j \in 0 .. k : /\ Kept(s, key, j) \subseteq Kept(s, key, k)
                             /\ Cardinality(Kept(s, key, j)) <= Cardinality(Kept(s, key, k))
         /\ Kept(s, key, k + 1) = Kept(s, key, k) \cup (IF First(s, key, k + 1) THEN {k + 1} ELSE {})
         /\ Cardinality(Kept(s, key, k + 1)) =
                Cardinality(Kept(s, key, k)) + (IF First(s, key, k + 1) THEN 1 ELSE 0)
<1>1. \A j \in Nat : IsFiniteSet(Kept(s, key, j)) /\ Cardinality(Kept(s, key, j)) \in Nat
  <2>. SUFFICES ASSUME NEW j \in Nat
                PROVE  IsFiniteSet(Kept(s, key, j)) /\ Cardinality(Kept(s, key, j)) \in Nat
    OBVIOUS
  <2>1. Kept(s, key, j) \subseteq 1 .. j /\ IsFiniteSet(1 .. j)
    BY FS_Interval DEF Kept
  <2>. QED  BY <2>1, FS_Subset, FS_CardinalityType
<1>2. Kept(s, key, 0) = {}
  BY DEF Kept
<1>3. \A j \in 0 .. k : Kept(s, key, j) \subseteq Kept(s, key, k)
  BY DEF Kept
<1>4. \A j \in 0 .. k : Cardinality(Kept(s, key, j)) <= Cardinality(Kept(s, key, k))
  BY <1>1, <1>3, FS_Subset
<1>. DEFINE new == First(s, key, k + 1)
<1>5. Kept(s, key, k + 1) = Kept(s, key, k) \cup (IF new THEN {k + 1} ELSE {})
  <2>1. 1 .. k + 1 = (1 .. k) \cup {k + 1} /\ (k + 1) - 1 = k /\ k + 1 \notin 1 .. k
    OBVIOUS
  <2>. QED  BY <2>1 DEF Kept
<1>6. k + 1 \notin Kept(s, key, k)
  BY DEF Kept
<1>. HIDE DEF new
<1>7. Cardinality(Kept(s, key, k + 1)) = Cardinality(Kept(s, key, k)) + (IF new THEN 1 ELSE 0)
  <2>1. CASE new
    BY <1>1, <1>5, <1>6, <2>1, FS_AddElement
  <2>2. CASE ~new
    <3>1. Kept(s, key, k + 1) = Kept(s, key, k)
      BY <1>5, <2>2
    <3>. QED  BY <1>1, <2>2, <3>1
  <2>. QED  BY <2>1, <2>2
<1>. QED  BY <1>1, <1>2, <1>3, <1>4, <1>5, <1>7, FS_EmptySet DEF new

\* The earliest row with a key is kept.
LEMMA EarliestKept ==
  ASSUME NEW s, NEW key, NEW k \in Nat, NEW j \in 1 .. k
  PROVE  \E i \in Kept(s, key, k) : key[s[i]] = key[s[j]]
<1>. DEFINE T == {i \in 1 .. k : key[s[i]] = key[s[j]]}
<1>1. T \in SUBSET Nat /\ j \in T
  OBVIOUS
<1>2. PICK i \in T : \A l \in T : i <= l
  BY <1>1, Least
<1>3. i \in Kept(s, key, k)
  <2>1. ASSUME NEW l \in 1 .. i - 1  PROVE key[s[l]] # key[s[i]]
    <3>1. l \in 1 .. k /\ ~(i <= l)
      BY <1>2
    <3>. QED  BY <1>2, <3>1
  <2>2. First(s, key, i) /\ i \in 1 .. k
    BY <2>1 DEF First
  <2>. QED  BY <2>2 DEF Kept
<1>. QED  BY <1>2, <1>3

\* A table that has been offered the first k rows.
TableAfter(o, s, key, limit, k) ==
    /\ o \in Seq(IncomeRow) /\ Len(o) <= limit
    /\ Len(o) < limit => Len(o) = Cardinality(Kept(s, key, k))
    /\ Len(o) = limit => Cardinality(Kept(s, key, k)) >= limit
    /\ Range(o) = {s[i] : i \in Fitting(s, key, limit, k)}
    /\ \A i, j \in DOMAIN o : i < j => o[i].end >= o[j].end

LEMMA TakeKeeps ==
  ASSUME NEW s \in Seq(IncomeRow), NEW key, NEW limit \in Nat \ {0}, NEW k \in Nat, k + 1 <= Len(s),
         \A i, j \in DOMAIN s : i < j => s[i].end >= s[j].end,
         NEW o, TableAfter(o, s, key, limit, k)
  PROVE  TableAfter(Take(o, s[k + 1], key, limit), s, key, limit, k + 1)
<1>. DEFINE r == s[k + 1]
            new == First(s, key, k + 1)
            has == \E i \in DOMAIN o : key[o[i]] = key[r]
            C == Cardinality(Kept(s, key, k))
            D == Cardinality(Kept(s, key, k + 1))
            t == Take(o, r, key, limit)
<1>1. r \in IncomeRow /\ k + 1 \in DOMAIN s
  BY RowsAre
<1>2. /\ o \in Seq(IncomeRow) /\ Len(o) \in Nat /\ Len(o) <= limit
      /\ Len(o) < limit => Len(o) = C
      /\ Len(o) = limit => C >= limit
      /\ Range(o) = {s[i] : i \in Fitting(s, key, limit, k)}
      /\ \A i, j \in DOMAIN o : i < j => o[i].end >= o[j].end
  BY DEF TableAfter
<1>3. /\ C \in Nat /\ Kept(s, key, k + 1) = Kept(s, key, k) \cup (IF new THEN {k + 1} ELSE {})
      /\ D = C + (IF new THEN 1 ELSE 0)
  BY KeptIs
<1>4. \A i \in Kept(s, key, k) : i \in 1 .. k /\ Cardinality(Kept(s, key, i - 1)) <= C
  <2>. SUFFICES ASSUME NEW i \in Kept(s, key, k)
                PROVE  i \in 1 .. k /\ Cardinality(Kept(s, key, i - 1)) <= C
    OBVIOUS
  <2>1. i \in 1 .. k
    BY DEF Kept
  <2>2. i - 1 \in 0 .. k
    BY <2>1
  <2>. QED  BY <2>1, <2>2, KeptIs
<1>5. Fitting(s, key, limit, k + 1) =
        Fitting(s, key, limit, k) \cup (IF new /\ C < limit THEN {k + 1} ELSE {})
  <2>1. (k + 1) - 1 = k
    OBVIOUS
  <2>. HIDE DEF new
  <2>. QED  BY <1>3, <2>1 DEF Fitting
<1>6. \A x \in Range(o) : \E i \in 1 .. k : x = s[i]
  BY <1>2, <1>4 DEF Fitting
<1>7. CASE Len(o) = limit
  <2>1. t = o
    BY <1>2, <1>7 DEF Take
  <2>2. C >= limit /\ D >= limit /\ ~(C < limit)
    BY <1>2, <1>3, <1>7
  <2>3. Fitting(s, key, limit, k + 1) = Fitting(s, key, limit, k)
    BY <1>5, <2>2
  <2>. HIDE DEF t, C, D, r
  <2>4. Cardinality(Kept(s, key, k + 1)) >= limit
    BY <2>2 DEF D
  <2>5. TableAfter(t, s, key, limit, k + 1)
    BY <1>2, <1>7, <2>1, <2>3, <2>4 DEF TableAfter
  <2>. QED  BY <2>5 DEF t, r
<1>8. CASE Len(o) < limit
  <2>1. Fitting(s, key, limit, k) = Kept(s, key, k) /\ C < limit
    <3>1. C < limit
      BY <1>2, <1>8
    <3>2. \A i \in Kept(s, key, k) : Cardinality(Kept(s, key, i - 1)) < limit
      <4>1. ASSUME NEW i \in Kept(s, key, k)  PROVE Cardinality(Kept(s, key, i - 1)) < limit
        <5>1. i - 1 \in Nat /\ Cardinality(Kept(s, key, i - 1)) <= C
          BY <1>4
        <5>2. Cardinality(Kept(s, key, i - 1)) \in Nat
          BY <5>1, KeptIs
        <5>. HIDE DEF C
        <5>. QED  BY <1>3, <3>1, <5>1, <5>2
      <4>. QED  BY <4>1
    <3>. QED  BY <3>1, <3>2 DEF Fitting
  <2>2. has <=> \E j \in 1 .. k : key[s[j]] = key[r]
    <3>1. ASSUME has  PROVE \E j \in 1 .. k : key[s[j]] = key[r]
      BY <1>6, <3>1 DEF Range
    <3>2. ASSUME NEW j \in 1 .. k, key[s[j]] = key[r]  PROVE has
      <4>1. PICK i \in Kept(s, key, k) : key[s[i]] = key[s[j]]
        BY EarliestKept
      <4>2. s[i] \in Range(o)
        BY <1>2, <2>1
      <4>. QED  BY <3>2, <4>1, <4>2 DEF Range
    <3>. QED  BY <3>1, <3>2
  <2>3. new <=> ~(key[r] # NoKey /\ has)
    <3>1. (k + 1) - 1 = k
      OBVIOUS
    <3>. HIDE DEF has
    <3>. QED  BY <2>2, <3>1 DEF First
  <2>4. CASE ~new
    <3>1. t = o
      BY <2>3, <2>4 DEF Take
    <3>2. Fitting(s, key, limit, k + 1) = Fitting(s, key, limit, k) /\ D = C
      <4>1. Fitting(s, key, limit, k + 1) = Fitting(s, key, limit, k) \cup {} /\ D = C + 0
        BY <1>3, <1>5, <2>4
      <4>. HIDE DEF C, D
      <4>. QED  BY <1>3, <4>1
    <3>. HIDE DEF t, r, new, has
    <3>3. TableAfter(t, s, key, limit, k + 1)
      BY <1>2, <1>8, <3>1, <3>2 DEF TableAfter
    <3>. QED  BY <3>3 DEF t, r
  <2>5. CASE new
    <3>1. t = Append(o, r)
      BY <1>2, <1>8, <2>3, <2>5 DEF Take
    <3>2. Fitting(s, key, limit, k + 1) = Fitting(s, key, limit, k) \cup {k + 1} /\ D = C + 1
      <4>. HIDE DEF new, C, D
      <4>. QED  BY <1>3, <1>5, <2>1, <2>5
    <3>3. t \in Seq(IncomeRow) /\ Len(t) = Len(o) + 1
      <4>. HIDE DEF t, r
      <4>. QED  BY <1>1, <1>2, <3>1
    <3>4. /\ DOMAIN t = DOMAIN o \cup {Len(o) + 1}
          /\ \A i \in DOMAIN o : t[i] = o[i]
          /\ t[Len(o) + 1] = r
      <4>. HIDE DEF t, r
      <4>. QED  BY <1>1, <1>2, <3>1
    <3>5. Range(t) = Range(o) \cup {r}
      <4>. HIDE DEF t, r
      <4>. QED  BY <3>4 DEF Range
    <3>6. Range(t) = {s[i] : i \in Fitting(s, key, limit, k + 1)}
      <4>1. {s[i] : i \in Fitting(s, key, limit, k + 1)} = {s[i] : i \in Fitting(s, key, limit, k)} \cup {s[k + 1]}
        BY <3>2
      <4>. QED  BY <1>2, <3>5, <4>1
    <3>7. ASSUME NEW i \in DOMAIN t, NEW j \in DOMAIN t, i < j  PROVE t[i].end >= t[j].end
      <4>1. i \in DOMAIN o
        BY <1>2, <3>4, <3>7
      <4>2. CASE j \in DOMAIN o
        <5>. HIDE DEF t
        <5>. QED  BY <1>2, <3>4, <3>7, <4>1, <4>2
      <4>3. CASE j = Len(o) + 1
        <5>1. t[i] \in Range(o)
          BY <3>4, <4>1 DEF Range
        <5>2. PICK l \in 1 .. k : t[i] = s[l]
          BY <1>6, <5>1
        <5>3. l \in DOMAIN s /\ l < k + 1
          BY RowsAre
        <5>4. s[l].end >= s[k + 1].end
          BY <1>1, <5>3
        <5>. HIDE DEF t
        <5>. QED  BY <3>4, <4>3, <5>2, <5>4
      <4>. QED  BY <3>4, <4>2, <4>3
    <3>8. Len(t) <= limit /\ Len(t) = Cardinality(Kept(s, key, k + 1))
      <4>1. Len(o) = C /\ C \in Nat
        BY <1>2, <1>3, <1>8
      <4>. HIDE DEF t, C, r, new, has
      <4>2. Len(t) = D /\ D = C + 1 /\ Len(o) < limit
        BY <1>8, <3>2, <3>3, <4>1
      <4>. QED  BY <1>2, <4>1, <4>2
    <3>. HIDE DEF t, r, new, has
    <3>9. TableAfter(t, s, key, limit, k + 1)
      BY <3>3, <3>6, <3>7, <3>8 DEF TableAfter
    <3>. QED  BY <3>9 DEF t, r
  <2>. QED  BY <2>4, <2>5
<1>. QED  BY <1>2, <1>7, <1>8

\* A table of rows in order.
LEMMA TableOf ==
  ASSUME NEW s \in Seq(IncomeRow), NEW key, NEW limit \in Nat \ {0},
         \A i, j \in DOMAIN s : i < j => s[i].end >= s[j].end
  PROVE  TableAfter(Table(s, key, limit), s, key, limit, Len(s))
<1>1. Len(s) \in Nat
  OBVIOUS
<1>2. PICK f : Filling(f, s, Len(s), key, limit) /\ Table(s, key, limit) = f[Len(s)]
  BY <1>1, TableIs
<1>3. \A k \in 0 .. Len(s) : f[k] = IF k = 0 THEN << >> ELSE Take(f[k - 1], s[k], key, limit)
  BY <1>2 DEF Filling
<1>. DEFINE T == {k \in 0 .. Len(s) : ~TableAfter(f[k], s, key, limit, k)}
<1>4. T = {}
  <2>. SUFFICES ASSUME T # {}  PROVE FALSE
    OBVIOUS
  <2>0. T \in SUBSET Nat
    BY <1>1
  <2>1. PICK m \in T : \A l \in T : m <= l
    <3>. HIDE DEF T
    <3>. QED  BY <2>0, Least
  <2>2. m \in 0 .. Len(s) /\ ~TableAfter(f[m], s, key, limit, m)
    OBVIOUS
  <2>3. CASE m = 0
    <3>1. f[0] = << >>
      BY <1>1, <1>3
    <3>2. Fitting(s, key, limit, 0) = {} /\ Cardinality(Kept(s, key, 0)) = 0
      BY KeptIs DEF Fitting
    <3>3. TableAfter(<< >>, s, key, limit, 0)
      BY <3>2 DEF TableAfter, Range
    <3>. QED  BY <2>2, <2>3, <3>1, <3>3
  <2>4. CASE m # 0
    <3>. DEFINE k == m - 1
    <3>1. k \in Nat /\ k \in 0 .. Len(s) /\ k + 1 <= Len(s) /\ k + 1 = m /\ ~(m <= k)
      BY <1>1, <2>2, <2>4
    <3>2. TableAfter(f[k], s, key, limit, k)
      BY <2>1, <3>1
    <3>3. f[m] = Take(f[k], s[k + 1], key, limit)
      BY <1>3, <2>2, <2>4, <3>1
    <3>. HIDE DEF k
    <3>. QED  BY <2>2, <3>1, <3>2, <3>3, TakeKeeps
  <2>. QED  BY <2>3, <2>4
<1>. QED  BY <1>1, <1>2, <1>4

-----------------------------------------------------------------------------
\* The rows that count are those a table may draw on.
LEMMA OneFormatIs == ASSUME NEW rows  PROVE OneFormat(rows) = Usable(rows)
BY DEF OneFormat, Usable

\* The places of the current rows ahead of a place.
Places(rows, key, p, k) == {l \in DOMAIN p : l < k /\ p[l] \in Current(rows, key)}

\* The places of the rows that are kept are those of the current rows.
LEMMA CurrentPlaces ==
  ASSUME NEW rows \in Seq(IncomeRow), NEW key, NEW p, InOrder(rows, Usable(rows), p),
         NEW s, s = [k \in DOMAIN p |-> rows[p[k]]], NEW k \in DOMAIN p
  PROVE  /\ First(s, key, k) <=> p[k] \in Current(rows, key)
         /\ Kept(s, key, k - 1) = Places(rows, key, p, k)
<1>. DEFINE U == Usable(rows)
<1>1. U \subseteq DOMAIN rows
  BY DEF Usable
<1>. HIDE DEF U
<1>2. /\ Cardinality(U) \in Nat /\ DOMAIN p = 1 .. Cardinality(U)
      /\ \A i \in U : \E l \in DOMAIN p : p[l] = i
      /\ \A l, m \in DOMAIN p : Before(rows, p[l], p[m]) <=> l < m
  <2>1. WholeOrder(rows, U, p)
    BY <1>1, OrderIsWhole DEF U
  <2>. QED  BY <2>1 DEF WholeOrder
<1>3. \A l \in DOMAIN p : p[l] \in U /\ s[l] = rows[p[l]]
  BY DEF InOrder, U
<1>4. ASSUME NEW l \in DOMAIN p
      PROVE  First(s, key, l) <=> p[l] \in Current(rows, key)
  <2>1. p[l] \in Current(rows, key) <=>
          ~\E i \in U : key[rows[i]] # NoKey /\ key[rows[i]] = key[rows[p[l]]] /\ Before(rows, i, p[l])
    BY <1>3 DEF Current, Same, U
  <2>2. First(s, key, l) <=> ~\E m \in 1 .. l - 1 : key[s[l]] # NoKey /\ key[s[m]] = key[s[l]]
    BY DEF First
  <2>3. 1 .. l - 1 = {m \in DOMAIN p : m < l}
    BY <1>2
  <2>4. ASSUME NEW m \in 1 .. l - 1, key[s[l]] # NoKey, key[s[m]] = key[s[l]]
        PROVE  \E i \in U : key[rows[i]] # NoKey /\ key[rows[i]] = key[rows[p[l]]] /\ Before(rows, i, p[l])
    <3>1. m \in DOMAIN p /\ m < l
      BY <2>3
    <3>2. p[m] \in U /\ Before(rows, p[m], p[l]) /\ key[rows[p[m]]] = key[rows[p[l]]]
          /\ key[rows[p[m]]] # NoKey
      BY <1>2, <1>3, <2>4, <3>1
    <3>. QED  BY <3>2
  <2>5. ASSUME NEW i \in U, key[rows[i]] # NoKey, key[rows[i]] = key[rows[p[l]]], Before(rows, i, p[l])
        PROVE  \E m \in 1 .. l - 1 : key[s[l]] # NoKey /\ key[s[m]] = key[s[l]]
    <3>1. PICK m \in DOMAIN p : p[m] = i
      BY <1>2
    <3>2. m < l
      BY <1>2, <2>5, <3>1
    <3>3. m \in 1 .. l - 1
      BY <2>3, <3>1, <3>2
    <3>4. key[s[l]] # NoKey /\ key[s[m]] = key[s[l]]
      BY <1>3, <2>5, <3>1
    <3>. QED  BY <3>3, <3>4
  <2>. QED  BY <2>1, <2>2, <2>4, <2>5
<1>5. 1 .. k - 1 = {l \in DOMAIN p : l < k}
  BY <1>2
<1>. QED  BY <1>4, <1>5 DEF Kept, Places

\* There are as many places as rows.
LEMMA AsMany ==
  ASSUME NEW rows \in Seq(IncomeRow), NEW some \in SUBSET DOMAIN rows, NEW p, InOrder(rows, some, p),
         NEW places \in SUBSET DOMAIN p
  PROVE  Cardinality(places) = Cardinality({p[l] : l \in places})
<1>. DEFINE img == {p[l] : l \in places}
            f == [l \in places |-> p[l]]
<1>1. DOMAIN p = 1 .. Cardinality(some) /\ Cardinality(some) \in Nat
      /\ \A k, l \in DOMAIN p : k # l => p[k] # p[l]
  BY OrderIsWhole DEF WholeOrder
<1>2. IsFiniteSet(places)
  <2>1. IsFiniteSet(DOMAIN p)
    BY <1>1, FS_Interval
  <2>. QED  BY <2>1, FS_Subset
<1>3. f \in [places -> img] /\ \A i \in img : \E l \in places : f[l] = i
  OBVIOUS
<1>4. \A k, l \in places : k # l => f[k] # f[l]
  BY <1>1
<1>. HIDE DEF img, f
<1>5. f \in Surjection(places, img) /\ f \in Injection(places, img)
  BY <1>3, <1>4 DEF Surjection, Injection, IsInjective
<1>6. Cardinality(img) = Cardinality(places)
  BY <1>2, <1>5, FS_Surjection
<1>. QED  BY <1>6 DEF img

\* A table holds the newest of the current rows, as many as fit, newest first.
LEMMA TableShows ==
  ASSUME NEW rows \in Seq(IncomeRow), NEW key, NEW limit \in Nat \ {0}
  PROVE  LET t == Table(NewestFirst(rows, OneFormat(rows)), key, limit) IN
         /\ Range(t) = Shown(rows, key, limit)
         /\ \A i, j \in DOMAIN t : i < j => t[i].end >= t[j].end
<1>. DEFINE U == Usable(rows)  C == Current(rows, key)
            t == Table(NewestFirst(rows, OneFormat(rows)), key, limit)
<1>1. U \subseteq DOMAIN rows /\ C \subseteq U
  BY DEF Usable, Current
<1>2. PICK p : InOrder(rows, U, p) /\ NewestFirst(rows, U) = [k \in DOMAIN p |-> rows[p[k]]]
  BY <1>1, NewestFirstIs
<1>. DEFINE s == [k \in DOMAIN p |-> rows[p[k]]]
<1>3. t = Table(s, key, limit)
  BY <1>2, OneFormatIs
<1>4. /\ Cardinality(U) \in Nat /\ DOMAIN p = 1 .. Cardinality(U)
      /\ \A i \in U : \E k \in DOMAIN p : p[k] = i
      /\ \A k, l \in DOMAIN p : Before(rows, p[k], p[l]) <=> k < l
      /\ \A k \in DOMAIN p : p[k] \in U
  <2>. HIDE DEF U
  <2>1. WholeOrder(rows, U, p)
    BY <1>1, <1>2, OrderIsWhole
  <2>. QED  BY <2>1 DEF WholeOrder
<1>5. s \in Seq(IncomeRow) /\ Len(s) = Cardinality(U) /\ DOMAIN s = DOMAIN p
  <2>1. \A k \in DOMAIN p : rows[p[k]] \in IncomeRow
    BY <1>1, <1>4, RowsAre
  <2>. QED  BY <1>4, <2>1
<1>6. s = [k \in DOMAIN p |-> rows[p[k]]] /\ \A k \in DOMAIN p : s[k] = rows[p[k]]
  OBVIOUS
<1>. HIDE DEF U, C, s
<1>7. \A k, l \in DOMAIN s : k < l => s[k].end >= s[l].end
  <2>. SUFFICES ASSUME NEW k \in DOMAIN p, NEW l \in DOMAIN p, k < l  PROVE s[k].end >= s[l].end
    BY <1>5
  <2>1. p[k] \in DOMAIN rows /\ p[l] \in DOMAIN rows /\ Before(rows, p[k], p[l])
    BY <1>1, <1>4
  <2>. QED  BY <1>6, <2>1, BeforeIs
<1>8. TableAfter(t, s, key, limit, Cardinality(U))
  BY <1>3, <1>5, <1>7, TableOf
<1>9. ASSUME NEW k \in DOMAIN p
      PROVE  /\ k \in Fitting(s, key, limit, Cardinality(U)) <=>
                    p[k] \in C /\ Cardinality({i \in C : Before(rows, i, p[k])}) < limit
  <2>. DEFINE places == {l \in DOMAIN p : l < k /\ p[l] \in C}
  <2>1. First(s, key, k) <=> p[k] \in C
    BY <1>2, <1>6, CurrentPlaces DEF U, C
  <2>2. Kept(s, key, k - 1) = places
    <3>1. Kept(s, key, k - 1) = Places(rows, key, p, k)
      BY <1>2, <1>6, CurrentPlaces DEF U
    <3>. QED  BY <3>1 DEF C, Places
  <2>3. {p[l] : l \in places} = {i \in C : Before(rows, i, p[k])}
    BY <1>1, <1>4
  <2>4. Cardinality(places) = Cardinality({p[l] : l \in places})
    <3>1. places \in SUBSET DOMAIN p
      OBVIOUS
    <3>. HIDE DEF places
    <3>. QED  BY <1>1, <1>2, <3>1, AsMany
  <2>5. Cardinality(Kept(s, key, k - 1)) = Cardinality({i \in C : Before(rows, i, p[k])})
    BY <2>2, <2>3, <2>4
  <2>. QED  BY <1>4, <2>1, <2>5 DEF Fitting, Kept
<1>10. {s[k] : k \in Fitting(s, key, limit, Cardinality(U))} = Shown(rows, key, limit)
  <2>. DEFINE F == Fitting(s, key, limit, Cardinality(U))
              top == {i \in C : Cardinality({j \in C : Before(rows, j, i)}) < limit}
  <2>1. F \subseteq DOMAIN p
    BY <1>4 DEF Fitting, Kept
  <2>2. Shown(rows, key, limit) = {rows[i] : i \in top}
    BY DEF Shown, C
  <2>3. \A k \in F : p[k] \in top /\ s[k] = rows[p[k]]
    BY <1>6, <1>9, <2>1
  <2>4. \A i \in top : \E k \in F : p[k] = i
    BY <1>1, <1>4, <1>9
  <2>. HIDE DEF F, top
  <2>. QED  BY <2>2, <2>3, <2>4 DEF F
<1>. HIDE DEF t
<1>11. /\ Range(t) = Shown(rows, key, limit)
       /\ \A i, j \in DOMAIN t : i < j => t[i].end >= t[j].end
  BY <1>8, <1>10 DEF TableAfter
<1>. QED  BY <1>11 DEF t

-----------------------------------------------------------------------------
\* The lists the tables are made of are lists the plugin may answer.
TablesInv ==
    /\ stage \in {"quarterly", "annual", "200", "503"}
    /\ stage \in {"annual", "200"} => quarterly \in Quarterly
    /\ stage = "200" => annual \in Annual

LEMMA TablesAlways == TablesSpec => []TablesInv
<1>1. TablesInit => TablesInv
  BY DEF TablesInit, TablesInv
<1>2. TablesInv /\ [TablesNext]_tablesVars => TablesInv'
  <2>. SUFFICES ASSUME TablesInv, [TablesNext]_tablesVars  PROVE TablesInv'
    OBVIOUS
  <2>1. CASE AskQuarterly
    BY <2>1 DEF AskQuarterly, TablesInv
  <2>2. CASE AskAnnual
    BY <2>2 DEF AskAnnual, TablesInv
  <2>3. CASE AskFails \/ LeaveTables
    BY <2>3 DEF AskFails, LeaveTables, TablesInv
  <2>4. CASE UNCHANGED tablesVars
    BY <2>4 DEF tablesVars, TablesInv
  <2>. QED  BY <2>1, <2>2, <2>3, <2>4 DEF TablesNext
<1>. QED  BY <1>1, <1>2, PTL DEF TablesSpec

\* The tables of the Stock Inspector: the newest statement of each period, of
\* one vendor format, newest first, up to the limit (income_rows_for_inspector).
THEOREM TablesNewest == TablesSpec => []NewestOfEachPeriod
<1>1. TablesInv => NewestOfEachPeriod
  <2>. SUFFICES ASSUME TablesInv, stage = "200"
                PROVE  /\ Range(QuarterlyTable) = Shown(quarterly, QuarterKeys, Quarters)
                       /\ Range(AnnualTable) = Shown(annual, YearKeys, Years)
                       /\ \A t \in {QuarterlyTable, AnnualTable} :
                            \A i, j \in DOMAIN t : i < j => t[i].end >= t[j].end
    BY DEF NewestOfEachPeriod
  <2>1. quarterly \in Seq(IncomeRow) /\ annual \in Seq(IncomeRow)
    BY StatementsAssumption DEF TablesInv
  <2>2. /\ Range(QuarterlyTable) = Shown(quarterly, QuarterKeys, Quarters)
        /\ \A i, j \in DOMAIN QuarterlyTable : i < j => QuarterlyTable[i].end >= QuarterlyTable[j].end
    BY <2>1, TableShows, StatementsAssumption DEF QuarterlyTable
  <2>3. /\ Range(AnnualTable) = Shown(annual, YearKeys, Years)
        /\ \A i, j \in DOMAIN AnnualTable : i < j => AnnualTable[i].end >= AnnualTable[j].end
    BY <2>1, TableShows, StatementsAssumption DEF AnnualTable
  <2>. QED  BY <2>2, <2>3
<1>. QED  BY <1>1, TablesAlways, PTL

\* The end of a fiscal year is the date of an annual row of it.
LEMMA YearEndsAre ==
  ASSUME NEW rows \in Seq(IncomeRow), NEW y \in DOMAIN YearEnds(rows)
  PROVE  \E s \in Range(rows) : s.year = y /\ y # None /\ s.dated /\ YearEnds(rows)[y] = s.end
<1>. DEFINE of == {i \in Whole(rows) : rows[i].year = y}
            T == {Len(rows) - i : i \in of}
            last == CHOOSE i \in of : \A j \in of : j <= i
<1>1. y \in {rows[i].year : i \in Whole(rows)} /\ YearEnds(rows)[y] = rows[last].end
  BY DEF YearEnds
<1>2. of # {} /\ of \subseteq DOMAIN rows
  BY <1>1 DEF Whole
<1>3. Len(rows) \in Nat /\ DOMAIN rows = 1 .. Len(rows)
  BY RowsAre
<1>4. T \in SUBSET Nat /\ T # {}
  BY <1>2, <1>3
<1>5. PICK m \in T : \A n \in T : m <= n
  <2>. HIDE DEF T
  <2>. QED  BY <1>4, Least
<1>6. PICK i \in of : m = Len(rows) - i
  OBVIOUS
<1>7. \A j \in of : j <= i
  <2>. SUFFICES ASSUME NEW j \in of  PROVE j <= i
    OBVIOUS
  <2>1. Len(rows) - j \in T
    OBVIOUS
  <2>2. Len(rows) - i <= Len(rows) - j
    <3>. HIDE DEF T, of
    <3>. QED  BY <1>5, <1>6, <2>1
  <2>. QED  BY <1>2, <1>3, <2>2
<1>8. last \in of
  <2>. HIDE DEF of
  <2>. QED  BY <1>7
<1>. QED  BY <1>1, <1>8 DEF Range, Whole

\* A distance within forty days of so many quarters of 91 days is that many.
LEMMA QuartersCounted ==
  ASSUME NEW quarter \in 1 .. 4, NEW days \in Int, days - 91 * (4 - quarter) \in -40 .. 40
  PROVE  InQuarters(days) = 4 - quarter
<1>1. CASE quarter = 1
  BY <1>1 DEF InQuarters
<1>2. CASE quarter = 2
  BY <1>2 DEF InQuarters
<1>3. CASE quarter = 3
  BY <1>3 DEF InQuarters
<1>4. CASE quarter = 4
  BY <1>4 DEF InQuarters
<1>. QED  BY <1>1, <1>2, <1>3, <1>4

LEMMA DerivedRight ==
  ASSUME NEW rows \in Quarterly, NEW ends \in Annual, NEW r \in Range(rows)
  PROVE  Quarter(r, YearEnds(ends)) \in {None, r.quarter}
<1>. DEFINE E == YearEnds(ends)  end == YearEnd(r.year, E)
<1>1. rows \in Seq(IncomeRow) /\ ends \in Seq(IncomeRow)
  BY StatementsAssumption
<1>2. r \in IncomeRow /\ \A s \in Range(ends) : s \in IncomeRow
  BY <1>1, RowsAre DEF Range
<1>3. /\ r.carried \in {None, 0, r.quarter}
      /\ \A s \in Range(ends) :
            (r.dated /\ s.dated /\ None \notin {r.year, s.year} /\ s.year - r.year \in -1 .. 1) =>
            s.end - r.end - 365 * (s.year - r.year) - 91 * (4 - r.quarter) \in -40 .. 40
  BY DatesAssumption DEF Distant
<1>4. r.year \in {None} \cup Int /\ r.end \in Int /\ r.quarter \in 1 .. 4
  BY <1>2 DEF IncomeRow
<1>5. \A y \in DOMAIN E : \E s \in Range(ends) :
          s.year = y /\ y # None /\ s.dated /\ E[y] = s.end /\ s.end \in Int
  <2>. SUFFICES ASSUME NEW y \in DOMAIN E
                PROVE  \E s \in Range(ends) :
                           s.year = y /\ y # None /\ s.dated /\ E[y] = s.end /\ s.end \in Int
    OBVIOUS
  <2>1. PICK s \in Range(ends) : s.year = y /\ y # None /\ s.dated /\ E[y] = s.end
    BY <1>1, YearEndsAre
  <2>. QED  BY <1>2, <2>1 DEF IncomeRow
<1>. HIDE DEF E
<1>6. ASSUME r.year # None, r.dated, end # None
      PROVE  end \in Int /\ end - r.end - 91 * (4 - r.quarter) \in -40 .. 40
  <2>1. CASE r.year \in DOMAIN E
    <3>1. PICK s \in Range(ends) : s.year = r.year /\ s.year # None /\ s.dated /\ E[r.year] = s.end /\ s.end \in Int
      BY <1>5, <2>1
    <3>2. end = s.end
      BY <2>1, <3>1 DEF YearEnd
    <3>. HIDE DEF end
    <3>. QED  BY <1>3, <1>4, <1>6, <3>1, <3>2
  <2>2. CASE r.year \notin DOMAIN E /\ r.year - 1 \in DOMAIN E
    <3>1. PICK s \in Range(ends) : s.year = r.year - 1 /\ s.year # None /\ s.dated /\ E[r.year - 1] = s.end /\ s.end \in Int
      BY <1>5, <2>2
    <3>2. end = s.end + 365
      BY <2>2, <3>1 DEF YearEnd
    <3>. HIDE DEF end
    <3>. QED  BY <1>3, <1>4, <1>6, <3>1, <3>2
  <2>3. CASE r.year \notin DOMAIN E /\ r.year - 1 \notin DOMAIN E /\ r.year + 1 \in DOMAIN E
    <3>1. PICK s \in Range(ends) : s.year = r.year + 1 /\ s.year # None /\ s.dated /\ E[r.year + 1] = s.end /\ s.end \in Int
      BY <1>5, <2>3
    <3>2. end = s.end - 365
      BY <2>3, <3>1 DEF YearEnd
    <3>. HIDE DEF end
    <3>. QED  BY <1>3, <1>4, <1>6, <3>1, <3>2
  <2>. QED  BY <1>6, <2>1, <2>2, <2>3 DEF YearEnd
<1>7. Derived(r, E) \in {None, r.quarter}
  <2>1. CASE r.year = None \/ ~r.dated \/ end = None
    BY <2>1 DEF Derived
  <2>2. CASE r.year # None /\ r.dated /\ end # None
    <3>1. InQuarters(end - r.end) = 4 - r.quarter
      <4>1. end - r.end \in Int /\ (end - r.end) - 91 * (4 - r.quarter) \in -40 .. 40
        BY <1>4, <1>6, <2>2
      <4>. HIDE DEF end
      <4>. QED  BY <1>4, <4>1, QuartersCounted
    <3>2. 4 - InQuarters(end - r.end) = r.quarter
      <4>. HIDE DEF end
      <4>. QED  BY <1>4, <3>1
    <3>. QED  BY <1>4, <3>2 DEF Derived
  <2>. QED  BY <2>1, <2>2
<1>. QED  BY <1>3, <1>7 DEF Quarter, E

\* A quarter that is shown is the one the statement is of, however it was found,
\* wherever the dates are within forty days of where they should be.
THEOREM RightQuarters == TablesSpec => []QuartersRight
<1>1. TablesInv => QuartersRight
  <2>. SUFFICES ASSUME TablesInv, stage = "200", NEW i \in DOMAIN QuarterlyTable
                PROVE  Quarter(QuarterlyTable[i], YearEnds(annual)) \in {None, QuarterlyTable[i].quarter}
    BY DEF QuartersRight
  <2>1. quarterly \in Quarterly /\ annual \in Annual /\ quarterly \in Seq(IncomeRow)
    BY StatementsAssumption DEF TablesInv
  <2>2. Range(QuarterlyTable) = Shown(quarterly, QuarterKeys, Quarters)
    BY <2>1, TableShows, StatementsAssumption DEF QuarterlyTable
  <2>3. QuarterlyTable[i] \in Range(QuarterlyTable)
    BY DEF Range
  <2>4. QuarterlyTable[i] \in Range(quarterly)
    BY <2>2, <2>3 DEF Shown, Current, Usable, Range
  <2>. QED  BY <2>1, <2>4, DerivedRight
<1>. QED  BY <1>1, TablesAlways, PTL

=============================================================================
