---------------------------- MODULE ResearchApp ----------------------------
(***************************************************************************)
(* The research application: its routes, the reads of other services each  *)
(* of them makes and what it does with one that fails, the shared cache of *)
(* option snapshots, and the screener, which reads for one name after      *)
(* another.  A read is answered differently each time it is made, so what  *)
(* the other services hold is not a variable.                              *)
(***************************************************************************)
EXTENDS Admission, FiniteSets, Sequences

CONSTANTS
    Requests,
    Asks,           \* bound: the routes each request may ask for
    Ladders, NoLadder,  \* the sets of contracts a snapshots page is asked for
    CacheTTL,       \* SNAPSHOT_CACHE_TTL_SEC, in ticks
    Names,          \* how many names a scan is asked for
    Batches         \* requests of _OPTION_CHAIN_BATCH_SIZE keys that a name's window takes

Readers ==
    {"summary", "criteria", "distribution", "conditions", "raw", "pcr", "statements",
     "overview", "tierStats", "tierFilter", "grades", "dates", "greeks", "liquidity",
     "relative", "feedback"}
Routes == Readers \cup {"snapshots", "screener"}
Posts == {"screener", "feedback"}
Method(q) == IF q \in Posts THEN "POST" ELSE "GET"

ASSUME SizesAssumption ==
    /\ NoLadder \notin Ladders
    /\ Asks \in [Requests -> SUBSET Routes]
    /\ CacheTTL \in Nat \ {0} /\ Names \in Nat \ {0} /\ Batches \in Nat \ {0}

VARIABLES
    pc, route,
    caller,     \* what the layers look at: the bearer token, an old query name sent
    status,     \* of the answer
    step,       \* readers: reads made; screener: batches of the chain read
    heard,      \* history: what the services said, each read with the service asked
    shown,      \* what the answer holds: rows, or a blank or zeros in their place
    ladder,     \* snapshots: the contracts asked for
    page,       \* snapshots: the page built or found
    name,       \* screener: how many names have been begun
    found,      \* screener: the outcome for the present name, once it has one
    cache,      \* Redis: for each key a page and the ticks it stays
    calm        \* history: ticks since a blank page was last stored, to CacheTTL

request == <<route, caller, status>>
reading == <<step, heard, shown>>
snapshot == <<ladder, page>>
scan == <<name, found>>
redis == <<cache, calm>>
vars == <<pc, request, reading, snapshot, scan, redis>>

-----------------------------------------------------------------------------
Phase == {"idle", "asked", "read", "look", "fetch", "store", "exps", "chain", "iv", "next",
          "done"}
Code == {0, 200, 400, 403, 404, 422, 503}
Service == {"plugin", "research", "optional", "db"}
Said == {"rows", "none", "refused", "missing", "down"}
Outcome == {"open", "group", "unmeasured", "unread", "empty", "outage", "window", "price",
            "filters"}

Part == {"rows", "blank", "zero"}

NoCaller == [token |-> NoToken, old |-> FALSE]
NoPage == [of |-> NoLadder, blank |-> FALSE]
Pages == [of : Ladders, blank : BOOLEAN]
Nothing == [page |-> NoPage, left |-> 0]

TypeOK ==
    /\ pc \in [Requests -> Phase] /\ route \in [Requests -> Routes]
    /\ caller \in [Requests -> [token : Tokens, old : BOOLEAN]]
    /\ status \in [Requests -> Code]
    /\ step \in [Requests -> Nat] /\ heard \in [Requests -> SUBSET (Service \X Said)]
    /\ shown \in [Requests -> SUBSET Part]
    /\ ladder \in [Requests -> Ladders \cup {NoLadder}]
    /\ page \in [Requests -> Pages \cup {NoPage}]
    /\ name \in [Requests -> 0 .. Names] /\ found \in [Requests -> Outcome]
    /\ cache \in [Ladders -> [page : Pages \cup {NoPage}, left : 0 .. CacheTTL]]
    /\ calm \in 0 .. CacheTTL

Init ==
    /\ pc = [r \in Requests |-> "idle"] /\ route = [r \in Requests |-> "summary"]
    /\ caller = [r \in Requests |-> NoCaller] /\ status = [r \in Requests |-> 0]
    /\ step = [r \in Requests |-> 0] /\ heard = [r \in Requests |-> {}]
    /\ shown = [r \in Requests |-> {}]
    /\ ladder = [r \in Requests |-> NoLadder] /\ page = [r \in Requests |-> NoPage]
    /\ name = [r \in Requests |-> 0] /\ found = [r \in Requests |-> "open"]
    /\ cache = [l \in Ladders |-> Nothing] /\ calm = CacheTTL

Answer(r, code) == pc' = [pc EXCEPT ![r] = "done"] /\ status' = [status EXCEPT ![r] = code]
Go(r, to) == pc' = [pc EXCEPT ![r] = to] /\ UNCHANGED status

-----------------------------------------------------------------------------
(* Admission. *)

Arrive(r) ==
    /\ pc[r] = "idle"
    /\ \E q \in Asks[r] : route' = [route EXCEPT ![r] = q]
    /\ \E t \in Tokens, o \in BOOLEAN : caller' = [caller EXCEPT ![r] = [token |-> t, old |-> o]]
    /\ Go(r, "asked")
    /\ UNCHANGED <<reading, snapshot, scan, redis>>

\* The answer is sent, and the request gone with all it held.
Leave(r) ==
    /\ pc[r] = "done"
    /\ pc' = [pc EXCEPT ![r] = "idle"] /\ status' = [status EXCEPT ![r] = 0]
    /\ route' = [route EXCEPT ![r] = "summary"] /\ step' = [step EXCEPT ![r] = 0]
    /\ heard' = [heard EXCEPT ![r] = {}] /\ shown' = [shown EXCEPT ![r] = {}]
    /\ ladder' = [ladder EXCEPT ![r] = NoLadder] /\ page' = [page EXCEPT ![r] = NoPage]
    /\ name' = [name EXCEPT ![r] = 0] /\ found' = [found EXCEPT ![r] = "open"]
    /\ UNCHANGED <<caller, redis>>

Entry(q) == CASE q = "snapshots" -> "look" [] q = "screener" -> "exps" [] OTHER -> "read"

\* RetiredQueryNames, then WriteGuard, then the route.
Layers(r) ==
    /\ pc[r] = "asked"
    /\ caller' = [caller EXCEPT ![r] = NoCaller]
    /\ LET code == Admit(Method(route[r]), route[r], caller[r].token, caller[r].old) IN
       IF code = 200 THEN Go(r, Entry(route[r])) ELSE Answer(r, code)
    /\ name' = [name EXCEPT ![r] = IF route[r] = "screener" THEN 1 ELSE 0]
    /\ UNCHANGED <<route, reading, snapshot, found, redis>>

\* An argument the route or its schema does not take (400, or FastAPI's 422),
\* before anything is read.
BadArguments(r) ==
    /\ pc[r] \in {"read", "look", "exps"} /\ heard[r] = {} /\ name[r] <= 1
    /\ route[r] \notin {"summary", "criteria", "overview"}
    /\ Answer(r, 400)
    /\ UNCHANGED <<route, caller, reading, snapshot, scan, redis>>

-----------------------------------------------------------------------------
(* The routes that read and answer: the reads of each, in order. *)

\* A read: whom it asks, and what the route does when it fails, when there are
\* no rows, and when the service answers ok false.  "error" is a 503, "blank"
\* leaves its part of the answer blank, "zero" shows zeros there, "end" answers
\* now that nothing is found.
OnRead(get, fails, none, refused) ==
    [get |-> get, fails |-> fails, none |-> none, refused |-> refused]
Of(get) == OnRead(get, "error", "blank", "blank")
Quietly(get) == OnRead(get, "blank", "blank", "blank")
OrEnd(get) == OnRead(get, "error", "end", "end")
OkOnly(get) == OnRead(get, "error", "blank", "error")

Summary == <<OkOnly("plugin")>>
Criteria == <<Of("research")>>
Distribution == <<Of("research")>>
\* Mutant: an evaluation that cannot be read is one that is not there.
ConditionsSwallowed == <<OnRead("optional", "end", "end", "end")>>
Conditions == <<OrEnd("optional")>>
FundamentalRaw == <<Of("plugin"), Of("plugin"), Quietly("optional")>>
PcrAggregate(absent) == OnRead("optional", absent, absent, absent)
\* Open interest, then volume.  If the first fails, the days of the second show
\* zero contracts open; if the second fails, those of the first show no volume
\* (a day that only one of two answered lacks shows zero for it); if both fail
\* there are no days, which is told here as the two are.
PcrTrend(rest) == <<PcrAggregate("zero"), PcrAggregate("blank"), rest>>
OptionPcr == PcrTrend(Quietly("plugin"))
Statements == <<Of("plugin"), Of("plugin"), Of("plugin"), Of("plugin"), Of("plugin")>>
TickerDetail == OnRead("plugin", "end", "end", "end")
TickerOverview == <<TickerDetail, Quietly("db")>>
Tiers == <<Of("research")>>     \* the statistics and the filter
Grades == <<Of("research")>>
AvailableDates == <<OkOnly("plugin")>>
Greeks == <<OrEnd("plugin"), OrEnd("plugin")>>
Liquidity == <<Quietly("plugin")>>
RelativeValue == <<Quietly("plugin")>>

\* The handlers of the feedback routes are FeedbackStore's.
Plan(q) ==
    CASE q = "summary" -> Summary
      [] q = "criteria" -> Criteria
      [] q = "distribution" -> Distribution
      [] q = "conditions" -> Conditions
      [] q = "raw" -> FundamentalRaw
      [] q = "pcr" -> OptionPcr
      [] q = "statements" -> Statements
      [] q = "overview" -> TickerOverview
      [] q \in {"tierStats", "tierFilter"} -> Tiers
      [] q = "grades" -> Grades
      [] q = "dates" -> AvailableDates
      [] q = "greeks" -> Greeks
      [] q = "liquidity" -> Liquidity
      [] q = "relative" -> RelativeValue
      [] OTHER -> << >>

\* What each service may answer.  The plugin's ok false comes with status 200.
Says(get) ==
    CASE get = "plugin" -> Said
      [] get = "db" -> {"rows", "none", "down"}
      [] OTHER -> {"rows", "none", "missing", "down"}

\* _get_json, _proxy_get and _research_get: a status that is not 200 raises, but
\* for the 404 of a Research route asked with missing_is_none.
Failed(get, said) == said = "down" \/ (said = "missing" /\ get # "optional")

Comes(read, said) ==
    CASE said = "rows" -> "rows"
      [] said = "refused" -> read.refused
      [] Failed(read.get, said) -> read.fails
      [] OTHER -> read.none

Read(r) ==
    LET read == Plan(route[r])[step[r] + 1] IN
    /\ pc[r] = "read" /\ step[r] < Len(Plan(route[r]))
    /\ \E said \in Says(read.get) :
        LET comes == Comes(read, said) IN
        /\ heard' = [heard EXCEPT ![r] = @ \cup {<<read.get, said>>}]
        /\ IF comes = "error" THEN UNCHANGED shown
           ELSE shown' = [shown EXCEPT ![r] = @ \cup {IF comes = "end" THEN "blank" ELSE comes}]
        /\ CASE comes = "error" -> Answer(r, 503)
             [] comes = "end" -> Answer(r, 200)
             [] OTHER -> Go(r, "read")
    /\ step' = [step EXCEPT ![r] = @ + 1]
    /\ UNCHANGED <<route, caller, snapshot, scan, redis>>

Respond(r) ==
    /\ pc[r] = "read" /\ step[r] = Len(Plan(route[r]))
    /\ Answer(r, 200)
    /\ UNCHANGED <<route, caller, reading, snapshot, scan, redis>>

\* A tier filter that picks no signal and no score answers nobody, unasked.
PickNothing(r) ==
    /\ pc[r] = "read" /\ route[r] = "tierFilter" /\ step[r] = 0
    /\ shown' = [shown EXCEPT ![r] = {"blank"}]
    /\ Answer(r, 200)
    /\ UNCHANGED <<route, caller, step, heard, snapshot, scan, redis>>

-----------------------------------------------------------------------------
(* Option snapshots. *)

\* Mutant: the key has the name and the expiry, and not the contracts.
NameAndExpiry(l) == CHOOSE k \in Ladders : TRUE

\* The fingerprint of the contract keys.
Key(l) == l

\* Mutant: a page that is found stays as long as a new one.
RenewedOnHit(k) == [cache EXCEPT ![k].left = CacheTTL]

\* A page that is found is left as it is.
OnHit(k) == cache

\* No strikes were given and there is no price to lay a ladder around.
NoStrikes(r) ==
    /\ pc[r] = "look"
    /\ Answer(r, 404)
    /\ UNCHANGED <<route, caller, reading, snapshot, scan, redis>>

Look(r) ==
    /\ pc[r] = "look"
    /\ \E l \in Ladders :
        /\ ladder' = [ladder EXCEPT ![r] = l]
        /\ \/ /\ cache[Key(l)].left > 0         \* HIT
              /\ page' = [page EXCEPT ![r] = cache[Key(l)].page]
              /\ cache' = OnHit(Key(l))
              /\ Answer(r, 200)
           \/ /\ Go(r, "fetch") /\ UNCHANGED <<page, cache>>    \* not there, or Redis failed
    /\ UNCHANGED <<route, caller, reading, scan, calm>>

\* get_option_snapshots_latest without raise_errors: a read that fails is one
\* without rows.
Fetch(r) ==
    /\ pc[r] = "fetch"
    /\ \E said \in Said :
        /\ heard' = [heard EXCEPT ![r] = {<<"plugin", said>>}]
        /\ page' = [page EXCEPT ![r] = [of |-> ladder[r], blank |-> said # "rows"]]
    /\ Go(r, "store")
    /\ UNCHANGED <<route, caller, step, shown, ladder, scan, redis>>

\* SETEX, whatever the page holds; a failure of Redis is passed over.
Store(r) ==
    /\ pc[r] = "store"
    /\ \/ /\ cache' = [cache EXCEPT ![Key(ladder[r])] = [page |-> page[r], left |-> CacheTTL]]
          /\ calm' = IF page[r].blank THEN 0 ELSE calm
       \/ UNCHANGED redis
    /\ Answer(r, 200)
    /\ UNCHANGED <<route, caller, reading, snapshot, scan>>

Tick ==
    /\ cache' = [k \in Ladders |-> IF cache[k].left <= 1 THEN Nothing
                                   ELSE [cache[k] EXCEPT !.left = @ - 1]]
    /\ calm' = IF calm < CacheTTL THEN calm + 1 ELSE calm
    /\ UNCHANGED <<pc, request, reading, snapshot, scan>>

-----------------------------------------------------------------------------
(* The screener: post_screener calls _scan_csp for each name in turn. *)

EndScan(r, outcome) == Go(r, "next") /\ found' = [found EXCEPT ![r] = outcome]
GoOn(r, to) == Go(r, to) /\ UNCHANGED found
Hear(r, get, said) == heard' = [heard EXCEPT ![r] = @ \cup {<<get, said>>}]

\* Expirations with raise_errors, the window of days to expiry, the price.
Expirations(r) ==
    /\ pc[r] = "exps"
    /\ \E said \in Said :
        /\ Hear(r, "plugin", said)
        /\ \/ Failed("plugin", said) /\ EndScan(r, "outage")
           \/ said \in {"none", "refused"} /\ EndScan(r, "empty")
           \/ said = "rows" /\ \E outcome \in {"window", "price"} : EndScan(r, outcome)
           \/ said = "rows" /\ GoOn(r, "chain")
    /\ UNCHANGED <<route, caller, step, shown, snapshot, name, redis>>

\* Mutant: only the first batch of the keys is asked for.
FirstBatchOnly == 1

\* max_keys None: every key of the window is asked for.
BatchesAsked == Batches

\* Mutant: a batch that fails is one without rows.
RaisesNever(said) == FALSE

\* get_option_snapshots_latest with raise_errors: the failure of one batch is
\* the failure of the whole read.
Raises(said) == Failed("plugin", said)

\* One batch of the chain; after the last, the rows of all of them.
Chain(r) ==
    /\ pc[r] = "chain"
    /\ \E said \in Said :
        /\ Hear(r, "plugin", said)
        /\ IF Raises(said) THEN EndScan(r, "outage")
           ELSE IF step[r] + 1 < BatchesAsked THEN GoOn(r, "chain")
           ELSE IF said = "rows" \/ shown[r] # {} THEN GoOn(r, "iv")
           ELSE EndScan(r, "empty")
        /\ shown' = IF said = "rows" THEN [shown EXCEPT ![r] = {"rows"}] ELSE shown
    /\ step' = [step EXCEPT ![r] = @ + 1]
    /\ UNCHANGED <<route, caller, snapshot, name, redis>>

\* _read_iv_percentile: the outcomes of a name with contracts.  A reading that is
\* not there, too old or withheld leaves the percentile unmeasured.
Noted(said) ==
    IF Failed("optional", said) THEN {"unread"}
    ELSE IF said = "rows" THEN {"group", "unmeasured"} ELSE {"unmeasured"}

\* The filters keep some contracts of a name or none, with a percentile or without.
Filtered(outcomes) == outcomes \cup {"filters"}

IvPercentile(r) ==
    /\ pc[r] = "iv"
    /\ \E said \in Says("optional") :
        Hear(r, "optional", said) /\ \E outcome \in Filtered(Noted(said)) : EndScan(r, outcome)
    /\ UNCHANGED <<route, caller, step, shown, snapshot, name, redis>>

MoreNames(r) == name[r] < Names

NextName(r) ==
    /\ pc[r] = "next"
    /\ IF MoreNames(r)
       THEN /\ Go(r, "exps") /\ name' = [name EXCEPT ![r] = @ + 1]
            /\ found' = [found EXCEPT ![r] = "open"] /\ heard' = [heard EXCEPT ![r] = {}]
            /\ step' = [step EXCEPT ![r] = 0] /\ shown' = [shown EXCEPT ![r] = {}]
       ELSE Answer(r, 200) /\ UNCHANGED <<scan, reading>>
    /\ UNCHANGED <<route, caller, snapshot, redis>>

-----------------------------------------------------------------------------
Next ==
    \/ \E r \in Requests :
        \/ Arrive(r) \/ Leave(r) \/ Layers(r) \/ BadArguments(r)
        \/ Read(r) \/ Respond(r) \/ PickNothing(r)
        \/ NoStrikes(r) \/ Look(r) \/ Fetch(r) \/ Store(r)
        \/ Expirations(r) \/ Chain(r) \/ IvPercentile(r) \/ NextName(r)
    \/ Tick

Spec == Init /\ [][Next]_vars

-----------------------------------------------------------------------------
\* A snapshots page is of the contracts it was asked for, found or built: two
\* ladders of one name and expiry never share a page (get_option_snapshots_pg).
RowsAsAsked ==
    \A r \in Requests : page[r] # NoPage => page[r].of = ladder[r]

\* A failed read is cached as a page without rows.  It is found again only
\* within SNAPSHOT_CACHE_TTL_SEC of the last time such a page was stored,
\* however many callers go on asking for it.
BlanksFade ==
    [][\A r \in Requests :
        pc[r] = "look" /\ pc'[r] = "done" /\ status'[r] = 200 /\ page'[r].blank
            => calm < CacheTTL]_vars

\* Whose failures the answer of a reader leaves as a blank without saying so.
Excused(q, get) ==
    \/ q \in {"pcr", "overview", "liquidity", "relative"}
    \/ q = "raw" /\ get = "optional"

\* A reader answers 200 only when no service failed it, but for the reads listed
\* above, and 503 only when one did; and where a service had nothing or failed,
\* a 200 has a blank there, or zeros for the option PCR and nowhere else
\* (data_readiness.py and greeks.py, TD-16 and TD-49: an outage does not read as
\* missing data).
OutagesSaid ==
    \A r \in Requests : pc[r] = "done" /\ route[r] \in Readers =>
        LET failures == {h \in heard[r] : Failed(h[1], h[2]) /\ ~Excused(route[r], h[1])} IN
        /\ status[r] = 200 =>
            /\ failures = {}
            /\ (\E h \in heard[r] : h[2] # "rows") => shown[r] \ {"rows"} # {}
            /\ "zero" \in shown[r] => route[r] = "pcr"
        /\ status[r] = 503 =>
            \/ failures # {}
            \/ route[r] \in {"summary", "dates"} /\ <<"plugin", "refused">> \in heard[r]

\* What the screener says of a name is what it was told: an outage exactly when
\* a plugin read failed, no data only when every read was answered and the
\* last had none, and a scored group only from every batch of its window; a
\* group's note tells an unreadable percentile from one that is not there.
ScanHonest ==
    \A r \in Requests : pc[r] = "next" =>
        LET failed == \E h \in heard[r] : h[1] = "plugin" /\ Failed(h[1], h[2]) IN
        /\ found[r] = "outage" <=> failed
        /\ found[r] = "empty" => \E h \in heard[r] : h[2] \in {"none", "refused"}
        /\ found[r] \in {"group", "unmeasured", "unread", "filters"} => step[r] = Batches
        /\ found[r] = "unread" => <<"optional", "down">> \in heard[r]
        /\ found[r] \in {"group", "unmeasured"} => <<"optional", "down">> \notin heard[r]

\* Who may write: a token the YAML makes an operator or an admin; one of the
\* environment that the YAML gives no role; anyone without a token where the
\* default role allows it.
Entitled ==
    LET high == {"operator", "admin"} IN
    {t \in DOMAIN YamlTokens : YamlTokens[t] \in high}
    \cup {t \in {EnvOperator, EnvAdmin} : t \notin DOMAIN FromYaml}
    \cup (IF DefaultRole \in high THEN {NoToken} ELSE {})

\* A write reaches its handler exactly for the callers entitled to it, a read
\* and the screener for everyone, and a retired name never does where the name
\* would be dropped without a word (write_guard.py, query_vocab.py).
WritesByRole ==
    [][\A r \in Requests : pc[r] = "asked" /\ pc'[r] # "asked" =>
        LET through == pc'[r] # "done"
            refused == caller[r].old /\ route[r] \in {"greeks", "snapshots", "liquidity", "relative"} IN
        through <=> ~refused /\ (route[r] = "feedback" => caller[r].token \in Entitled)]_vars

=============================================================================
