---------------------------- MODULE StatusCache ----------------------------
(***************************************************************************)
(* GET /status of the monitor: the 15 s answer cache, shared by the        *)
(* threads FastAPI runs the route on, and the two control routes whose     *)
(* effect the page is read for (POST /control/suspend, /control/resume).   *)
(*                                                                         *)
(* The clock is relative: every age counts the ticks since an event and    *)
(* stops at the largest value any guard can tell apart, so the state space *)
(* is finite without a last instant.                                       *)
(***************************************************************************)
EXTENDS Integers, FiniteSets

CONSTANTS
    Threads,      \* workers of the threadpool, one request each
    Details,      \* the values of include_accounts that are sent
    TTL,          \* _STATUS_CACHE_TTL
    MaxWait,      \* bound: ticks from reading the clock to holding the lock
    MaxCompute,   \* bound: ticks the reads of one page may take
    MaxWrites     \* bound: suspend / resume calls of one behaviour

ASSUME DetailsAssumption == Details \subseteq BOOLEAN
ASSUME TTLAssumption == TTL \in Nat \ {0}
ASSUME BoundsAssumption ==
    /\ MaxWait \in Nat
    /\ MaxCompute \in Nat
    /\ MaxWrites \in Nat

VARIABLES
    run,          \* Redis trading state: how often written, and the flag
    row,          \* the write the daemon had acted on when it last saved its row
    cacheSet,     \* _status_cache is not empty
    cache,        \* _status_cache, meaningless until cacheSet
    cacheAge,     \* time.monotonic() - _status_cache_ts
    pc,           \* where each request is
    full,         \* the request said ?include_accounts=1
    age,          \* ticks since the request entered its present phase
    page,         \* what the request has read so far; then what it was told
    outcome,      \* how the request ended: not yet, minimal error page, page
    sinceWrite,   \* history: ticks since the last suspend / resume
    sinceUnread,  \* history: ticks since a read of the flag had no answer
    overlapped    \* history: another request stored a page since this one read the flag

vars == <<run, row, cacheSet, cache, cacheAge, pc, full, age, page, outcome,
          sinceWrite, sinceUnread, overlapped>>

-----------------------------------------------------------------------------
Phase == {"idle", "lookup", "row", "run", "rest", "store"}
Reading == {"row", "run", "rest", "store"}

RunState == [ver : Nat \cup {-1}, suspended : BOOLEAN]

\* get_run_status() answered None: the page shows "not suspended", whatever
\* the flag is.  The version -1 marks that no write stands behind it.
NoRun == [ver |-> -1, suspended |-> FALSE]

Page == [row : Nat, run : RunState, full : BOOLEAN]
BlankPage == [row |-> 0, run |-> NoRun, full |-> FALSE]

Outcome == {"none", "error", "page"}

CacheHorizon == TTL + MaxWait
QuietBound == TTL + MaxWait + MaxCompute

UpTo(n, cap) == IF n < cap THEN n + 1 ELSE cap

-----------------------------------------------------------------------------
Init ==
    /\ run = [ver |-> 0, suspended |-> FALSE]
    /\ row = 0
    /\ cacheSet = FALSE
    /\ cache = BlankPage
    /\ cacheAge = 0
    /\ pc = [t \in Threads |-> "idle"]
    /\ full = [t \in Threads |-> FALSE]
    /\ age = [t \in Threads |-> 0]
    /\ page = [t \in Threads |-> BlankPage]
    /\ outcome = [t \in Threads |-> "none"]
    /\ sinceWrite = 0
    /\ sinceUnread = QuietBound
    /\ overlapped = [t \in Threads |-> FALSE]

\* The request samples the clock before it asks for the lock.
Arrive(t, f) ==
    /\ pc[t] = "idle"
    /\ pc' = [pc EXCEPT ![t] = "lookup"]
    /\ full' = [full EXCEPT ![t] = f]
    /\ page' = [page EXCEPT ![t] = BlankPage]
    /\ outcome' = [outcome EXCEPT ![t] = "none"]
    /\ UNCHANGED <<run, row, cacheSet, cache, cacheAge, age, sinceWrite,
                   sinceUnread, overlapped>>

Finish(t, how, p) ==
    /\ pc' = [pc EXCEPT ![t] = "idle"]
    /\ age' = [age EXCEPT ![t] = 0]
    /\ page' = [page EXCEPT ![t] = p]
    /\ outcome' = [outcome EXCEPT ![t] = how]

\* Mutant: a page as old as the TTL is still served.
WarmAtTTL(t) == cacheSet /\ cacheAge - age[t] <= TTL

\* Under the lock: is the stored page younger than the TTL at the sampled time?
Warm(t) == cacheSet /\ cacheAge - age[t] < TTL

\* Mutant: a hit renews the page it serves.
LookupHitRenews(t) ==
    /\ pc[t] = "lookup"
    /\ Warm(t)
    /\ Finish(t, "page", cache)
    /\ cacheAge' = 0
    /\ UNCHANGED <<run, row, cacheSet, cache, full, sinceWrite, sinceUnread,
                   overlapped>>

LookupHit(t) ==
    /\ pc[t] = "lookup"
    /\ Warm(t)
    /\ Finish(t, "page", cache)
    /\ UNCHANGED <<run, row, cacheSet, cache, cacheAge, full, sinceWrite,
                   sinceUnread, overlapped>>

LookupMiss(t) ==
    /\ pc[t] = "lookup"
    /\ ~Warm(t)
    /\ pc' = [pc EXCEPT ![t] = "row"]
    /\ age' = [age EXCEPT ![t] = 0]
    /\ UNCHANGED <<run, row, cacheSet, cache, cacheAge, full, page, outcome,
                   sinceWrite, sinceUnread, overlapped>>

\* reader.get_status_current()
ReadRow(t) ==
    /\ pc[t] = "row"
    /\ pc' = [pc EXCEPT ![t] = "run"]
    /\ page' = [page EXCEPT ![t].row = row]
    /\ UNCHANGED <<run, row, cacheSet, cache, cacheAge, full, age, outcome,
                   sinceWrite, sinceUnread, overlapped>>

\* Mutant: without an answer the flag is made up from the daemon's row.
ReadRunOrRow(t) ==
    /\ pc[t] = "run"
    /\ pc' = [pc EXCEPT ![t] = "rest"]
    /\ \E r \in {run, [ver |-> row, suspended |-> FALSE]} :
        page' = [page EXCEPT ![t].run = r]
    /\ UNCHANGED <<run, row, cacheSet, cache, cacheAge, full, age, outcome,
                   sinceWrite, sinceUnread, overlapped>>

\* reader.get_run_status(): the flag, or None when Redis has no answer, which
\* the page takes for FALSE.
ReadRun(t) ==
    /\ pc[t] = "run"
    /\ pc' = [pc EXCEPT ![t] = "rest"]
    /\ \/ /\ page' = [page EXCEPT ![t].run = run]
          /\ UNCHANGED sinceUnread
       \/ /\ page' = [page EXCEPT ![t].run = NoRun]
          /\ sinceUnread' = 0
    /\ UNCHANGED <<run, row, cacheSet, cache, cacheAge, full, age, outcome,
                   sinceWrite, overlapped>>

\* Mutant: the row is read with the rest, after the flag.
ReadRestAndRow(t) ==
    /\ pc[t] = "rest"
    /\ pc' = [pc EXCEPT ![t] = "store"]
    /\ page' = [page EXCEPT ![t].full = full[t], ![t].row = row]
    /\ UNCHANGED <<run, row, cacheSet, cache, cacheAge, full, age, outcome,
                   sinceWrite, sinceUnread, overlapped>>

\* Heartbeat, watchlist, accounts, orders, Redis health: only the depth of
\* the accounts differs between requests.
ReadRest(t) ==
    /\ pc[t] = "rest"
    /\ pc' = [pc EXCEPT ![t] = "store"]
    /\ page' = [page EXCEPT ![t].full = full[t]]
    /\ UNCHANGED <<run, row, cacheSet, cache, cacheAge, full, age, outcome,
                   sinceWrite, sinceUnread, overlapped>>

\* A read that is not guarded raised: the minimal page, which is not cached.
Fail(t) ==
    /\ pc[t] \in {"row", "run", "rest"}
    /\ Finish(t, "error", BlankPage)
    /\ overlapped' = [overlapped EXCEPT ![t] = FALSE]
    /\ UNCHANGED <<run, row, cacheSet, cache, cacheAge, full, sinceWrite,
                   sinceUnread>>

\* Under the lock, whatever the cache holds by now; ts is the time of storing.
Store(t) ==
    /\ pc[t] = "store"
    /\ Finish(t, "page", page[t])
    /\ cacheSet' = TRUE
    /\ cache' = page[t]
    /\ cacheAge' = 0
    /\ overlapped' = [u \in Threads |-> u # t /\ (overlapped[u] \/ pc[u] \in {"rest", "store"})]
    /\ UNCHANGED <<run, row, full, sinceWrite, sinceUnread>>

\* write_run_status(suspended=s). A refused or failed write changes nothing.
SetSuspended(s) ==
    /\ run.ver < MaxWrites
    /\ run' = [ver |-> run.ver + 1, suspended |-> s]
    /\ sinceWrite' = 0
    /\ UNCHANGED <<row, cacheSet, cache, cacheAge, pc, full, age, page, outcome,
                   sinceUnread, overlapped>>

Suspend == SetSuspended(TRUE)
Resume == SetSuspended(FALSE)

\* External: the daemon reads the flag, acts, and later saves its status row.
DaemonBeat ==
    /\ row' \in row .. run.ver
    /\ UNCHANGED <<run, cacheSet, cache, cacheAge, pc, full, age, page, outcome,
                   sinceWrite, sinceUnread, overlapped>>

\* The process dies with its globals; the replacement starts cold.
Restart ==
    /\ cacheSet' = FALSE
    /\ cache' = BlankPage
    /\ cacheAge' = 0
    /\ pc' = [t \in Threads |-> "idle"]
    /\ full' = [t \in Threads |-> FALSE]
    /\ age' = [t \in Threads |-> 0]
    /\ page' = [t \in Threads |-> BlankPage]
    /\ outcome' = [t \in Threads |-> "none"]
    /\ overlapped' = [t \in Threads |-> FALSE]
    /\ UNCHANGED <<run, row, sinceWrite, sinceUnread>>

PhaseBound(p) == CASE p = "idle" -> 0
                   [] p = "lookup" -> MaxWait
                   [] OTHER -> MaxCompute

Tick ==
    /\ \A t \in Threads : pc[t] = "idle" \/ age[t] < PhaseBound(pc[t])
    /\ cacheAge' = IF cacheSet THEN UpTo(cacheAge, CacheHorizon) ELSE 0
    /\ age' = [t \in Threads |-> IF pc[t] = "idle" THEN 0 ELSE age[t] + 1]
    /\ sinceWrite' = UpTo(sinceWrite, QuietBound)
    /\ sinceUnread' = UpTo(sinceUnread, QuietBound)
    /\ UNCHANGED <<run, row, cacheSet, cache, pc, full, page, outcome, overlapped>>

Step(t) == LookupHit(t) \/ LookupMiss(t) \/ ReadRow(t) \/ ReadRun(t)
           \/ ReadRest(t) \/ Fail(t) \/ Store(t)

Next ==
    \/ \E t \in Threads : (\E f \in Details : Arrive(t, f)) \/ Step(t)
    \/ Suspend \/ Resume \/ DaemonBeat \/ Restart \/ Tick

Spec == Init /\ [][Next]_vars

\* The dashboards and the platform's probes poll without end, every request
\* runs to its answer and time passes.
Fairness ==
    /\ \A t \in Threads : WF_vars(\E f \in Details : Arrive(t, f)) /\ WF_vars(Step(t))
    /\ WF_vars(Tick)

LiveSpec == Spec /\ Fairness

-----------------------------------------------------------------------------
TypeOK ==
    /\ run \in [ver : 0 .. MaxWrites, suspended : BOOLEAN]
    /\ row \in 0 .. run.ver
    /\ cacheSet \in BOOLEAN
    /\ cache \in Page
    /\ cacheAge \in 0 .. CacheHorizon
    /\ pc \in [Threads -> Phase]
    /\ full \in [Threads -> BOOLEAN]
    /\ age \in [Threads -> Nat]
    /\ \A t \in Threads : age[t] <= PhaseBound(pc[t])
    /\ page \in [Threads -> Page]
    /\ outcome \in [Threads -> Outcome]
    /\ sinceWrite \in 0 .. QuietBound
    /\ sinceUnread \in 0 .. QuietBound
    /\ overlapped \in [Threads -> BOOLEAN]

\* A page that shows the daemon acting on a suspend or a resume shows that
\* call too: the row is read before the flag, so an answer (cached or not) is
\* never ahead of itself. A page whose flag had no answer is exempt: it shows
\* "not suspended" beside whatever the row says.
CausalPage ==
    \A t \in Threads :
        (outcome[t] = "page" /\ page[t].run # NoRun)
            => page[t].row <= page[t].run.ver

Finishes(t) == pc[t] # "idle" /\ pc'[t] = "idle"

\* Once no suspend or resume has landed for the TTL, one lock wait and one
\* page's reads together, every answer shows the flag as it is, unless a read
\* of the flag had no answer in that same time: then "not suspended" may be
\* shown in its place. The cache delays a control call, and keeps a flag
\* nobody read, for a bounded time, whatever threads overlap.
FreshAfterQuiet ==
    [][\A t \in Threads :
        (Finishes(t) /\ outcome'[t] = "page" /\ sinceWrite >= QuietBound)
            => \/ page'[t].run = run
               \/ page'[t].run = NoRun /\ sinceUnread < QuietBound]_vars

\* A page stored over another shows the same write of the flag or a later
\* one. It goes back, to an earlier write or to "not suspended" with no write
\* behind it, for two causes only: another request stored its page after this
\* one had read the flag, or this one's own read of the flag had no answer.
GoesBackForCause ==
    [][\A t \in Threads :
        (pc[t] = "store" /\ pc'[t] = "idle" /\ cacheSet /\ cacheSet')
            => \/ cache'.run = cache.run
               \/ cache'.run.ver > cache.run.ver
               \/ overlapped[t]
               \/ page[t].run = NoRun]_vars

\* After the last suspend or resume, with polls going on and reads of the flag
\* no longer unanswered, every page answered from some moment on shows it.
LastWriteShown ==
    \A v \in 0 .. MaxWrites :
        (<>[](run.ver = v) /\ <>[](sinceUnread = QuietBound)) =>
            <>[](\A t \in Threads : outcome[t] = "page" => page[t].run = run)

\* The comment on the light accounts read: full detail remains on
\* ?include_accounts=1.
FullDetailOnRequest ==
    \A t \in Threads :
        (outcome[t] = "page" /\ full[t]) => page[t].full

=============================================================================
