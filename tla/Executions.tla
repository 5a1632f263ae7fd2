----------------------------- MODULE Executions -----------------------------
(***************************************************************************)
(* The execution book of the account API: POST /executions/fetch asks two  *)
(* gateway slots for fills and writes them, the Flex plugin confirms them, *)
(* POST and DELETE /executions add and remove rows by hand, and GET        *)
(* /executions pages through the book with a keyset cursor meanwhile.      *)
(*                                                                         *)
(* A fill is its exec_id; When is the (trade_date, exec_time) it has in    *)
(* every source.  Row ids come from one counter per raw table and share    *)
(* one signed id space.                                                    *)
(***************************************************************************)
EXTENDS Integers, FiniteSets, Functions

CONSTANTS
    Execs, When,
    Incomplete,     \* fills the mapping to rows refuses
    Manual,         \* fills entered by hand only
    Requests,       \* concurrent fetches
    TwoSlots,       \* ib2_host is configured
    PageSize,       \* limit of the pages
    Paging,         \* bound: a client pages through the book
    Base,           \* 1_000_000_000, where journal ids begin
    MaxDeletes      \* bound: DELETE calls of one behaviour

ASSUME FillsAssumption ==
    /\ IsFiniteSet(Execs) /\ When \in [Execs -> Nat]
    /\ Incomplete \subseteq Execs /\ Manual \subseteq Execs \ Incomplete
ASSUME SizesAssumption ==
    /\ TwoSlots \in BOOLEAN /\ Paging \in BOOLEAN
    /\ PageSize \in Nat \ {0} /\ MaxDeletes \in Nat
    /\ Base \in Nat /\ Base > Cardinality(Execs) + MaxDeletes

VARIABLES
    gateway,        \* the fills each slot reports for the days asked
    raw,            \* id of the fill's row in each raw table, 0 for none
    serial,         \* last id each raw table gave out
    deletes,
    pc, got,        \* each fetch: where it is, the fills it has been told
    verdict,        \* what it will answer
    due,            \* history: reported and not deleted since it arrived
    paging,         \* the paging client: idle, between two pages, done
    cursor,         \* key of the last row it was shown
    shown,          \* how often it was shown each fill
    there,          \* history: fills in the book since its first page
    steady,         \* history: those of them read under one id all along
    removed         \* history: a row was deleted since its first page

fetch == <<pc, got, verdict, due>>
pager == <<paging, cursor, shown, there, steady, removed>>
vars == <<gateway, raw, serial, deletes, fetch, pager>>

-----------------------------------------------------------------------------
Slots == IF TwoSlots THEN {"primary", "secondary"} ELSE {"primary"}
Source == {"flex", "tws", "journal"}
FetchPhase == {"idle", "primary", "secondary", "write", "announce"}
Verdict == {"none", "ok", "partial", "unstored", "error"}

\* brokerage.executions: every fill once, Flex first, under its signed id.
BookOf(r) == {e \in Execs : \E s \in Source : r[s][e] > 0}

\* Mutant: a confirmed fill keeps its TWS id.
IdTwsFirst(r, e) == IF r["tws"][e] > 0 THEN -r["tws"][e]
                    ELSE IF r["flex"][e] > 0 THEN r["flex"][e]
                    ELSE -Base - r["journal"][e]

IdIn(r, e) == IF r["flex"][e] > 0 THEN r["flex"][e]
              ELSE IF r["tws"][e] > 0 THEN -r["tws"][e]
              ELSE -Base - r["journal"][e]

Book == BookOf(raw)
Key(e) == <<When[e], IdIn(raw, e)>>

\* trade_date DESC, exec_time DESC, account_executions_id DESC
Precedes(k, l) == k[1] > l[1] \/ (k[1] = l[1] /\ k[2] > l[2])

Reported == UNION {gateway[s] : s \in Slots}

Init ==
    /\ gateway = [s \in Slots |-> {}]
    /\ raw = [s \in Source |-> [e \in Execs |-> 0]]
    /\ serial = [s \in Source |-> 0]
    /\ deletes = 0
    /\ pc = [r \in Requests |-> "idle"]
    /\ got = [r \in Requests |-> {}]
    /\ verdict = [r \in Requests |-> "none"]
    /\ due = [r \in Requests |-> {}]
    /\ paging = "idle" /\ cursor = <<0, 0>>
    /\ shown = [e \in Execs |-> 0]
    /\ there = {} /\ steady = {} /\ removed = FALSE

-----------------------------------------------------------------------------
\* The gateway (external): fills are traded; old ones leave the days asked for.

Trade(s, e) ==
    /\ e \notin Reported
    /\ gateway' = [gateway EXCEPT ![s] = @ \cup {e}]
    /\ UNCHANGED <<raw, serial, deletes, fetch, pager>>

Rollover(s, e) ==
    /\ e \in gateway[s]
    /\ gateway' = [gateway EXCEPT ![s] = @ \ {e}]
    /\ due' = [r \in Requests |-> due[r] \ {e}]
    /\ UNCHANGED <<raw, serial, deletes, pc, got, verdict, pager>>

\* Every change of the raw tables keeps what the histories say true.
Witness ==
    /\ there' = there \cap BookOf(raw')
    /\ steady' = {e \in steady : e \in BookOf(raw') /\ IdIn(raw', e) = IdIn(raw, e)}
    /\ UNCHANGED <<paging, cursor, shown>>

Insert(s, new) ==
    /\ \E f \in Bijection(new, serial[s] + 1 .. serial[s] + Cardinality(new)) :
        raw' = [raw EXCEPT ![s] = [e \in Execs |-> IF e \in new THEN f[e] ELSE @[e]]]
    /\ serial' = [serial EXCEPT ![s] = @ + Cardinality(new)]
    /\ Witness
    /\ UNCHANGED <<gateway, deletes, removed>>

\* The Flex plugin ingests a statement (external).
Confirm(e) ==
    /\ e \notin Manual /\ raw["flex"][e] = 0
    /\ Insert("flex", {e})
    /\ UNCHANGED fetch

-----------------------------------------------------------------------------
\* POST /executions/fetch: an await between every two steps.

Arrive(r) ==
    /\ pc[r] = "idle"
    /\ pc' = [pc EXCEPT ![r] = "primary"]
    /\ verdict' = [verdict EXCEPT ![r] = "ok"]
    /\ due' = [due EXCEPT ![r] = Reported]
    /\ UNCHANGED <<gateway, raw, serial, deletes, got, pager>>

Told(r, fills, v, next) ==
    /\ pc' = [pc EXCEPT ![r] = next]
    /\ got' = [got EXCEPT ![r] = @ \cup fills]
    /\ verdict' = [verdict EXCEPT ![r] = v]
    /\ UNCHANGED <<gateway, raw, serial, deletes, due, pager>>

AskPrimary(r) ==
    /\ pc[r] = "primary"
    /\ \/ Told(r, gateway["primary"], "ok", IF TwoSlots THEN "secondary" ELSE "write")
       \/ Told(r, {}, "error", "announce")

\* Mutant: a failing second slot is passed over in silence.
AskSecondaryQuietly(r) ==
    /\ pc[r] = "secondary"
    /\ \/ Told(r, gateway["secondary"], "ok", "write")
       \/ Told(r, {}, "ok", "write")

\* A failing second slot is noted as secondary_error, the answer stays 200.
AskSecondary(r) ==
    /\ pc[r] = "secondary"
    /\ \/ Told(r, gateway["secondary"], "ok", "write")
       \/ Told(r, {}, "partial", "write")

Rows(r) == got[r] \ Incomplete

\* Nothing to write: no fill at all, or none that can be written whole.
WriteNothing(r) ==
    /\ pc[r] = "write" /\ Rows(r) = {}
    /\ Told(r, {}, verdict[r], "announce")

\* write_account_executions_to_db: insert or skip by exec_id.
Write(r) ==
    /\ pc[r] = "write" /\ Rows(r) # {}
    /\ pc' = [pc EXCEPT ![r] = "announce"]
    /\ Insert("tws", {e \in Rows(r) : raw["tws"][e] = 0})
    /\ UNCHANGED <<got, verdict, due>>

WriteFails(r) ==
    /\ pc[r] = "write" /\ Rows(r) # {}
    /\ Told(r, {}, "error", "announce")

\* The writer finds no executions_raw_tws and says True all the same: the answer
\* is 200 with tws_raw_missing_table, the system message one of success.
WriteMissesTable(r) ==
    /\ pc[r] = "write" /\ Rows(r) # {}
    /\ Told(r, {}, "unstored", "announce")

\* The system message is published, best effort, then the answer goes out.
Announce(r) ==
    /\ pc[r] = "announce"
    /\ pc' = [pc EXCEPT ![r] = "idle"]
    /\ got' = [got EXCEPT ![r] = {}]
    /\ verdict' = [verdict EXCEPT ![r] = "none"]
    /\ due' = [due EXCEPT ![r] = {}]
    /\ UNCHANGED <<gateway, raw, serial, deletes, pager>>

-----------------------------------------------------------------------------
\* POST /executions
PostExecution(e) ==
    /\ e \in Manual /\ e \notin Book
    /\ Insert("journal", {e})
    /\ UNCHANGED fetch

\* DELETE /executions/{id}: the raw row the id names, and only that one.  A
\* TWS row under a Flex row has an id of its own, read before it was confirmed.
DeleteExecution(s, e) ==
    /\ raw[s][e] > 0
    /\ deletes < MaxDeletes
    /\ deletes' = deletes + 1
    /\ raw' = [raw EXCEPT ![s][e] = 0]
    /\ removed' = TRUE
    /\ due' = [r \in Requests |-> due[r] \cap (BookOf(raw') \cup (Execs \ {e}))]
    /\ Witness
    /\ UNCHANGED <<gateway, serial, pc, got, verdict>>

-----------------------------------------------------------------------------
\* GET /executions, page by page.

FirstRows(S) ==
    {e \in S : Cardinality({x \in S : Precedes(Key(x), Key(e))}) < PageSize}

\* next_cursor is null when the page holds all there is.
TakePage(S, before) ==
    LET page == FirstRows(S) IN
    /\ shown' = [e \in Execs |-> IF e \in page THEN before[e] + 1 ELSE before[e]]
    /\ paging' = IF page = S THEN "done" ELSE "open"
    /\ \/ page = {} /\ UNCHANGED cursor
       \/ \E e \in page : /\ \A x \in page \ {e} : Precedes(Key(x), Key(e))
                        /\ cursor' = Key(e)
    /\ UNCHANGED <<gateway, raw, serial, deletes, fetch>>

FirstPage ==
    /\ Paging /\ paging = "idle"
    /\ TakePage(Book, [e \in Execs |-> 0])
    /\ there' = Book /\ steady' = Book /\ removed' = FALSE

\* Mutant: the cursor is the time alone, as for rows whose ties have no order.
NextPageByTime ==
    /\ paging = "open"
    /\ TakePage({e \in Book : cursor[1] > When[e]}, shown)
    /\ UNCHANGED <<there, steady, removed>>

NextPage ==
    /\ paging = "open"
    /\ TakePage({e \in Book : Precedes(cursor, Key(e))}, shown)
    /\ UNCHANGED <<there, steady, removed>>

Leave ==
    /\ paging # "idle"
    /\ paging' = "idle" /\ cursor' = <<0, 0>>
    /\ shown' = [e \in Execs |-> 0]
    /\ there' = {} /\ steady' = {} /\ removed' = FALSE
    /\ UNCHANGED <<gateway, raw, serial, deletes, fetch>>

-----------------------------------------------------------------------------
Fetch(r) == Arrive(r) \/ AskPrimary(r) \/ AskSecondary(r) \/ WriteNothing(r)
            \/ Write(r) \/ WriteFails(r) \/ WriteMissesTable(r) \/ Announce(r)

Next ==
    \/ \E s \in Slots, e \in Execs \ Manual : Trade(s, e) \/ Rollover(s, e)
    \/ \E e \in Execs : Confirm(e) \/ PostExecution(e)
    \/ \E s \in Source, e \in Execs : DeleteExecution(s, e)
    \/ \E r \in Requests : Fetch(r)
    \/ FirstPage \/ NextPage \/ Leave

Spec == Init /\ [][Next]_vars

-----------------------------------------------------------------------------
TypeOK ==
    /\ gateway \in [Slots -> SUBSET Execs]
    /\ raw \in [Source -> [Execs -> Nat]]
    /\ serial \in [Source -> Nat]
    /\ \A s \in Source, e \in Execs : raw[s][e] <= serial[s]
    /\ deletes \in 0 .. MaxDeletes
    /\ pc \in [Requests -> FetchPhase]
    /\ got \in [Requests -> SUBSET Execs]
    /\ verdict \in [Requests -> Verdict]
    /\ due \in [Requests -> SUBSET Execs]
    /\ paging \in {"idle", "open", "done"}
    /\ cursor \in Nat \X Int
    /\ shown \in [Execs -> Nat]
    /\ steady \subseteq there /\ there \subseteq Book
    /\ removed \in BOOLEAN

\* A fetch that answers 200 with neither secondary_error nor
\* tws_raw_missing_table, the two flags by which a 200 tells that fills are
\* left out, has every complete fill in the book that both slots reported
\* throughout and nobody deleted: fills may be told twice, by overlapping
\* fetches or slots, never dropped between being told and being written.
OkMeansStored ==
    \A r \in Requests :
        (pc[r] = "announce" /\ verdict[r] = "ok") => due[r] \ Incomplete \subseteq Book

\* One page after the other shows every fill that stays under its id exactly
\* once, whatever is fetched, confirmed, entered or deleted between the pages.
PagesComplete ==
    paging = "done" => \A e \in steady : shown[e] = 1

\* While rows are only added, no fill is shown on two pages: confirmation can
\* only move a fill towards the front.
NoRowRepeated ==
    ~removed => \A e \in Execs : shown[e] <= 1

\* The description of the cursor parameter: paging neither repeats nor skips a
\* row when rows are added.
NoRowSkipped ==
    (paging = "done" /\ ~removed) => \A e \in there : shown[e] = 1

=============================================================================
