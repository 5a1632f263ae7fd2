--------------------------- MODULE InspectorRows ---------------------------
(***************************************************************************)
(* The EPS and revenue tables of the Stock Inspector (GET                  *)
(* /research/symbol_fundamental_raw): the plugin is asked for the          *)
(* quarterly and then for the annual statements of a name, and             *)
(* income_rows_for_inspector makes the two tables of what it answered.     *)
(*                                                                         *)
(* A statement has what the computation looks at: its fiscal year, None    *)
(* where _as_int reads none; the quarter it carries (None for most); the   *)
(* place its period_date sorts at, which is the day where _as_date reads   *)
(* one; the format of its data; and, which the code does not see, the      *)
(* quarter it really is of.                                                *)
(***************************************************************************)
EXTENDS Integers, Sequences, FiniteSets, Functions

CONSTANTS
    Quarterly, Annual,  \* the lists the plugin may answer
    Quarters, Years,    \* how many rows each table may have
    None

IncomeRow ==
    [year : {None} \cup Int, quarter : 1 .. 4, carried : {None} \cup Int,
     end : Int, dated : BOOLEAN, format : {"v1", "legacy", "none"}]

ASSUME NoneAssumption == None \notin Int

ASSUME StatementsAssumption ==
    /\ \A rows \in Quarterly \cup Annual : rows \in Seq(IncomeRow)
    /\ Quarters \in Nat \ {0} /\ Years \in Nat \ {0}

\* A quarter that is carried is the right one, and a quarter of a year ends
\* within forty days of where it does in a year of four quarters of 91 days,
\* the years being 365 days apart.
Distant == 40

ASSUME DatesAssumption ==
    \A rows \in Quarterly : \A r \in Range(rows) :
        /\ r.carried \in {None, 0, r.quarter}
        /\ \A ends \in Annual : \A s \in Range(ends) :
            (/\ r.dated /\ s.dated /\ None \notin {r.year, s.year}
             /\ s.year - r.year \in -1 .. 1) =>
                s.end - r.end - 365 * (s.year - r.year) - 91 * (4 - r.quarter) \in -Distant .. Distant

VARIABLES quarterly, annual, stage

tablesVars == <<quarterly, annual, stage>>

TablesInit == quarterly = << >> /\ annual = << >> /\ stage = "quarterly"

AskQuarterly ==
    /\ stage = "quarterly" /\ stage' = "annual"
    /\ quarterly' \in Quarterly /\ UNCHANGED annual

AskAnnual ==
    /\ stage = "annual" /\ stage' = "200"
    /\ annual' \in Annual /\ UNCHANGED quarterly

\* Either read may fail, and then there are no tables.
AskFails ==
    stage \in {"quarterly", "annual"} /\ stage' = "503" /\ UNCHANGED <<quarterly, annual>>

LeaveTables == stage \in {"200", "503"} /\ stage' = "quarterly" /\ quarterly' = << >> /\ annual' = << >>

TablesNext == AskQuarterly \/ AskAnnual \/ AskFails \/ LeaveTables

TablesSpec == TablesInit /\ [][TablesNext]_tablesVars

-----------------------------------------------------------------------------
\* Mutant: the rows of both formats make one series.
OneFormatOrBoth(rows) == DOMAIN rows

\* _one_format: a series with a row of the flat format drops the nested ones; a
\* row without data is of neither.
OneFormat(rows) ==
    IF \E i \in DOMAIN rows : rows[i].format = "v1"
    THEN {i \in DOMAIN rows : rows[i].format # "legacy"} ELSE DOMAIN rows

\* sorted with reverse keeps the order of rows of one date.
Before(rows, i, j) == rows[i].end > rows[j].end \/ (rows[i].end = rows[j].end /\ i < j)

\* _newest_first, of some of the rows.
NewestFirst(rows, some) ==
    LET order == CHOOSE p \in [1 .. Cardinality(some) -> some] :
                    \A k, l \in DOMAIN p : k < l => Before(rows, p[k], p[l])
    IN [k \in DOMAIN order |-> rows[order[k]]]

\* The day each fiscal year ends: that of its last annual row, of those that
\* have a year and a day.
Whole(rows) == {i \in DOMAIN rows : rows[i].year # None /\ rows[i].dated}
YearEnds(rows) ==
    LET of(y) == {i \in Whole(rows) : rows[i].year = y}
    IN [y \in {rows[i].year : i \in Whole(rows)} |->
            rows[CHOOSE i \in of(y) : \A j \in of(y) : j <= i].end]

\* Mutant: a quarter that is not over does not count.
InWholeQuarters(days) == (16 * days) \div 1461

\* Days over _QUARTER_DAYS, rounded; 365.25 / 4 days is 1461 sixteenths of a day.
InQuarters(days) == (32 * days + 1461) \div 2922

YearEnd(year, ends) ==
    IF year \in DOMAIN ends THEN ends[year]
    ELSE IF year - 1 \in DOMAIN ends THEN ends[year - 1] + 365
    ELSE IF year + 1 \in DOMAIN ends THEN ends[year + 1] - 365 ELSE None

\* derive_fiscal_quarter
Derived(r, ends) ==
    LET end == YearEnd(r.year, ends)
        quarter == 4 - InQuarters(end - r.end)
    IN IF r.year = None \/ ~r.dated \/ end = None THEN None ELSE IF quarter \in 1 .. 4 THEN quarter ELSE None

\* A carried zero is taken for none.
Quarter(r, ends) == IF r.carried \notin {None, 0} THEN r.carried ELSE Derived(r, ends)

NoKey == << >>

\* A row goes into a table that is not full unless one with its key is there.
Take(out, r, key, limit) ==
    IF Len(out) >= limit \/ (key[r] # NoKey /\ \E i \in DOMAIN out : key[out[i]] = key[r])
    THEN out ELSE Append(out, r)

Table(rows, key, limit) ==
    LET out[k \in 0 .. Len(rows)] ==
            IF k = 0 THEN << >> ELSE Take(out[k - 1], rows[k], key, limit)
    IN out[Len(rows)]

\* Quarterly rows whose quarter is not known are not compared with others.  A
\* year that is not known is one year more, in both tables.
QuarterKey(r) ==
    LET quarter == Quarter(r, YearEnds(annual))
    IN IF quarter = None THEN NoKey ELSE <<r.year, quarter>>

QuarterKeys == [r \in Range(quarterly) |-> QuarterKey(r)]
YearKeys == [r \in Range(annual) |-> <<r.year>>]

QuarterlyTable == Table(NewestFirst(quarterly, OneFormat(quarterly)), QuarterKeys, Quarters)
AnnualTable == Table(NewestFirst(annual, OneFormat(annual)), YearKeys, Years)

-----------------------------------------------------------------------------
\* The statements a table may draw on; those of them that no newer one of the
\* same period replaces; and of these the newest, up to the limit.
Usable(rows) == {i \in DOMAIN rows : rows[i].format # "legacy" \/ \A j \in DOMAIN rows : rows[j].format # "v1"}
Same(rows, key, i, j) == key[rows[i]] # NoKey /\ key[rows[i]] = key[rows[j]]
Current(rows, key) ==
    {j \in Usable(rows) : ~\E i \in Usable(rows) : Same(rows, key, i, j) /\ Before(rows, i, j)}
Shown(rows, key, limit) ==
    {rows[j] : j \in {k \in Current(rows, key) :
        Cardinality({i \in Current(rows, key) : Before(rows, i, k)}) < limit}}

\* Each table holds, newest first, the newest statement of each period, of one
\* vendor format only, up to its limit (income_rows_for_inspector).  Statements
\* without a fiscal year are of one period, however many years they are of: only
\* the newest of the annual ones is there.  Quarterly ones whose quarter cannot
\* be told are each of a period of their own.
NewestOfEachPeriod ==
    stage = "200" =>
        /\ Range(QuarterlyTable) = Shown(quarterly, QuarterKeys, Quarters)
        /\ Range(AnnualTable) = Shown(annual, YearKeys, Years)
        /\ \A t \in {QuarterlyTable, AnnualTable} :
            \A i, j \in DOMAIN t : i < j => t[i].end >= t[j].end

\* A quarter shown is the one the statement is of, also where it was counted back
\* from the end of that fiscal year or of a neighbouring one, and the dates are
\* some days off (derive_fiscal_quarter).
QuartersRight ==
    stage = "200" => \A i \in DOMAIN QuarterlyTable :
        Quarter(QuarterlyTable[i], YearEnds(annual)) \in {None, QuarterlyTable[i].quarter}

\* "Rows are unique on the table's row key": the fiscal year and quarter, as
\* shown (financials_data.py, income_rows_for_inspector).
KeysUnique ==
    stage = "200" => \A i, j \in DOMAIN QuarterlyTable :
        /\ i # j /\ QuarterlyTable[i].year = QuarterlyTable[j].year
        => Quarter(QuarterlyTable[i], YearEnds(annual)) # Quarter(QuarterlyTable[j], YearEnds(annual))

=============================================================================
