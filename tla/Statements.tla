----------------------------- MODULE Statements -----------------------------
(***************************************************************************)
(* The lists of statements the runs of InspectorRows are given: statements *)
(* of two fiscal years of a company whose years end on one weekday, so     *)
(* that the second ends 364 days after the first; one of them has a second *)
(* statement of its last quarter, dated three days earlier.  Besides, two   *)
(* annual statements and a quarterly one without a year, and a quarterly   *)
(* one without a date, which sorts behind all others.                      *)
(***************************************************************************)
EXTENDS Integers, Functions

CONSTANT none

Ends == [y \in {1, 2} |-> 364 + 364 * y]
Statement(y, q, carries, format) ==
    [year |-> y, quarter |-> q, carried |-> IF carries THEN q ELSE none,
     end |-> Ends[y] - 91 * (4 - q), dated |-> TRUE, format |-> format]
Yearless(s) == [s EXCEPT !.year = none]
Undated(s) == [s EXCEPT !.end = 0, !.dated = FALSE]
Upto(n, S) == {s \in UNION {[1 .. k -> S] : k \in 0 .. n} : IsInjective(s)}

Earlier == [Statement(2, 4, FALSE, "legacy") EXCEPT !.end = @ - 3]
Nested == {Statement(y, q, FALSE, "legacy") : y \in {1, 2}, q \in {1, 3, 4}} \cup {Earlier}
Flat == {Statement(y, q, TRUE, "v1") : y \in {2}, q \in {3, 4}}
NoData == {Statement(1, 2, FALSE, "none")}
Unread == {Yearless(Statement(2, 3, TRUE, "v1")), Undated(Statement(2, 1, FALSE, "legacy"))}
QuarterlyLists == Upto(3, Nested \cup Flat \cup NoData \cup Unread)
Closed == {Statement(y, 4, FALSE, "legacy") : y \in {1, 2}}
AnnualLists ==
    Upto(2, Closed \cup {Yearless(s) : s \in Closed} \cup {Statement(y, 4, FALSE, "v1") : y \in {1, 2}})

=============================================================================
