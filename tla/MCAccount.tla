----------------------------- MODULE MCAccount -----------------------------
(***************************************************************************)
(* The two halves of the account application, each in its own behaviours:  *)
(* the execution book over three fills of one instant (one complete, one   *)
(* that comes from the gateway without its identifiers, one entered by     *)
(* hand), and a caller of one row of any other table.  They share no       *)
(* state, so their product would show nothing more.  In the behaviours in  *)
(* which the book is paged, only the primary slot reports fills: what is   *)
(* in the book does not tell by which slot it came.  One caller shows what *)
(* two do: no step reads the form of another, and a form goes stale by the *)
(* caller's own other requests as well as by anybody's.                    *)
(*                                                                         *)
(* Kept leaves the last request out of what makes a state: no step depends *)
(* on it, and the properties about it are of steps, which TLC looks at     *)
(* each time it takes one.                                                 *)
(***************************************************************************)
EXTENDS MCExecutions, AccountApp

CONSTANTS c1, v1, v2, t1

OneCaller == {c1}
TwoValues == {v1, v2}
OneToken == [t \in {t1} |-> "operator"]

VARIABLE half

Kept == <<vars, half, postgres, table, row, form>>

MCInit ==
    \/ half \in {"fetch", "pages"} /\ Init
       /\ postgres = TRUE /\ table = "trades" /\ row = Absent
       /\ form = [c \in Callers |-> Absent]
       /\ last = NoRequest
    \/ half = "tables" /\ AppInit /\ Init

MCNext ==
    \/ half = "fetch" /\ Next /\ UNCHANGED <<half, appVars, paging>>
    \/ half = "pages" /\ Next /\ gateway'["secondary"] = {} /\ UNCHANGED <<half, appVars>>
    \/ half = "tables" /\ AppNext /\ UNCHANGED <<half, vars>>

MCSpec == MCInit /\ [][MCNext]_<<vars, half, appVars>>

=============================================================================
