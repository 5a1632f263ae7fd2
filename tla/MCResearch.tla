---------------------------- MODULE MCResearch ----------------------------
(***************************************************************************)
(* What is served under /research, each in behaviours of its own, for they *)
(* share no state.                                                         *)
(*  - The application: one request for any route beside one for snapshots, *)
(*    two ladders, a page that stays two ticks, and a scan of two names of *)
(*    two batches.  One token is a viewer in the YAML and the operator's   *)
(*    of the environment, one has a role that does not exist and is the    *)
(*    admin's.                                                             *)
(*  - The tables of the Stock Inspector, for every list of Statements.     *)
(*  - The merged documentation: a path and two components of which the one *)
(*    refers to the other, and less than that, of any of the services.     *)
(***************************************************************************)
EXTENDS ResearchApp, InspectorRows, MergedDocs, TLC, Statements

CONSTANTS a, b, t1, t2, l1, l2

TwoRequests == {a, b}
AsksOfTwo == [r \in {a, b} |-> IF r = a THEN Routes ELSE {"snapshots"}]
TwoTokens == [t \in {t1, t2} |-> IF t = t1 THEN "viewer" ELSE "root"]
TwoLadders == {l1, l2}
EitherLadder == Permutations({l1, l2})

Document(paths, components) == [paths |-> paths, components |-> components]
SmallDocuments ==
    {Document("/health" :> {}, [n \in {} |-> {}]),
     Document("/health" :> {"List"}, "List" :> {}),
     Document("/rows" :> {"List"}, "List" :> {"Row"} @@ "Row" :> {}),
     Document("/health" :> {} @@ "/rows" :> {"Row"}, "Row" :> {})}

VARIABLE part

MCInit == Init /\ TablesInit /\ DocsInit /\ part \in {"app", "inspector", "docs"}

MCNext ==
    \/ part = "app" /\ Next /\ UNCHANGED <<part, tablesVars, docsVars>>
    \/ part = "inspector" /\ TablesNext /\ UNCHANGED <<part, vars, docsVars>>
    \/ part = "docs" /\ DocsNext /\ UNCHANGED <<part, vars, tablesVars>>

MCSpec == MCInit /\ [][MCNext]_<<part, vars, tablesVars, docsVars>>

=============================================================================
