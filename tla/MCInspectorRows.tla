-------------------------- MODULE MCInspectorRows --------------------------
(***************************************************************************)
(* The tables of the Stock Inspector for every list of Statements.         *)
(***************************************************************************)
EXTENDS InspectorRows, Statements

=============================================================================
