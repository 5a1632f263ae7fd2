---------------------------- MODULE MCExecutions ----------------------------
(***************************************************************************)
(* Pages of one row over three fills of one instant.  In the passing run   *)
(* one is complete, one comes from the gateway without its identifiers,    *)
(* and one is entered by hand; in the other two come from the gateway.     *)
(***************************************************************************)
EXTENDS Executions

CONSTANTS f1, f2, bad, hand, r1

None == {}
MixedFills == {f1, bad, hand}
MixedInstants == [e \in MixedFills |-> 1]
PagedFills == {f1, f2, hand}
PagedInstants == [e \in PagedFills |-> 1]
BadFills == {bad}
HandFills == {hand}
OneFetch == {r1}

=============================================================================
