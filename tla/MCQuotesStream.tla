--------------------------- MODULE MCQuotesStream ---------------------------
(***************************************************************************)
(* Two symbols of three ticks in all, and a client whose queue holds one   *)
(* quote: it overflows, and the tick it drops may be the only one of its   *)
(* symbol.                                                                 *)
(***************************************************************************)
EXTENDS QuotesStream

CONSTANTS a, b, c1

TwoSymbols == {a, b}
OneClient == {c1}

=============================================================================
