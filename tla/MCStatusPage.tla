---------------------------- MODULE MCStatusPage ----------------------------
(***************************************************************************)
(* Two kinds of behaviours.  In one, two requests write the settings row:  *)
(* two fields of POST /config/ib and one of POST /config/active-strategy,  *)
(* with one value besides "cleared", enough for a read of the one to       *)
(* straddle the write of the other and for an omitted field to differ from *)
(* a sent one.  In the other, GET /status puts a page together while one   *)
(* request after another writes the active strategy.                       *)
(***************************************************************************)
EXTENDS StatusPage

CONSTANTS r1, r2, host, stream, structure, v, null, n1, n2, noName

TwoRequests == {r1, r2}
TwoIbFields == {host, stream}
OneActiveField == {structure}
OneValue == {v}
TwoNames == {n1, n2}

VARIABLE pages  \* bound: whether the behaviour is one with pages

MCInit ==
    /\ Init
    /\ \/ pages = TRUE /\ PageInit /\ \A f \in IbFields : settings[f] = Cleared
       \/ /\ pages = FALSE
          /\ name = [i \in Id |-> NoName] /\ beat = "none" /\ gateway = "none"
          /\ phase = "idle" /\ shown = Blank /\ had = [i \in Id |-> {}]

MCNext ==
    \/ pages = FALSE /\ Next /\ UNCHANGED <<pages, pageVars>>
    \/ pages = TRUE /\ PageStep /\ UNCHANGED <<pages, vars>>
    \/ /\ pages = TRUE /\ (Arrive(r1, ActiveFields) \/ WriteActive(r1) \/ Done(r1))
       /\ UNCHANGED <<pages, pageVars>>

MCSpec == MCInit /\ [][MCNext]_<<vars, pageVars, pages>>

=============================================================================
