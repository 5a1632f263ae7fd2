--------------------------- MODULE DurableCursor ---------------------------
(***************************************************************************)
(* What the message center promises of the Redis stream, whoever reads it: *)
(* an event is listed only after it was published, and the persisted       *)
(* cursor stands only where everything before it has been dealt with.  The *)
(* cursor may go back (a slower reader persists later); it never covers an *)
(* event that was lost.                                                    *)
(***************************************************************************)
EXTENDS Naturals

CONSTANTS Skipped    \* events that are not messages

VARIABLES
    published,   \* events in the stream: 1 .. published
    items,       \* events materialized for GET /api/messages
    cursor       \* consumer_last_id of the monitor

dvars == <<published, items, cursor>>

Covered(n) == \A e \in 1 .. n : e \in items \/ e \in Skipped

DInit == published = 0 /\ items = {} /\ cursor = 0

DPublish == published' = published + 1 /\ UNCHANGED <<items, cursor>>

Materialized == \E e \in (1 .. published) \ Skipped :
                    items' = items \cup {e} /\ UNCHANGED <<published, cursor>>

Commit == \E n \in 0 .. published :
              Covered(n) /\ cursor' = n /\ UNCHANGED <<published, items>>

DNext == DPublish \/ Materialized \/ Commit

DSpec == DInit /\ [][DNext]_dvars

=============================================================================
