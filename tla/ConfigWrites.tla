---------------------------- MODULE ConfigWrites ----------------------------
(***************************************************************************)
(* The settings row of the monitor.  POST /config/ib reads it, fills the   *)
(* fields the caller omitted from what it read, and writes all three; POST *)
(* /config/active-strategy writes only what it was sent.  Requests run on  *)
(* threads, and nothing holds the row between a read and a write.          *)
(***************************************************************************)
EXTENDS Integers

CONSTANTS
    Requests,
    IbFields,       \* ib_host_account_id, stream_host_.., stream_secondary_..
    ActiveFields,   \* the three active_* ids
    Values, Cleared,
    ReadsFail       \* get_ib_config may answer nothing

ASSUME FieldsAssumption == IbFields \cap ActiveFields = {} /\ Cleared \notin Values
ASSUME ReadsFailAssumption == ReadsFail \in BOOLEAN

VARIABLES
    settings,
    pc,
    sent, body,     \* model_fields_set, and the values of those fields
    current,        \* what the request read before it wrote
    answer,         \* the row it shows its caller
    stale           \* history: the row was written, or unread, since its last step

vars == <<settings, pc, sent, body, current, answer, stale>>

Setting == Values \cup {Cleared}
Fields == IbFields \cup ActiveFields
NoRow == [f \in IbFields |-> Cleared]
Row == [f \in IbFields |-> settings[f]]

Init ==
    /\ settings \in [Fields -> Setting]
    /\ pc = [r \in Requests |-> "idle"]
    /\ sent = [r \in Requests |-> {}]
    /\ body = [r \in Requests |-> [f \in Fields |-> Cleared]]
    /\ current = [r \in Requests |-> NoRow]
    /\ answer = [r \in Requests |-> NoRow]
    /\ stale = [r \in Requests |-> FALSE]

\* An empty body is refused by active-strategy, and changes nothing.
Arrive(r, fields) ==
    /\ pc[r] = "idle"
    /\ \E s \in SUBSET fields : sent' = [sent EXCEPT ![r] = s]
    /\ \E b \in [sent'[r] -> Setting] :
        body' = [body EXCEPT ![r] = [f \in Fields |-> IF f \in sent'[r] THEN b[f] ELSE Cleared]]
    /\ pc' = [pc EXCEPT ![r] = IF fields = IbFields THEN "read" ELSE "active"]
    /\ UNCHANGED <<settings, current, answer, stale>>

\* reader.get_ib_config() or {}
Read(r) ==
    /\ pc[r] = "read"
    /\ pc' = [pc EXCEPT ![r] = "write"]
    /\ \/ current' = [current EXCEPT ![r] = Row] /\ stale' = [stale EXCEPT ![r] = FALSE]
       \/ ReadsFail /\ current' = [current EXCEPT ![r] = NoRow]
                    /\ stale' = [stale EXCEPT ![r] = TRUE]
    /\ UNCHANGED <<settings, sent, body, answer>>

\* Mutant: an omitted field is read from the body, where it is null.
FilledFromBody(r, f) == body[r][f]

\* Mutant: null is taken for an omitted field.
FilledUnlessNull(r, f) == IF body[r][f] # Cleared THEN body[r][f] ELSE current[r][f]

\* _optional_account_field, for each of the three
Filled(r, f) == IF f \in sent[r] THEN body[r][f] ELSE current[r][f]

WriteIb(r) ==
    /\ pc[r] = "write"
    /\ pc' = [pc EXCEPT ![r] = "reread"]
    /\ settings' = [f \in Fields |-> IF f \in IbFields THEN Filled(r, f) ELSE settings[f]]
    /\ stale' = [q \in Requests |-> q # r]
    /\ UNCHANGED <<sent, body, current, answer>>

\* The answer is read once more, after the write.
Reread(r) ==
    /\ pc[r] = "reread"
    /\ pc' = [pc EXCEPT ![r] = "answered"]
    /\ \/ answer' = [answer EXCEPT ![r] = Row] /\ UNCHANGED stale
       \/ ReadsFail /\ answer' = [answer EXCEPT ![r] = NoRow]
                    /\ stale' = [stale EXCEPT ![r] = TRUE]
    /\ UNCHANGED <<settings, sent, body, current>>

\* write_active_strategy_and_gates(only=sent)
WriteActive(r) ==
    /\ pc[r] = "active" /\ sent[r] # {}
    /\ pc' = [pc EXCEPT ![r] = "answered"]
    /\ settings' = [f \in Fields |-> IF f \in sent[r] THEN body[r][f] ELSE settings[f]]
    /\ UNCHANGED <<sent, body, current, answer, stale>>

\* 400, 409, 500, or the answer received.
Done(r) ==
    /\ pc[r] \in {"write", "active", "answered"}
    /\ pc' = [pc EXCEPT ![r] = "idle"]
    /\ sent' = [sent EXCEPT ![r] = {}]
    /\ body' = [body EXCEPT ![r] = [f \in Fields |-> Cleared]]
    /\ current' = [current EXCEPT ![r] = NoRow]
    /\ answer' = [answer EXCEPT ![r] = NoRow]
    /\ stale' = [stale EXCEPT ![r] = FALSE]
    /\ UNCHANGED settings

Next == \E r \in Requests :
    \/ Arrive(r, IbFields) \/ Read(r) \/ WriteIb(r) \/ Reread(r)
    \/ Arrive(r, ActiveFields) \/ WriteActive(r) \/ Done(r)

Spec == Init /\ [][Next]_vars

-----------------------------------------------------------------------------
TypeOK ==
    /\ settings \in [Fields -> Setting]
    /\ pc \in [Requests -> {"idle", "read", "write", "reread", "active", "answered"}]
    /\ sent \in [Requests -> SUBSET Fields]
    /\ body \in [Requests -> [Fields -> Setting]]
    /\ current \in [Requests -> [IbFields -> Setting]]
    /\ answer \in [Requests -> [IbFields -> Setting]]
    /\ stale \in [Requests -> BOOLEAN]

\* A field the caller of POST /config/ib omitted changes under its write only
\* if another request wrote the row since this one read it, or it could not
\* read it; POST /config/active-strategy never makes it change.
OmittedKept ==
    [][\A r \in Requests, f \in IbFields :
        (pc[r] = "write" /\ pc'[r] = "reread" /\ f \notin sent[r] /\ settings'[f] # settings[f])
            => stale[r]]_vars

\* The row a caller of POST /config/ib is shown has what it sent, unless the
\* row was written again or could not be read after its own write.
AnswerShowsWrite ==
    \A r \in Requests : pc[r] = "answered" =>
        \/ stale[r]
        \/ \A f \in sent[r] \cap IbFields : answer[r][f] = body[r][f]

=============================================================================
