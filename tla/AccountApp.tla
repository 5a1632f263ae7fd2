---------------------------- MODULE AccountApp ----------------------------
(***************************************************************************)
(* The requests of the account application over one row of one table.      *)
(* A handler looks at the request and at the configuration, makes one call *)
(* of bifrost_core, which is one transaction, and answers; so a request is *)
(* one step.  What can go wrong lies between the steps: what a page read   *)
(* before it sent the row back, and what an answer says of a transaction   *)
(* that failed, or that was committed before it failed.                    *)
(***************************************************************************)
EXTENDS AccountRoutes, Admission, FiniteSets

CONSTANTS
    Callers,
    Values,             \* of a field
    Null, Blank, Wrong  \* JSON null, a blank string, a value of another type

ASSUME ValuesAssumption ==
    /\ {Null, Blank, Wrong} \cap Values = {}
    /\ Null # Blank /\ Null # Wrong /\ Blank # Wrong

Setting == Values \cup {Null, Blank}
Field == {"a", "b", "status"}
Absent == [f \in Field |-> Wrong]
Empty == [f \in Field |-> IF f = "status" THEN "draft" ELSE Null]

VARIABLES
    postgres,   \* the settings of the process have a database
    table, row, \* the table, and the row every request is about
    form,       \* per caller: the row as its page last read it
    last        \* the request answered last: by whom, the handler, the edits, the answer

appVars == <<postgres, table, row, form, last>>

Handlers == Tables[table]
Moves == {"intended", "filled", "cancelled"}
NoBody == << >>
\* A name for each field, the older name the first is still taken under, and one
\* for what no schema takes: an unknown field, a retired one.
Names == {"a", "b", "old", "gone"}
FieldOf(n) == IF n = "old" THEN "a" ELSE n
NoRequest == [by |-> "nobody", handler |-> "", edits |-> NoBody, answer |-> 0]

AppInit ==
    /\ postgres \in BOOLEAN
    /\ table \in DOMAIN Tables /\ row \in {Absent, Empty}
    /\ form = [c \in Callers |-> Absent]
    /\ last = NoRequest

-----------------------------------------------------------------------------
(* Reading the body. *)

\* RetiredFields, extra="forbid", PatchBody: a wrong type, an unknown field and
\* a patch that names nothing are refused.
Parses(h, b) ==
    /\ "gone" \notin DOMAIN b
    /\ \A n \in DOMAIN b : b[n] # Wrong
    /\ h.method = "PATCH" => b # NoBody

\* The presence rules the handlers answer themselves.
Has(h, b) ==
    CASE h.needs = "nothing" -> TRUE
      [] h.needs = "sent" -> "a" \in DOMAIN b
      [] h.needs = "value" -> "a" \in DOMAIN b /\ b["a"] # Null
      [] h.needs = "text" -> "a" \in DOMAIN b /\ b["a"] \notin {Null, Blank}

\* What bifrost_core is handed: the fields sent.  READ_NAMES, payload and
\* state_sent decide between the two names of the first; _post_fields drops
\* blank strings and the null of "b".
Payload(h, b) ==
    LET first == IF "a" \in DOMAIN b /\ (h.alias # "unless_null" \/ b["a"] # Null \/ "old" \notin DOMAIN b)
                 THEN {"a"} ELSE {"old"} \cap DOMAIN b
        kept == {n \in first \cup ({"b"} \cap DOMAIN b) :
                    h.skips => b[n] # Blank /\ (n = "b" => b[n] # Null)}
    IN [f \in {FieldOf(n) : n \in kept} |->
            b[IF f = "a" /\ "a" \notin first THEN "old" ELSE f]]

\* What is answered before bifrost_core is called, in order: the layers, the
\* schema, write_config or write_target, the handler's own rules.
Refusal(h, b, token, old) ==
    LET layers == Admit(h.method, h.path, token, old) IN
    IF layers # 200 THEN layers
    ELSE IF ~Parses(h, b) THEN 422
    ELSE IF h.does \notin {"read", "static"} /\ ~postgres THEN 503
    ELSE IF ~Has(h, b) THEN 400
    ELSE 200

-----------------------------------------------------------------------------
(* What callers send. *)

\* The bodies of a route: nothing, or up to two names, or one that is malformed.
Bodies(h) ==
    LET text == IF h.skips \/ h.needs = "text" THEN Setting ELSE Setting \ {Blank}
        names == IF h.does \in Moves THEN {} ELSE IF h.does = "set" THEN {"a"}
                 ELSE {"a", "b"} \cup (IF h.alias # "none" THEN {"old"} ELSE {})
    IN IF h.body = "none" THEN {NoBody}
       ELSE (UNION {[s -> text] : s \in {s \in SUBSET names : Cardinality(s) <= 2}})
            \cup [{"a"} -> {Wrong}]
            \cup IF h.body = "ours" THEN [{"gone"} -> Values] ELSE {}

\* A page that has read the row sends all of it with its edits to a route that
\* replaces the row.
Sends(c, h, edits) ==
    IF h.does = "replace" /\ form[c] # Absent /\ DOMAIN edits \subseteq {"a", "b"}
    THEN [n \in {"a", "b"} |-> IF n \in DOMAIN edits THEN edits[n] ELSE form[c][n]]
    ELSE edits

Asks(c) ==
    UNION {[by : {c}, handler : {q}, edits : Bodies(Handlers[q])] : q \in DOMAIN Handlers}

H(r) == Handlers[r.handler]
B(r) == Sends(r.by, H(r), r.edits)
Answer(r, code) ==
    last' = [by |-> r.by, handler |-> r.handler, edits |-> r.edits, answer |-> code]
\* What may be answered before the call, by whoever sends the request; 200 for nothing.
Refusals(r) == {Refusal(H(r), B(r), token, old) : token \in Tokens, old \in BOOLEAN}
Served(r) == 200 \in Refusals(r)

Refused(r) ==
    /\ \E code \in Refusals(r) \ {200} : Answer(r, code)
    /\ UNCHANGED <<postgres, table, row, form>>

-----------------------------------------------------------------------------
(* The call of bifrost_core, and the answer made of what it came back with. *)

\* Mutant: the fields the client did not send are written as the nulls of the model.
OverModel(given, base) ==
    [f \in Field |-> IF f \in DOMAIN given THEN given[f] ELSE IF f = "status" THEN base[f] ELSE Null]

Over(given, base) == [f \in Field |-> IF f \in DOMAIN given THEN given[f] ELSE base[f]]

\* The row once the call is done.  A create that meets the row makes another one.
Written(h, given) ==
    CASE h.does = "patch" -> Over(given, row)
      [] h.does = "upsert" -> Over(given, IF row = Absent THEN Empty ELSE row)
      [] h.does \in {"put", "replace"} -> Over(given, Empty)
      [] h.does = "set" -> Over([f \in {"a"} |-> IF f \in DOMAIN given THEN given[f] ELSE Null], row)
      [] h.does = "create" -> IF row = Absent THEN Over(given, Empty) ELSE row
      [] h.does = "delete" -> Absent
      [] OTHER -> [row EXCEPT !["status"] = h.does]

\* The writers that need the row to be there.
OfARow(h) == h.does \in Moves \cup {"patch", "set", "replace", "delete"}
CanBeDone(h) == OfARow(h) => row # Absent

\* What a call that is done answers: 500 where the row does not fit the response
\* model, which is looked at after the transaction.
Success(h) == IF h.typed THEN {200, 500} ELSE {200}

\* What any other outcome answers; of a fill with splits, always a refusal.
Says(r, outcome) ==
    IF H(r).splits /\ "b" \in DOMAIN B(r) /\ B(r)["b"] # Null THEN 400 ELSE H(r).says[outcome]

Reads(r) == H(r).does \in {"read", "static"} /\ UNCHANGED <<postgres, table, row>>
Writes(r) == H(r).does \notin {"read", "static"} /\ UNCHANGED <<postgres, table, form>>

\* A reader finds the row.
Found(r) ==
    /\ Reads(r) /\ H(r).does = "read" /\ postgres /\ row # Absent
    /\ \E code \in Success(H(r)) :
        /\ Answer(r, code)
        /\ form' = IF code = 200 THEN [form EXCEPT ![r.by] = row] ELSE form

\* There is no row, the arguments are refused, or the database could not be
\* read; a reader that was given no database says what it can.
NotFound(r) ==
    /\ Reads(r)
    /\ \E o \in DOMAIN H(r).says :
        /\ o \in {"none", "missing"} /\ postgres /\ H(r).does = "read" => row = Absent
        /\ Answer(r, H(r).says[o])
    /\ UNCHANGED form

Done(r) ==
    /\ Writes(r) /\ CanBeDone(H(r))
    /\ row' = Written(H(r), Payload(H(r), B(r)))
    /\ \E code \in Success(H(r)) : Answer(r, code)

\* The row is not there, or a rule of bifrost_core says no.
Denies(r) ==
    /\ Writes(r) /\ UNCHANGED row
    /\ \E o \in DOMAIN H(r).says \ Failures :
        /\ o = "missing" => row = Absent
        /\ Answer(r, Says(r, o))

\* A statement, the connection or the read-back fails; the commit may have been made.
Fails(r) ==
    /\ Writes(r)
    /\ \/ UNCHANGED row
       \/ CanBeDone(H(r)) /\ row' = Written(H(r), Payload(H(r), B(r)))
    /\ \E o \in Failures \cap DOMAIN H(r).says : Answer(r, Says(r, o))

AppNext ==
    \E c \in Callers : \E r \in Asks(c) :
        \/ Refused(r)
        \/ Served(r) /\ (Found(r) \/ NotFound(r) \/ Done(r) \/ Denies(r) \/ Fails(r))

AppSpec == AppInit /\ [][AppNext]_appVars

-----------------------------------------------------------------------------
\* Routes that cannot tell a failed statement from a row that is not there, or
\* from splits that were refused (update_structure, update_one_execution, ...).
Blurred == {"update_structure_endpoint", "update_gate_safety_endpoint", "put_execution", "post_execution"}

\* The values a body has for a field, under either name.
Sent(b, f) == {b[n] : n \in {m \in DOMAIN b : FieldOf(m) = f}}

\* A request answered ok has written what it sent (write_errors.py), under the
\* read name where both names had a value, but for what the watchlist takes as
\* not sent; one that was refused has written nothing, unless its route blurs
\* failures.  A 500 or a 503 leaves open whether the row has changed.
AnswerMatchesRow ==
    [][LET b == Sends(last'.by, H(last'), last'.edits)
            does == H(last').does
        IN
        /\ /\ last'.answer = 200 /\ does \notin {"read", "static", "delete"}
           /\ does = "create" => row = Absent
           => \A f \in {"a", "b"} :
                /\ Sent(b, f) = {} \/ row'[f] \in Sent(b, f) \/ H(last').skips
                /\ "a" \in DOMAIN b /\ b["a"] \in Values => row'["a"] = b["a"]
        /\ last'.answer \in 400 .. 499 /\ last'.handler \notin Blurred => row' = row]_appVars

\* A field of a row that stays changes only under a request that meant to change
\* it, a PUT that leaves it out, or a move of a plan; but for a page that saves
\* the whole of a structure or a gate set, which puts back what it did not edit
\* if another request has changed the row since the page read it.
OthersKept ==
    [][\A f \in Field : row' # Absent /\ row # Absent /\ row'[f] # row[f] =>
        LET does == H(last').does
            seen == form[last'.by]
        IN
        \/ \E n \in DOMAIN last'.edits : FieldOf(n) = f
        \/ row'[f] = Null /\ (does \in {"put", "set"} \/ (does = "replace" /\ seen = Absent))
        \/ does = "replace" /\ seen \notin {Absent, row}
        \/ f = "status" /\ does \in Moves]_appVars

\* An answer that shows no row is given only when there is none: a read that
\* failed is told as 503 or 500 (TD-08, account/app.py), but for transactions
\* asked for with a limit below one.
OutagesTold ==
    [][postgres /\ last'.answer \in {200, 404} /\ H(last').does = "read" =>
            \/ row = Absent \/ form'[last'.by] = row
            \/ last'.handler = "get_transactions_unlimited"]_appVars

=============================================================================
