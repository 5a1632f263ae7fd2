----------------------------- MODULE MergedDocs -----------------------------
(***************************************************************************)
(* GET /research/docs/openapi.json: the monitor fetches its own OpenAPI    *)
(* document and those of the research, account and market services, one    *)
(* after another, and merges what it got.  A service may be down, or       *)
(* another release than the one before, at each fetch.                     *)
(*                                                                         *)
(* A document is what merging tells apart: for each path and for each      *)
(* component the names of the components it refers to.  In the merged one  *)
(* a path also has the service it is of, and a name its prefix.            *)
(***************************************************************************)
EXTENDS Integers, Sequences, Functions

CONSTANTS Documents     \* what each service may answer

\* A document FastAPI makes of its routes has every component they refer to.
ASSUME DocumentsAssumption ==
    \A d \in Documents : \A p \in DOMAIN d.paths : d.paths[p] \subseteq DOMAIN d.components

VARIABLES
    fetching,       \* the services still to be asked, the next one first
    fetched,        \* history: what each service that answered said
    merged,
    unreachable,    \* x-bifrost-unreachable
    code            \* of the answer, 0 until there is one

docsVars == <<fetching, fetched, merged, unreachable, code>>

\* The monitor, and what _state["secondaries"] has.
Order == <<"Main", "Research", "Account", "Market">>
Secondaries == Tail(Order)
NoDocument == [paths |-> [p \in {} |-> {}], components |-> [n \in {} |-> {}]]
Nobody == [s \in {} |-> NoDocument]

\* f, and what g has besides.
Onto(f, g) == [x \in DOMAIN f \cup DOMAIN g |-> IF x \in DOMAIN f THEN f[x] ELSE g[x]]

DocsInit ==
    /\ fetching = Order /\ fetched = Nobody
    /\ merged = NoDocument /\ unreachable = {} /\ code = 0

\* Names as the main document writes them, and as a secondary's are prefixed.
Prefix(s) == IF s = "Main" THEN "" ELSE s
Plain(names) == {<<"", n>> : n \in names}
Prefixed(s, names) == {<<s, n>> : n \in names}

\* Mutant: the references of the paths stay as they are.
RefsLeft(s, document, refs) == Plain(refs)
\* _apply_ref_map: a name of the document's own is prefixed.
Refs(s, document, refs) ==
    Prefixed(s, refs \cap DOMAIN document.components) \cup Plain(refs \ DOMAIN document.components)

MainDocument(d) ==
    [paths |-> [p \in DOMAIN d.paths |-> [of |-> "Main", refs |-> Plain(d.paths[p])]],
     components |-> [n \in Plain(DOMAIN d.components) |-> Plain(d.components[n[2]])]]

\* merge_openapi_specs.  A path that is there already stays; the references
\* within a component are not touched.
Merge(m, s, d) ==
    [paths |-> Onto(m.paths, [p \in DOMAIN d.paths |-> [of |-> s, refs |-> Refs(s, d, d.paths[p])]]),
     components |-> Onto([n \in Prefixed(s, DOMAIN d.components) |-> Plain(d.components[n[2]])],
                         m.components)]

\* A request is answered once the last service has been asked.
Asked(s) ==
    /\ fetching # << >> /\ s = Head(fetching)
    /\ fetching' = Tail(fetching)
    /\ code' = IF Len(fetching) = 1 THEN 200 ELSE 0

Heard(s, d) == fetched' = Onto(fetched, [t \in {s} |-> d])

FetchMain(d) ==
    /\ Asked("Main") /\ Heard("Main", d)
    /\ merged' = MainDocument(d) /\ UNCHANGED unreachable

\* Without the monitor's own document there is nothing to merge into.
MainDown ==
    /\ fetching # << >> /\ Head(fetching) = "Main"
    /\ fetching' = << >> /\ code' = 502 /\ UNCHANGED <<fetched, merged, unreachable>>

FetchOther(s, d) ==
    /\ Asked(s) /\ Heard(s, d)
    /\ merged' = Merge(merged, s, d) /\ UNCHANGED unreachable

\* What did not answer is named, and the others are served.
Down(s) ==
    /\ Asked(s)
    /\ unreachable' = unreachable \cup {s} /\ UNCHANGED <<fetched, merged>>

LeaveDocs ==
    /\ code # 0 /\ code' = 0 /\ fetching' = Order
    /\ fetched' = Nobody /\ merged' = NoDocument /\ unreachable' = {}

DocsNext ==
    \/ MainDown \/ LeaveDocs \/ \E d \in Documents : FetchMain(d)
    \/ \E i \in DOMAIN Secondaries : \E d \in Documents : FetchOther(Secondaries[i], d) \/ Down(Secondaries[i])

DocsSpec == DocsInit /\ [][DocsNext]_docsVars

-----------------------------------------------------------------------------
\* The merged document holds every path of every service that answered, as the
\* first of them has it; what such a path refers to is there and is a component
\* of its own service, whatever the others call theirs.  Every other service is
\* named as unreachable (_merged_openapi_response; what the components refer to
\* among themselves is left out, for merge_openapi_specs does not rewrite that).
DocumentWhole ==
    code = 200 =>
        /\ unreachable = Range(Secondaries) \ DOMAIN fetched
        /\ DOMAIN merged.paths = UNION {DOMAIN fetched[s].paths : s \in DOMAIN fetched}
        /\ \A p \in DOMAIN merged.paths :
            LET of == merged.paths[p].of IN
            /\ \A i, j \in DOMAIN Order :
                Order[i] \in DOMAIN fetched /\ p \in DOMAIN fetched[Order[i]].paths /\ of = Order[j] => j <= i
            /\ merged.paths[p].refs = {<<Prefix(of), n>> : n \in fetched[of].paths[p]}
            /\ merged.paths[p].refs \subseteq DOMAIN merged.components

=============================================================================
