--------------------------- MODULE AccountRoutes ---------------------------
(***************************************************************************)
(* The routes of the account application (strategy, trades, gate sets,     *)
(* searches, portfolio, executions) and of the watchlist, as data: what    *)
(* each does to the row it is about, how it reads its body, and what it    *)
(* answers for what bifrost_core told it.  The names are the handlers'.    *)
(***************************************************************************)
EXTENDS Naturals, Sequences

\* What a writer or a reader of bifrost_core can come back with besides "done":
\* "down" is a database it cannot reach, "broken" a statement that failed.
Failures == {"down", "broken"}

\* Mutant: a failed statement is told like a row that is not there.
StrictBlurred == [missing |-> 404, conflict |-> 409, invalid |-> 400, down |-> 503, broken |-> 404]
\* write_error_status: the outcomes the strict writers raise.
Strict == [missing |-> 404, conflict |-> 409, invalid |-> 400, down |-> 503, broken |-> 500]

\* Mutant: a reader that could not read has no rows.
UnreadableIsEmpty == 200
\* ReadFailed, wherever a route lets it through.
Unreadable == 503

\* A handler: what it does to the row, and what it answers for each outcome of
\* its call besides "done".
Handler(does, says) ==
    [method |-> "POST", path |-> "", body |-> "none", needs |-> "nothing", alias |-> "none",
     skips |-> FALSE, splits |-> FALSE, typed |-> FALSE, does |-> does, says |-> says]

Reader(none) == Handler("read", [none |-> none, down |-> Unreadable, broken |-> Unreadable])
List == Reader(200)
One == Reader(404)
\* Nothing is read.
Static == Handler("static", [none |-> 200])
\* A reader called under except Exception.
Caught(none) == Handler("read", [none |-> none, down |-> 500, broken |-> 500])
\* A list whose arguments may be refused, by the route or by the reader.
Ranged ==
    Handler("read", [none |-> 200, invalid |-> 400, down |-> Unreadable, broken |-> Unreadable])

Get(handler) == [handler EXCEPT !.method = "GET"]
At(handler, path) == [handler EXCEPT !.method = "GET", !.path = path]
\* The answer passes a response model.
Typed(handler) == [handler EXCEPT !.typed = TRUE]
Needs(handler, what) == [handler EXCEPT !.needs = what]
\* An older name is taken for the first field.
Aliased(handler, when) == [handler EXCEPT !.alias = when]
Skipping(handler) == [handler EXCEPT !.skips = TRUE]
Splitting(handler) == [handler EXCEPT !.splits = TRUE]

Edit(does) == [Handler(does, Strict) EXCEPT !.method = "PATCH", !.body = "ours"]
Patch == Edit("patch")
Delete == [Handler("delete", Strict) EXCEPT !.method = "DELETE"]
Post(does, says) == [Handler(does, says) EXCEPT !.body = "ours"]
Put(does, says) == [Handler(does, says) EXCEPT !.body = "ours", !.method = "PUT"]
\* The body is one of bifrost_core's models.
PostCore(does, says) == [Handler(does, says) EXCEPT !.body = "core"]

\* A writer that raises ValueError for bad input, and None or an exception for the rest.
Plain == [invalid |-> 400, down |-> 500, broken |-> 500]
Create == Post("create", Plain)

-----------------------------------------------------------------------------
Templates ==
    [list_dims_grouped_endpoint |-> Get(Static),
     list_templates_endpoint |-> Get(List),
     get_template_detail_endpoint |-> Get(One),
     create_template_endpoint |-> Create,
     patch_template_endpoint |-> Patch,
     delete_template_endpoint |-> Delete,
     \* Each of these sets one list of the template; the last empties it unless sent.
     replace_template_legs_endpoint |-> Needs(Put("set", Plain), "value"),
     replace_template_params_endpoint |-> Needs(Put("set", Plain), "value"),
     replace_template_characteristics_endpoint |-> Put("set", Plain)]

\* False for a row that is not there and for a statement that failed.
OneNo == [invalid |-> 400, missing |-> 404, down |-> 404, broken |-> 404]

Structures ==
    [list_structures |-> Get(List),
     get_structure |-> Get(One),
     create_structure_endpoint |-> Create,
     update_structure_endpoint |-> Put("replace", OneNo),
     patch_structure_endpoint |-> Patch]

\* Every WriteError is let through to write_error_status; None is a 500.
OrRaised == [missing |-> 404, conflict |-> 409, invalid |-> 400, nothing |-> 500, down |-> 503, broken |-> 500]

Opportunities ==
    [list_opportunities |-> Typed(Get(List)),
     get_opportunity |-> Typed(Get(One)),
     create_opportunity_endpoint |-> PostCore("create", OrRaised),
     patch_opportunity_endpoint |-> Typed(Patch),
     delete_opportunity_endpoint |-> Delete]

Allocations ==
    [list_allocations |-> Typed(Get(List)),
     get_allocation |-> Typed(Get(One)),
     create_allocation_endpoint |-> PostCore("create", OrRaised),
     patch_allocation_endpoint |-> Typed(Patch),
     delete_allocation_endpoint |-> Delete]

\* A refusal, an exception, or None: the writer had no database to write to.
OrNothing == [invalid |-> 400, nothing |-> 503, down |-> 500, broken |-> 500]

\* PlanRuleError, and any other exception.
PlanMove == [conflict |-> 409, missing |-> 404, down |-> 500, broken |-> 500]

Plans ==
    [list_plans_endpoint |-> Typed(Get(Caught(200))),
     get_plan_endpoint |-> Typed(Get(Caught(404))),
     create_plan_endpoint |-> Aliased(PostCore("create", OrNothing), "unless_null"),
     patch_plan_endpoint |-> Aliased(Typed(Patch), "always"),
     intend_plan_endpoint |-> Handler("intended", PlanMove),
     link_fill_endpoint |-> PostCore("filled", PlanMove),
     cancel_plan_endpoint |-> Handler("cancelled", PlanMove),
     delete_plan_endpoint |-> Delete]

Trades ==
    [list_trades |-> Typed(At(Ranged, "trades")),
     trade_win_rate |-> At(List, "win-rate"),
     get_trade |-> Typed(Get(One)),
     create_trade |-> Post("create", Strict),
     patch_trade |-> Typed(Patch),
     delete_trade |-> Delete]

\* A patch writes the first review of a trade.
Reviews ==
    [list_trade_reviews_endpoint |-> Get(Caught(200)),
     patch_trade_review |-> Edit("upsert")]

GateSets ==
    [list_gate_safety |-> Typed(Get(List)),
     get_gate_safety_defaults |-> Get(Static),
     get_gate_safety_by_id |-> Typed(Get(One)),
     create_gate_safety_endpoint |-> Needs(Create, "text"),
     update_gate_safety_endpoint |-> Needs(Put("replace", OneNo), "text"),
     patch_gate_safety_endpoint |-> Typed(Patch),
     delete_gate_safety_endpoint |-> Delete]

SavedSearches ==
    [list_saved_searches_endpoint |-> Get(Caught(200)),
     create_saved_search_endpoint |-> Aliased(Post("put", OrNothing), "unless_null"),
     delete_saved_search_endpoint |-> Delete]

-----------------------------------------------------------------------------
Categories ==
    [get_position_categories |-> Get(List),
     post_position_category |-> Post("create", Strict),
     patch_position_category |-> Patch,
     delete_position_category |-> Delete]

\* A tag has one field, and an explicit null clears it.
Tags == [put_position_category_tag |-> Needs(Put("upsert", Strict), "sent")]

SymbolOrders ==
    [get_market_streams_symbol_order |-> Get(List),
     put_market_streams_symbol_order |-> Put("put", Strict)]

InstrumentClasses ==
    [get_instrument_classes |-> Get(List),
     put_instrument_class |-> Put("put", Strict),
     patch_instrument_class |-> Patch,
     delete_instrument_class |-> Delete]

\* None from the first two readers is a database that cannot be reached.
Positions ==
    [get_portfolio_model_analysis |-> Get(List),
     get_short_legs |-> Get(List),
     get_nav_history |-> Get(Ranged),
     get_position_snapshots |-> Get(Ranged),
     get_pnl_attribution |-> Get(Ranged)]

-----------------------------------------------------------------------------
\* _link_error_status sorts the messages of the link readers and writers.
LinkRead ==
    Handler("read", [none |-> 200, missing |-> 404, conflict |-> 409, invalid |-> 400, down |-> 503, broken |-> 500])

LinkQuery == [LinkRead EXCEPT !.path = "option-stock-links/query", !.body = "ours"]

Links ==
    [post_option_stock_links_query |-> Needs(LinkQuery, "value"),
     get_option_stock_links_route |-> Get(LinkRead),
     get_stock_link_candidates_route |-> At(LinkRead, "stock-link-candidates"),
     post_option_stock_links |-> Post("create", Strict),
     delete_option_stock_links_route |-> Delete]

\* None and False say neither that the input was refused nor that the database
\* failed; with splits they are told as a refusal.
AllNone == [invalid |-> 500, down |-> 500, broken |-> 500]
AllFalse == [invalid |-> 404, missing |-> 404, down |-> 404, broken |-> 404]

Fills ==
    [get_position_attribution |-> Get(List),
     post_execution |-> Splitting(Needs(Post("create", AllNone), "value")),
     put_execution |-> Splitting(Put("patch", AllFalse)),
     patch_execution_attribution |-> Patch,
     delete_execution |-> Delete]

Lenient == Handler("read", [none |-> 200, invalid |-> 400, down |-> Unreadable, broken |-> 200])

FillReports ==
    [get_executions_freshness |-> Get(List),
     get_performance |-> At(Ranged, "performance"),
     get_transactions |-> At(Ranged, "transactions"),
     \* The same route with a limit below one, which the reader fails to [].
     get_transactions_unlimited |-> At(Lenient, "transactions")]

Watchlist ==
    [get_watchlist |-> Get(List),
     post_watchlist |-> Skipping(Post("upsert", Strict)),
     patch_watchlist_item |-> Patch,
     delete_watchlist |-> Delete]

-----------------------------------------------------------------------------
\* The table a row is of, and the routes that are about it.
Tables ==
    [templates |-> Templates, structures |-> Structures, opportunities |-> Opportunities,
     allocations |-> Allocations, plans |-> Plans, trades |-> Trades, reviews |-> Reviews,
     gate_sets |-> GateSets, searches |-> SavedSearches, categories |-> Categories, tags |-> Tags,
     orders |-> SymbolOrders, classes |-> InstrumentClasses, book |-> Positions, links |-> Links,
     fills |-> Fills, statements |-> FillReports, watchlist |-> Watchlist]

=============================================================================
