------------------------------- MODULE MCTools -------------------------------
(***************************************************************************)
(* Bounded instances for TLC of the components that keep their state in    *)
(* one extension of the document, or beside it.  They share no state, so a *)
(* behaviour is one of them alone: the part chosen at the start, with the  *)
(* others at rest.                                                         *)
(***************************************************************************)
EXTENDS ChartRead, ChartEdits, Watchlists, ChartSources, CustomStudies, PanelViews,
        FilterDrafts, TLC

-----------------------------------------------------------------------------
\* ChartRead: a market with no gap, one with a missing time, and a thin one.
MCWidths == <<1, 2, 3>>
MCRanges == {Window(0, MaxTime), Window(1, MaxTime - 2)}
MCMarkets == {Times, Times \ {2}, {0, 3, 5}}

\* Watchlists: a match, one that is none, and one named twice.
MCRunMatches == "r1" :> <<"a">>
MCSelections == {<<>>, <<"b", "a">>, <<"b", "b">>}

\* ChartSources: an instrument with more history than another.
MCDefaultChart == [timeframe |-> "1d", range |-> "1y", scale |-> "linear", session |-> "regular",
                   priceAdjustment |-> "adjusted"]
MCAvailability == "a" :> {"1y", "5y"} @@ "b" :> {"1y"}
MCReferences == {[instrument |-> "a"], [instrument |-> "a", range |-> "5y", comparisons |-> <<"b">>],
                 [instrument |-> "b", range |-> "5y"]}
MCPatch(set, remove, add) == [set |-> set, remove |-> remove, add |-> add]
MCPatches == {MCPatch([range |-> "1y"], <<>>, <<>>), MCPatch([instrument |-> "a"], <<"b">>, <<"b">>)}
MCViewPatches == {[scale |-> "linear", priceAdjustment |-> "raw"]}

\* CapturedSetups: a chart with more conditions than a draft takes, and one
\* of a study that no filter knows.
MCStudy(item, on) == [item |-> item, enabled |-> on]
MCChart(instrument, timeframe, studies, annotations) ==
  [instrument |-> instrument, timeframe |-> timeframe, studies |-> studies, annotations |-> annotations]
MCChartStates == {
  MCChart(NoTicker, "1d", <<>>, <<>>),
  MCChart("a", "1d", <<MCStudy("sma", TRUE), MCStudy("rsi", FALSE), MCStudy("flow", TRUE)>>, <<NoPrice, 5>>),
  MCChart("b", "1w", <<MCStudy("odd", TRUE)>>, <<>>)}
MCBars == "a" :> {2, 3, 5} @@ "b" :> {1, 2}
MCHandMade == {<<"range", 9>>}

-----------------------------------------------------------------------------
\* CustomStudies: expressions over two series, a string, two studies of the
\* catalog - one whose length has no upper end - and what earlier calls stored.
One(node) == <<>> :> node
Lit(type, n) == One([kind |-> "literal", value |-> Val(type, n)])
Ref(id) == One([kind |-> "field_ref", id |-> id])
Call(id, args) == One([kind |-> "function_call", id |-> id, args |-> args, outputName |-> "none"])
Under(side, expression) == {<<side>> \o path : path \in DOMAIN expression}
Bin(kind, op, left, right) ==
  [path \in {<<>>} \union Under("left", left) \union Under("right", right) |->
     IF path = <<>> THEN [kind |-> kind, op |-> op]
     ELSE IF Head(path) = "left" THEN left[Tail(path)] ELSE right[Tail(path)]]
Close == Ref(<<"close", 0>>)
Volume == Ref(<<"volume", 0>>)
FirstField == Ref(<<"field", 1>>)
Sma(args) == Call(<<"sma", 0>>, args)
Macd == Call(<<"macd", 0>>, <<>>)
Length == [type |-> "number", unit |-> "bars", default |-> Val("number", 2),
           required |-> FALSE, range |-> [min |-> 1, max |-> 3]]
MCBuiltin ==
  <<"close", 0>> :> [kind |-> "field", type |-> "number", unit |-> "currency"]
  @@ <<"volume", 0>> :> [kind |-> "field", type |-> "number", unit |-> "shares"]
  @@ <<"sector", 0>> :> [kind |-> "field", type |-> "string", unit |-> "none"]
  @@ <<"sma", 0>> :> [kind |-> "study", parameters |-> [length |-> Length],
                      outputs |-> [value |-> [type |-> "number", unit |-> "currency"]]]
  @@ <<"macd", 0>> :> [kind |-> "study", parameters |-> [length |-> [Length EXCEPT !.range.max = 9]],
                       outputs |-> [value |-> [type |-> "number", unit |-> "currency"]]]
MCRaws == {
  Bin("arithmetic", "/", Close, Volume),
  Bin("comparison", ">", FirstField, Close),
  Bin("comparison", "==", FirstField, Lit("boolean", 1)),
  Bin("arithmetic", "+", FirstField, Lit("string", 1)),
  Bin("arithmetic", "-", Close, Volume),
  Bin("arithmetic", "-", Macd, Sma([length |-> Val("number", 3)])),
  Ref(<<"sector", 0>>),
  Bin("arithmetic", "*", Bin("arithmetic", "+", Close, FirstField),
      Call(<<"study", 1>>, [fast |-> Val("number", 2)])),
  Bin("comparison", "==", Bin("arithmetic", "*", Bin("arithmetic", "+", Close, FirstField), Close), Close)}
Span(min, max) == [min |-> min, max |-> max]
Binding(path, range) == [path |-> path, argName |-> "length", range |-> range]
MCDeclarations == {
  <<>>,
  [fast |-> Binding(<<"left">>, NoRange)],
  [fast |-> Binding(<<"left">>, Span(1, 2)), slow |-> Binding(<<"right">>, Span(2, 4))],
  [fast |-> Binding(<<"left">>, Span(1, 2)), slow |-> Binding(<<"right">>, Span(2, 3))],
  [fast |-> Binding(<<"left">>, Span(3, 3)), also |-> Binding(<<"left">>, NoRange)],
  [deep |-> [path |-> <<"right">>, argName |-> "fast", range |-> Span(2, 2)]]}

\* What previews are sent as validated: as a field, an item that is not there;
\* as a study, one whose parameter has no place in its expression.
MCClaims == {
  [node |-> Ref(<<"gone", 0>>), type |-> "boolean", unit |-> "none",
   parameters |-> [fast |-> Binding(<<"left">>, NoRange)], catalogParameters |-> [fast |-> Length]]}

-----------------------------------------------------------------------------
\* PanelViews: the registrations of the shipped page, placeholders first.
MCKinds == [
  results_table |-> [renderer |-> "table", contract |-> "table", fields |-> {}],
  chart |-> [renderer |-> "chart_grid", contract |-> "chart_grid", fields |-> {}],
  watchlist |-> [renderer |-> NoName, contract |-> NoName, fields |-> {"sortBy"}]]
Contract(real, accepts, fields) == [real |-> real, accepts |-> accepts, fields |-> fields]
Lists == {"screener_results", "watchlist"}
TableFields == {"columns", "computed_columns", "sort", "grouping", "formatting_rules",
                "page_size", "chart_panel_id"}
MCRegistrations == [
  table |-> {Contract(FALSE, Lists, {"columns", "sortBy"}),
             Contract(TRUE, {"screener_results"}, TableFields)},
  chart_grid |-> {Contract(FALSE, Lists, {"rows", "columns"}),
                  Contract(TRUE, {"instrument"}, {"scale"})},
  heatmap |-> {Contract(FALSE, Lists, {"metric"})}]
Field(id) == [source |-> "catalog_field", id |-> id]
Computed(id) == [source |-> "computed_column", id |-> id]
Column(id, identity) == [id |-> id, identity |-> identity]
Formula(id, reads) == [id |-> id, reads |-> reads]
MCViewRequests == {
  << >>,
  [columns |-> <<Column("k1", Field("close")), Column("k2", Computed("f1"))>>],
  [columns |-> <<Column("k1", Field("sector"))>>],
  [computed_columns |-> <<Formula("f1", {"close"})>>],
  [computed_columns |-> <<Formula("f1", {"sector"})>>],
  [computed_columns |-> <<>>],
  [computed_columns |-> <<Formula("f1", {"close"})>>, columns |-> <<Column("k2", Computed("f1"))>>],
  [formatting_rules |-> <<[id |-> "r1", column |-> "k2"]>>],
  [formatting_rules |-> <<>>],
  [sort |-> [key |-> Computed("f1"), tie_break |-> Null]],
  [sort |-> [key |-> Field("close"), tie_break |-> Field("gone")]],
  [grouping |-> Field("sector")], [grouping |-> Computed("f1")],
  [page_size |-> 3], [page_size |-> 2], [scale |-> "log"], [sortBy |-> "x"], [metric |-> "close"]}

-----------------------------------------------------------------------------
\* What a field or a study is called makes no difference.
NamesAlike == Permutations(ItemNames)

VARIABLE part

toolsVars == <<part, readVars, editVars, watchlistVars, sourceVars, customVars, viewVars, setupVars>>

ReadAtRest ==
  /\ market = {0, 3, 5} /\ config = [timeframe |-> 1, range |-> Window(0, MaxTime)]
  /\ call = Idle /\ answer = NoAnswer
SetupsAtRest ==
  /\ lab = [panel |-> FALSE, setups |-> Empty, drafts |-> Empty]
  /\ labBefore = NoLab /\ mintedIds = [behind |-> FALSE] /\ capture = NoCapture

ToolsInit ==
  /\ part \in {"read", "edit", "watchlists", "sources", "custom", "views", "setups"}
  /\ IF part = "read" THEN ReadInit ELSE ReadAtRest
  /\ IF part = "setups" THEN SetupsInit ELSE SetupsAtRest
  /\ EditInit /\ WatchlistsInit /\ SourcesInit /\ CustomInit /\ ViewsInit

ToolsNext ==
  /\ UNCHANGED part
  /\ \/ /\ part = "read" /\ ReadNext
        /\ UNCHANGED <<editVars, watchlistVars, sourceVars, customVars, viewVars, setupVars>>
     \/ /\ part = "edit" /\ EditNext
        /\ UNCHANGED <<readVars, watchlistVars, sourceVars, customVars, viewVars, setupVars>>
     \/ /\ part = "watchlists" /\ WatchlistsNext
        /\ UNCHANGED <<readVars, editVars, sourceVars, customVars, viewVars, setupVars>>
     \/ /\ part = "sources" /\ SourcesNext
        /\ UNCHANGED <<readVars, editVars, watchlistVars, customVars, viewVars, setupVars>>
     \/ /\ part = "custom" /\ CustomNext
        /\ UNCHANGED <<readVars, editVars, watchlistVars, sourceVars, viewVars, setupVars>>
     \/ /\ part = "views" /\ ViewsNext
        /\ UNCHANGED <<readVars, editVars, watchlistVars, sourceVars, customVars, setupVars>>
     \/ /\ part = "setups" /\ SetupsNext
        /\ UNCHANGED <<readVars, editVars, watchlistVars, sourceVars, customVars, viewVars>>

ToolsSpec == ToolsInit /\ [][ToolsNext]_toolsVars
=============================================================================
