------------------------------- MODULE MCParts -------------------------------
(***************************************************************************)
(* Bounded instances for TLC of the start of the page, of what a screener  *)
(* may say, the answer to it and the pages of the answer, and what the     *)
(* backend computes for them.  They share no state, so a behaviour is one  *)
(* of them alone: the part chosen at the start, with the others at rest.   *)
(***************************************************************************)
EXTENDS PanelMerge, Composition, ScreenerValidation, ScreenerAnswer, ResultsPages, Backtests

-----------------------------------------------------------------------------
\* Composition: one registration of two tools, then one of a single tool.
MCToolGroups == << <<"create_panel", "get_screener_results">>, <<"run_screener">> >>
MCSupplied == <<"extension", "browser">>

\* ScreenerAnswer: a nested "not", a disabled condition, and a "not" of two.
MCGroup(op, on, kids) == [kind |-> "group", enabled |-> on, op |-> op, children |-> kids]
MCLeaf(c, on) == [kind |-> "condition", enabled |-> on, condition |-> c]
MCShapes == {
  MCGroup("or", TRUE, <<MCLeaf("c1", TRUE), MCGroup("not", TRUE, <<MCLeaf("c2", TRUE)>>)>>),
  MCGroup("and", TRUE, <<MCLeaf("c1", TRUE), MCLeaf("c2", FALSE), MCLeaf("c2", TRUE)>>),
  MCGroup("not", TRUE, <<MCLeaf("c1", TRUE), MCLeaf("c2", TRUE)>>)}
MCSeen(c1, c2, f, g) == [facts |-> [c1 |-> c1, c2 |-> c2], values |-> [f |-> f, g |-> g]]
MCMarketData == {
  1 :> MCSeen("yes", "unknown", 2, NoValue) @@ 2 :> MCSeen("no", "yes", 1, 1),
  1 :> MCSeen("yes", "no", 1, 2) @@ 2 :> MCSeen("yes", "yes", NoValue, 2)
    @@ 3 :> MCSeen("unknown", "yes", 3, 2)}
MCField(id, direction, weight) == [fieldId |-> id, direction |-> direction, weight |-> weight]
MCRanking(fields, normalization, tieBreak, limit) ==
  [fields |-> fields, normalization |-> normalization, tieBreak |-> tieBreak, limit |-> limit]
MCBoth == <<MCField("g", "asc", 2), MCField("f", "desc", 1)>>
\* The last ties three instruments, of which one has nothing to break the tie.
MCRankings == {
  MCRanking(MCBoth, "percentile_rank", Untied, 1),
  MCRanking(<<MCField("f", "asc", 1)>>, "min_max", Untied, 2),
  MCRanking(MCBoth, "z_score", [fieldId |-> "f", direction |-> "asc"], 1),
  MCRanking(<<MCField("g", "asc", 1)>>, "z_score", [fieldId |-> "f", direction |-> "desc"], 2)}

\* ScreenerValidation: payloads of every type, those the catalog or the data
\* refuse among them, and a history of one instrument.
Str(s) == <<"string", s>>
Num(n) == <<"number", n>>
MCScalar(field, operator, value) ==
  [type |-> "scalar", fieldId |-> Str(field), operator |-> Str(operator), value |-> value]
MCRange(lower, upper) ==
  [type |-> "range", fieldId |-> Str("field.price.close"), lower |-> Num(lower),
   upper |-> Num(upper), upperInclusive |-> <<"boolean", FALSE>>]
MCTemporal(inner, event, withinBars, interval) ==
  [type |-> "temporal", condition |-> inner, event |-> Str(event), withinBars |-> Num(withinBars),
   intervalId |-> Str(interval)]
MCRelative(baseline) ==
  [type |-> "relative", fieldId |-> Str("field.price.close"), baseline |-> baseline,
   operator |-> Str("op.greater_than")]
MCStudyOutput(study, predicate) ==
  [type |-> "study_output", studyId |-> Str(study), params |-> [length |-> Num(2)],
   outputName |-> Str("sma"), predicate |-> Str(predicate)]
MCOver(length) == [catalogId |-> Str("study.sma"), params |-> [length |-> Num(length)]]
MCCross(length) ==
  [type |-> "series_comparison", left |-> [catalogId |-> Str("field.price.close")],
   right |-> MCOver(length), operator |-> Str("op.crosses_above")]
MCDates ==
  [type |-> "series_comparison", left |-> [catalogId |-> Str("field.date")],
   right |-> [catalogId |-> Str("field.date")], operator |-> Str("op.crosses_above")]
MCHigh == MCScalar("field.price.close", "op.greater_than", Num(2))
MCLow == MCScalar("field.price.close", "op.less_than", Num(2))
MCUnknown == MCScalar("field.gone", "op.equals", Num(1))
MCPattern ==
  [type |-> "pattern", patternId |-> Str("pattern.bull_flag"), minConfidence |-> Num(1),
   intervalId |-> Str("interval.1h")]
MCEvent == [type |-> "event_relative", eventTypeId |-> Str("field.date"), windowDays |-> Num(1)]
MCRawConditions == <<
  MCHigh, MCLow, MCUnknown, MCRange(1, 2), MCCross(2),
  MCDates, MCTemporal(MCDates, "became_true", 2, "interval.1d"),
  MCTemporal(MCScalar("field.date", "op.equals", Str("d1")), "became_true", 1, "interval.1d"),
  MCTemporal(MCHigh, "became_true", 2, "interval.1d"),
  MCTemporal(MCCross(2), "crossed_above", 2, "interval.1d"),
  MCTemporal(MCRange(0, 3), "crossed_below", 1, "interval.1d"),
  MCTemporal(MCStudyOutput("study.sma", "rising"), "became_true", 1, "interval.1d"),
  MCRelative([kind |-> Str("own_moving_average"), windowBars |-> Num(2)]),
  MCRelative([kind |-> Str("index"), indexId |-> Str("universe.sp500")]),
  MCStudyOutput("study.sma", "positive_and_rising"), MCEvent, MCPattern,
  MCScalar("field.sector", "op.equals", Str("Energy")),
  MCHigh @@ [sql |-> Str("drop")], [type |-> "raw"] >>
MCUniverse(indexes, size) == [indexes |-> indexes, size |-> size]
MCUniverseSpecs == {
  MCUniverse({}, 10), MCUniverse({"universe.sp500"}, 0),
  MCUniverse({"universe.nasdaq100"}, Unresolved), MCUniverse({"universe.gone"}, 10)}
MCRankBy(field, weight) == [fieldId |-> Str(field), weight |-> Num(weight)]
MCDeclarations == <<
  << >>, [fields |-> <<MCRankBy("field.volume", 1)>>, limit |-> Num(0)],
  [fields |-> <<MCRankBy("field.volume", 2), MCRankBy("field.price.close", 0)>>,
   normalization |-> Str("z_score"), tieBreak |-> Str("field.price.close")],
  [fields |-> <<MCRankBy("field.symbol", 1)>>], [limit |-> Num(5)] >>
MCWhole(conditions, u, r) ==
  [conditions |-> conditions, universe |-> MCUniverse({}, u), ranking |-> MCDeclarations[r]]
MCDefinedScreeners == <<
  MCWhole(MCGroup("and", TRUE, <<MCLeaf(MCHigh, TRUE), MCLeaf(MCLow, TRUE)>>), 10, 1),
  MCWhole(MCGroup("and", TRUE, <<MCLeaf(MCHigh, TRUE), MCLeaf(MCLow, FALSE)>>), 10, 3),
  MCWhole(MCGroup("or", TRUE,
            <<MCLeaf(MCTemporal(MCLow, "crossed_above", 700, "interval.1h"), TRUE),
              MCGroup("not", FALSE, <<MCLeaf(MCUnknown, TRUE)>>)>>), Unresolved, 5),
  MCWhole(MCGroup("not", TRUE, <<>>), 10, 1),
  MCWhole(MCLeaf(MCPattern, TRUE), 10, 1) >>
MCBar(close, sma) ==
  "field.price.close" :> Num(close) @@ "study.sma" :> Num(sma) @@ "field.date" :> Str("d1")
MCBarValues == <<MCBar(0, 1), MCBar(3, 2), MCBar(2, 2), "field.price.close" :> Num(1)>>
MCDayOf == "d1" :> 3

\* ResultsPages: a run with ties, some broken by a second column and some not,
\* and missing numbers in both, and a run of ties.
MCRow(f, g) == [f |-> f, g |-> g]
MCRuns == [r1 |-> <<MCRow(2, 1), MCRow(NoNumber, 2), MCRow(1, NoNumber), MCRow(2, 2)>>,
           r2 |-> <<MCRow(1, 1), MCRow(1, 1)>>]
MCSorts == {
  [key |-> "f", direction |-> "asc", tieBreak |-> "result_id", tieBreakDirection |-> "asc"],
  [key |-> "f", direction |-> "desc", tieBreak |-> "g", tieBreakDirection |-> "desc"],
  [key |-> "g", direction |-> "asc", tieBreak |-> "result_id", tieBreakDirection |-> "desc"]}

\* Backtests: a universe the engine has no field for, and one it raises on.
MCUniverseOf == 1 :> {"price"} @@ 2 :> {"price", "sector"}

-----------------------------------------------------------------------------
VARIABLE part

restVars ==
  <<part, mergeVars, compositionVars, validationVars, answerVars, pagesVars, backtestVars>>

MergeAtRest ==
  /\ existing = {} /\ incoming = <<1>> /\ batchRows = 1
  /\ read = 0 /\ cursor = 0 /\ buffered = <<>> /\ groups = <<>> /\ done = FALSE
PagesAtRest ==
  /\ boundRun = "r1" /\ tableSort = Unsorted /\ kept = DOMAIN StoredRuns /\ walk = NoWalk

PartsInit ==
  /\ part \in {"merge", "composition", "validation", "answer", "pages", "backtests"}
  /\ IF part = "merge" THEN MergeInit ELSE MergeAtRest
  /\ IF part = "pages" THEN PagesInit ELSE PagesAtRest
  /\ ValidationInit /\ CompositionInit /\ AnswerInit /\ BacktestsInit

PartsNext ==
  /\ UNCHANGED part
  /\ \/ /\ part = "merge" /\ MergeNext
        /\ UNCHANGED <<compositionVars, validationVars, answerVars, pagesVars, backtestVars>>
     \/ /\ part = "composition" /\ CompositionNext
        /\ UNCHANGED <<mergeVars, validationVars, answerVars, pagesVars, backtestVars>>
     \/ /\ part = "validation" /\ ValidationNext
        /\ UNCHANGED <<mergeVars, compositionVars, answerVars, pagesVars, backtestVars>>
     \/ /\ part = "answer" /\ AnswerNext
        /\ UNCHANGED <<mergeVars, compositionVars, validationVars, pagesVars, backtestVars>>
     \/ /\ part = "pages" /\ PagesNext
        /\ UNCHANGED <<mergeVars, compositionVars, validationVars, answerVars, backtestVars>>
     \/ /\ part = "backtests" /\ BacktestsNext
        /\ UNCHANGED <<mergeVars, compositionVars, validationVars, answerVars, pagesVars>>

\* Only the start of the page and an evaluation that runs are owed anything; at
\* rest none of it is enabled.
PartsSpec == PartsInit /\ [][PartsNext]_restVars /\ CompositionFairness /\ BacktestsFairness
=============================================================================
