------------------------------- MODULE Catalog -------------------------------
(***************************************************************************)
(* The built-in catalog (catalog/items.ts): what a condition, a study or a *)
(* ranking may name, with the parts of an item the program decides by --   *)
(* its kind, its type, unit and range, its parameters and outputs, and     *)
(* whether data for it exists today.  Labels, aliases, tags and reasons    *)
(* are left out, and the search over them with them.                       *)
(***************************************************************************)
EXTENDS Integers, Sequences, TLC

\* Stands for an end of a range that is open.
Unbounded == 1000000

NumericRange(min, max) == [min |-> min, max |-> max]
Unrestricted == NumericRange(- Unbounded, Unbounded)
AtLeast(min) == NumericRange(min, Unbounded)

\* An item of a kind with nothing declared yet: the records below fill in the rest.
Item(kind, available) ==
    [kind |-> kind, available |-> available, requiresReferenceData |-> FALSE,
     intervalIds |-> IF available THEN {"interval.1d"} ELSE {},
     valueType |-> "", unit |-> "", range |-> Unrestricted, enumValues |-> {},
     operandTypes |-> {}, parameters |-> <<>>, outputs |-> <<>>]

Field(valueType, unit, range) ==
    [Item("field", TRUE) EXCEPT !.valueType = valueType, !.unit = unit, !.range = range]

Parameter(range) ==
    [valueType |-> "number", range |-> range, enumValues |-> {}, required |-> FALSE]

Study(kind, available, parameters, outputs) ==
    [Item(kind, available) EXCEPT !.parameters = parameters, !.outputs = outputs]

Output(name, valueType, unit) == [name |-> name, valueType |-> valueType, unit |-> unit]

LENGTH_PARAM == Parameter(NumericRange(1, 500))

-----------------------------------------------------------------------------
\* Daily bars are the only bars there are.
INTERVALS ==
    [id \in {"interval.1m", "interval.5m", "interval.1h", "interval.1d", "interval.1w"} |->
        Item("interval", id = "interval.1d")]

PRICE_FIELDS ==
    [id \in {"field.price.open", "field.price.high", "field.price.low", "field.price.close"} |->
        Field("number", "currency", AtLeast(0))]

CHANGE_PCT_FIELDS ==
    [id \in {"field.price.change_pct_1", "field.price.change_pct_2"} |->
        Field("number", "percent", Unrestricted)]

OTHER_MARKET_FIELDS ==
    "field.volume" :> Field("number", "shares", AtLeast(0))
    @@ "field.symbol" :> Field("string", "", Unrestricted)
    @@ "field.date" :> Field("date", "", Unrestricted)

SECTOR_ENUM_VALUES == {
    "Basic Industries", "Capital Goods", "Consumer Durables", "Consumer Non-Durables",
    "Consumer Services", "Energy", "Finance", "Health Care", "Miscellaneous",
    "Public Utilities", "Technology", "Transportation"}

\* No source for any of these is wired in.
REFERENCE_FIELDS ==
    LET missing(valueType, unit, range) ==
            [Item("field", FALSE) EXCEPT !.requiresReferenceData = TRUE,
                !.valueType = valueType, !.unit = unit, !.range = range]
    IN  "field.sector" :> [missing("enum", "", Unrestricted) EXCEPT
                              !.enumValues = SECTOR_ENUM_VALUES]
        @@ [id \in {"field.industry", "field.index_membership"} |->
               missing("enum", "", Unrestricted)]
        @@ [id \in {"field.country", "field.exchange"} |-> missing("string", "", Unrestricted)]
        @@ "field.market_cap" :> missing("number", "currency", AtLeast(0))
        @@ "field.fundamentals.pe_ratio" :> missing("number", "", Unrestricted)
        @@ "field.fundamentals.revenue" :> missing("number", "currency", Unrestricted)
        @@ "field.earnings.next_report_date" :> missing("date", "", Unrestricted)
        @@ "field.earnings.days_since_report" :> missing("number", "days", AtLeast(0))

\* Logic needs no data, so every operator is available, over no interval in particular.
OPERATORS ==
    LET over(types) == [Item("operator", TRUE) EXCEPT !.operandTypes = types,
                                                      !.intervalIds = {}]
    IN  [id \in {"op.greater_than", "op.less_than", "op.between", "op.days_since_event"} |->
            over({"number", "date"})]
        @@ "op.equals" :> over({"number", "string", "boolean", "date", "enum"})
        @@ [id \in {"op.crosses_above", "op.crosses_below", "op.percentile_rank_above",
                    "op.study_output_above"} |-> over({"number"})]
        @@ [id \in {"op.sustained_for", "op.occurred_within"} |-> over({"boolean"})]
        @@ "op.matches_pattern" :> over({"enum"})

\* Bollinger's deviation is rounded up to a whole number: 0.1 is the smallest.
STUDIES ==
    LET one(id, available, unit) ==
            Study("study", available, [length |-> LENGTH_PARAM], <<Output(id, "number", unit)>>)
    IN  "study.sma" :> one("sma", TRUE, "currency")
        @@ "study.ema" :> one("ema", TRUE, "currency")
        @@ "study.atr" :> one("atr", TRUE, "currency")
        @@ "study.rsi" :> [one("rsi", FALSE, "") EXCEPT
                              !.parameters = [length |-> Parameter(NumericRange(2, 200))]]
        @@ "study.macd" :>
             Study("study", FALSE,
                   [fast |-> Parameter(AtLeast(1)), slow |-> Parameter(AtLeast(2)),
                    signal |-> Parameter(AtLeast(1))],
                   [i \in 1 .. 3 |-> Output(<<"macd", "signal", "histogram">>[i], "number", "")])
        @@ "study.bollinger_bands" :>
             Study("study", FALSE,
                   [length |-> LENGTH_PARAM, stdDev |-> Parameter(NumericRange(1, 10))],
                   [i \in 1 .. 3 |->
                      Output(<<"upper", "middle", "lower">>[i], "number", "currency")])
        @@ "study.vwap" :>
             Study("study", FALSE,
                   [anchor |-> [LENGTH_PARAM EXCEPT !.valueType = "enum", !.range = Unrestricted,
                                  !.enumValues = {"session", "week", "month"}]],
                   <<Output("vwap", "number", "currency")>>)

INDICATORS ==
    "indicator.relative_volume" :>
        Study("indicator", TRUE, [length |-> LENGTH_PARAM],
              <<Output("relative_volume", "number", "")>>)
    @@ "indicator.atr_percent" :>
        Study("indicator", TRUE, [length |-> LENGTH_PARAM],
              <<Output("atr_percent", "number", "percent")>>)
    @@ "indicator.gap_percent" :>
        Study("indicator", FALSE, <<>>, <<Output("gap_percent", "number", "percent")>>)

\* No pattern engine exists: patterns are named, never evaluated.
PATTERNS ==
    LET matched == <<Output("matched", "boolean", "")>>
    IN  "pattern.bull_flag" :>
            Study("pattern", FALSE, [poleBars |-> LENGTH_PARAM, flagBars |-> LENGTH_PARAM], matched)
        @@ "pattern.inside_day" :> Study("pattern", FALSE, <<>>, matched)
        @@ "pattern.gap_up" :>
            Study("pattern", FALSE, [minGapPercent |-> Parameter(AtLeast(0))], matched)

UNIVERSES ==
    [id \in {"universe.us_equities", "universe.sp500", "universe.nasdaq100",
             "universe.watchlist"} |->
        [Item("universe", FALSE) EXCEPT !.requiresReferenceData = id # "universe.watchlist"]]

TEMPLATES ==
    [id \in {"template.momentum_breakout", "template.mean_reversion",
             "template.price_volume_chart"} |-> Item("template", FALSE)]

CATALOG_ITEMS ==
    INTERVALS @@ PRICE_FIELDS @@ OTHER_MARKET_FIELDS @@ CHANGE_PCT_FIELDS @@ REFERENCE_FIELDS
    @@ OPERATORS @@ STUDIES @@ INDICATORS @@ PATTERNS @@ UNIVERSES @@ TEMPLATES

-----------------------------------------------------------------------------
(* The registry (catalog/registry.ts).                                     *)

\* Built from the inventory at load and frozen: a constant, so that TLC builds it once.
CONSTANT BY_ID
ASSUME CatalogAssumption == BY_ID = CATALOG_ITEMS

Listed(id) == id \in DOMAIN BY_ID

getCatalogItem(id) == BY_ID[id]

IsA(id, kind) == Listed(id) /\ BY_ID[id].kind = kind

isOperatorValidForField(operator, field) ==
    /\ IsA(operator, "operator") /\ IsA(field, "field")
    /\ BY_ID[field].valueType \in BY_ID[operator].operandTypes
=============================================================================
