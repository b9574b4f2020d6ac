------------------------- MODULE ScreenerValidation -------------------------
(***************************************************************************)
(* Conditions from the wire to an answer: how a condition is normalized    *)
(* and checked against the catalog, how one instrument is evaluated        *)
(* against it as its history grows, the dry-run report on a whole          *)
(* definition, and the tools that let a definition in -- define_screener,  *)
(* which refuses a report that blocks, and the edits of the filter tree,   *)
(* the universe and the ranking, which check only what they were given.    *)
(*                                                                         *)
(* A value of the wire is a pair of its type and itself; the numbers are   *)
(* whole.  Market data is the port's (external): per catalog id, one value *)
(* for each bar.  Messages, units of scalar values and suggestions are     *)
(* left out.                                                               *)
(***************************************************************************)
EXTENDS FilterTree, FiniteSetsExt, Catalog

CONSTANTS
    RawConditions,      \* the payloads an edit may carry, as a sequence
    DefinedScreeners,   \* the payloads define_screener may carry, as a sequence
    Declarations,       \* the rankings set_screener_ranking may carry, as a sequence
    UniverseSpecs,      \* [indexes, size]: the universes named, and how many instruments are there
    Unresolved,         \* the size nobody could resolve
    Unranked,           \* no ranking set
    BarValues,          \* what one bar may bring: catalog id -> value
    DayOf,              \* the day number of each date string
    Today,
    MaxBars,            \* bound
    MaxRevisions        \* bound: definitions written

ASSUME ScreenerValidationAssumption ==
    /\ MaxBars \in Nat /\ MaxRevisions \in Nat /\ Today \in Nat
    /\ \A u \in UniverseSpecs : u.size \in Nat \cup {Unresolved}

VARIABLES
    definition,     \* the stored screener: filterTree, universe, ranking, revision
    lastNode,       \* the session's counter for filter ids
    dormant,        \* nodes define_screener stored disabled, unchecked
    bars            \* the history of the instrument looked at

validationVars == <<definition, lastNode, dormant, bars>>

When(holds, code) == IF holds THEN {code} ELSE {}

-----------------------------------------------------------------------------
(* conditions.ts: a payload repaired into a condition, or NoCondition.     *)

NoCondition == [type |-> "none"]

As(type, raw, field, default) ==
    IF field \in DOMAIN raw /\ raw[field][1] = type THEN raw[field][2] ELSE default
AsString(raw, field) == As("string", raw, field, "")
AsNumber(raw, field, default) == As("number", raw, field, default)
AsOneOf(raw, field, values, default) ==
    IF AsString(raw, field) \in values THEN AsString(raw, field) ELSE default
AsComparisonValue(raw, field) == IF field \in DOMAIN raw THEN raw[field] ELSE <<"string", "">>
AsParams(raw) == IF "params" \in DOMAIN raw THEN raw.params ELSE <<>>

NormalizeSeriesRef(raw) == [catalogId |-> AsString(raw, "catalogId"), params |-> AsParams(raw)]

NormalizeRelativeBaseline(raw) ==
    LET kind == AsOneOf(raw, "kind", {"peer_group", "index"}, "own_moving_average")
    IN  [kind |-> kind, windowBars |-> AsNumber(raw, "windowBars", 1),
         id |-> AsString(raw, IF kind = "peer_group" THEN "groupId" ELSE "indexId")]

\* The only recursive variant: an inner condition that is lost takes the outer with it.
RECURSIVE NormalizeCondition(_)
NormalizeCondition(raw) ==
    LET str(field) == AsString(raw, field)
        bool(field) == As("boolean", raw, field, TRUE)
    IN  CASE raw.type = "scalar" ->
               [type |-> "scalar", fieldId |-> str("fieldId"), operator |-> str("operator"),
                value |-> AsComparisonValue(raw, "value")]
          [] raw.type = "range" ->
               [type |-> "range", fieldId |-> str("fieldId"),
                lower |-> AsNumber(raw, "lower", 0), upper |-> AsNumber(raw, "upper", 0),
                lowerInclusive |-> bool("lowerInclusive"),
                upperInclusive |-> bool("upperInclusive")]
          [] raw.type = "series_comparison" ->
               [type |-> "series_comparison", left |-> NormalizeSeriesRef(raw.left),
                right |-> NormalizeSeriesRef(raw.right), operator |-> str("operator")]
          [] raw.type = "temporal" ->
               LET inner == NormalizeCondition(raw.condition)
               IN  IF inner = NoCondition THEN NoCondition
                   ELSE [type |-> "temporal", condition |-> inner,
                         event |-> AsOneOf(raw, "event", {"crossed_above", "crossed_below"},
                                           "became_true"),
                         withinBars |-> AsNumber(raw, "withinBars", 1),
                         intervalId |-> str("intervalId")]
          [] raw.type = "event_relative" ->
               [type |-> "event_relative", eventTypeId |-> str("eventTypeId"),
                direction |-> AsOneOf(raw, "direction", {"past"}, "future"),
                windowDays |-> AsNumber(raw, "windowDays", 0)]
          [] raw.type = "pattern" ->
               [type |-> "pattern", patternId |-> str("patternId"),
                minConfidence |-> AsNumber(raw, "minConfidence", 0),
                intervalId |-> str("intervalId")]
          [] raw.type = "relative" ->
               [type |-> "relative", fieldId |-> str("fieldId"),
                baseline |-> NormalizeRelativeBaseline(raw.baseline),
                multiple |-> AsNumber(raw, "multiple", 1), operator |-> str("operator")]
          [] raw.type = "study_output" ->
               [type |-> "study_output", studyId |-> str("studyId"), params |-> AsParams(raw),
                outputName |-> str("outputName"), predicate |-> str("predicate")]
          [] OTHER -> NoCondition

CONDITION_FIELD_ALLOWLIST ==
    [scalar |-> {"type", "fieldId", "operator", "value", "unit"},
     range |-> {"type", "fieldId", "lower", "upper", "lowerInclusive", "upperInclusive"},
     series_comparison |-> {"type", "left", "right", "operator"},
     temporal |-> {"type", "condition", "event", "withinBars", "intervalId"},
     event_relative |-> {"type", "eventTypeId", "direction", "windowDays"},
     pattern |-> {"type", "patternId", "minConfidence", "intervalId"},
     relative |-> {"type", "fieldId", "baseline", "multiple", "operator"},
     study_output |-> {"type", "studyId", "params", "outputName", "predicate"}]

\* Only the outermost keys are looked at: what is beneath is dropped by the repair.
FindDisallowedConditionFields(raw) ==
    IF raw.type \in DOMAIN CONDITION_FIELD_ALLOWLIST
    THEN DOMAIN raw \ CONDITION_FIELD_ALLOWLIST[raw.type] ELSE {}

-----------------------------------------------------------------------------
(* conditionValidation.ts: the codes of what is wrong with a condition.    *)

unknown == "unknown_catalog_item"
invalid == "invalid_parameter"
missing == "unavailable_data"

WithinRange(value, range) == range.min <= value /\ value <= range.max

ValueMatchesType(valueType, value) ==
    value[1] = IF valueType \in {"number", "boolean"} THEN valueType ELSE "string"

\* A value against the type, range and values its declaration gives.
CheckTypedValue(declared, value) ==
    When(\/ ~ ValueMatchesType(declared.valueType, value)
         \/ value[1] = "number" /\ ~ WithinRange(value[2], declared.range)
         \/ /\ declared.valueType = "enum" /\ declared.enumValues # {}
            /\ value[2] \notin declared.enumValues,
         invalid)

ValidateCatalogParams(parameters, values) ==
    UNION {IF name \in DOMAIN values THEN CheckTypedValue(parameters[name], values[name])
           ELSE When(parameters[name].required, invalid) : name \in DOMAIN parameters}

ValidateOperatorForField(operator, field) ==
    IF ~ IsA(operator, "operator") THEN {unknown}
    ELSE When(~ isOperatorValidForField(operator, field), invalid)

ValidateScalar(c) ==
    IF ~ IsA(c.fieldId, "field") THEN {unknown}
    ELSE ValidateOperatorForField(c.operator, c.fieldId)
            \cup CheckTypedValue(getCatalogItem(c.fieldId), c.value)

ValidateRange(c) ==
    IF ~ IsA(c.fieldId, "field") THEN {unknown}
    ELSE LET field == getCatalogItem(c.fieldId)
         IN  When(\/ field.valueType # "number" \/ c.lower > c.upper
                  \/ ~ WithinRange(c.lower, field.range)
                  \/ ~ WithinRange(c.upper, field.range), invalid)

\* A field is a series of its own; a study or an indicator is its first output.
ResolveSeriesValue(id) ==
    LET item == getCatalogItem(id)
    IN  CASE item.kind = "field" -> {[valueType |-> item.valueType, unit |-> item.unit]}
          [] item.kind \in {"study", "indicator"} ->
               {[valueType |-> item.outputs[1].valueType, unit |-> item.outputs[1].unit]}
          [] OTHER -> {}

ValidateSeriesRef(ref) ==
    IF ~ Listed(ref.catalogId) THEN {unknown}
    ELSE When(ResolveSeriesValue(ref.catalogId) = {}, invalid)
            \cup ValidateCatalogParams(getCatalogItem(ref.catalogId).parameters, ref.params)

ValidateSeriesComparison(c) ==
    When(~ IsA(c.operator, "operator"), unknown)
        \cup ValidateSeriesRef(c.left) \cup ValidateSeriesRef(c.right)
        \cup When(/\ Listed(c.left.catalogId) /\ Listed(c.right.catalogId)
                  /\ \E l \in ResolveSeriesValue(c.left.catalogId),
                        r \in ResolveSeriesValue(c.right.catalogId) :
                        \/ l.valueType # r.valueType
                        \/ l.unit # "" /\ r.unit # "" /\ l.unit # r.unit, invalid)

ValidateEventRelative(c) ==
    IF ~ Listed(c.eventTypeId) THEN {unknown}
    ELSE LET item == getCatalogItem(c.eventTypeId)
         IN  When(~ item.available /\ item.requiresReferenceData, missing)
                \cup When(c.windowDays < 0, invalid)

ValidatePattern(c) ==
    IF ~ IsA(c.patternId, "pattern") THEN {unknown}
    ELSE When(c.minConfidence \notin 0 .. 1, invalid)
            \cup IF ~ IsA(c.intervalId, "interval") THEN {unknown}
                 ELSE When(c.intervalId \notin getCatalogItem(c.patternId).intervalIds, missing)

ValidateBaseline(b) ==
    IF b.kind = "own_moving_average" THEN When(b.windowBars <= 0, invalid)
    ELSE When(~ IsA(b.id, "universe"), unknown)

ValidateRelative(c) ==
    (IF ~ IsA(c.fieldId, "field") THEN {unknown}
     ELSE When(getCatalogItem(c.fieldId).valueType # "number", invalid)
            \cup ValidateOperatorForField(c.operator, c.fieldId))
    \cup ValidateBaseline(c.baseline) \cup When(c.multiple <= 0, invalid)

STUDY_OUTPUT_PREDICATES ==
    {"above_zero", "below_zero", "positive", "negative", "rising", "falling",
     "positive_and_rising", "negative_and_falling"}

ValidateStudyOutput(c) ==
    IF ~ IsA(c.studyId, "study") THEN {unknown}
    ELSE LET study == getCatalogItem(c.studyId)
         IN  ValidateCatalogParams(study.parameters, c.params)
                \cup When(\A i \in DOMAIN study.outputs : study.outputs[i].name # c.outputName,
                          invalid)
                \cup When(c.predicate \notin STUDY_OUTPUT_PREDICATES, invalid)

RECURSIVE ValidateCondition(_)
ValidateCondition(c) ==
    CASE c.type = "scalar" -> ValidateScalar(c)
      [] c.type = "range" -> ValidateRange(c)
      [] c.type = "series_comparison" -> ValidateSeriesComparison(c)
      [] c.type = "temporal" ->
           ValidateCondition(c.condition)
               \cup When(~ IsA(c.intervalId, "interval"), unknown)
               \cup When(c.withinBars <= 0, invalid)
      [] c.type = "event_relative" -> ValidateEventRelative(c)
      [] c.type = "pattern" -> ValidatePattern(c)
      [] c.type = "relative" -> ValidateRelative(c)
      [] c.type = "study_output" -> ValidateStudyOutput(c)

-----------------------------------------------------------------------------
(* engine/conditionEvaluation.ts: one condition, one instrument, today.    *)

Answered(passed) == [passed |-> passed, unavailable |-> FALSE]
UnavailableOutcome == [passed |-> FALSE, unavailable |-> TRUE]

AvailabilityGate(id) == Listed(id) /\ getCatalogItem(id).available

\* The port: the last value of a field or an output, and the numbers of a series.
FieldValue(history, id) ==
    IF history # <<>> /\ id \in DOMAIN Last(history) THEN {Last(history)[id]} ELSE {}
NumberOf(history, id) == {v[2] : v \in {w \in FieldValue(history, id) : w[1] = "number"}}
Series(history, id) ==
    LET numbered == SelectSeq(history, LAMBDA bar : id \in DOMAIN bar /\ bar[id][1] = "number")
    IN  [i \in DOMAIN numbered |-> numbered[i][id][2]]

CompareScalar(operator, raw, target) ==
    LET numbers == raw[1] = "number" /\ target[1] = "number"
    IN  \/ operator = "op.greater_than" /\ numbers /\ raw[2] > target[2]
        \/ operator = "op.less_than" /\ numbers /\ raw[2] < target[2]
        \/ operator = "op.equals" /\ raw = target

InRange(c, value) ==
    /\ IF c.lowerInclusive THEN value >= c.lower ELSE value > c.lower
    /\ IF c.upperInclusive THEN value <= c.upper ELSE value < c.upper

\* The outcome of a test on the one value there is, or none.
Tested(gate, values, Test(_)) ==
    IF ~ gate \/ values = {} THEN UnavailableOutcome
    ELSE Answered(\A v \in values : Test(v))

EvaluateScalar(c, history) ==
    Tested(AvailabilityGate(c.fieldId), FieldValue(history, c.fieldId),
           LAMBDA v : CompareScalar(c.operator, v, c.value))

EvaluateRange(c, history) ==
    Tested(AvailabilityGate(c.fieldId), NumberOf(history, c.fieldId), LAMBDA v : InRange(c, v))

EvaluateSeriesComparison(c, history) ==
    LET left  == Series(history, c.left.catalogId)
        right == Series(history, c.right.catalogId)
        before(s) == s[Len(s) - 1]
    IN  IF \/ ~ AvailabilityGate(c.left.catalogId) \/ ~ AvailabilityGate(c.right.catalogId)
           \/ Len(left) < 2 \/ Len(right) < 2
        THEN UnavailableOutcome
        ELSE Answered(
               \/ /\ c.operator = "op.crosses_above"
                  /\ before(left) <= before(right) /\ Last(left) > Last(right)
               \/ /\ c.operator = "op.crosses_below"
                  /\ before(left) >= before(right) /\ Last(left) < Last(right))

\* One answer per bar, for the inner conditions that read one or two series.
DerivePointSignal(c, history) ==
    CASE c.type = "scalar" /\ AvailabilityGate(c.fieldId) ->
           LET series == Series(history, c.fieldId)
           IN  [i \in DOMAIN series |-> CompareScalar(c.operator, <<"number", series[i]>>, c.value)]
      [] c.type = "range" /\ AvailabilityGate(c.fieldId) ->
           LET series == Series(history, c.fieldId)
           IN  [i \in DOMAIN series |-> InRange(c, series[i])]
      [] c.type = "series_comparison" /\ AvailabilityGate(c.left.catalogId)
                                      /\ AvailabilityGate(c.right.catalogId) ->
           LET left  == Series(history, c.left.catalogId)
               right == Series(history, c.right.catalogId)
           IN  [i \in 1 .. Min({Len(left), Len(right)}) |-> left[i] > right[i]]
      [] OTHER -> <<>>

\* Variant: a window that reaches one bar further back.
ScanWindow_Wider(signal, withinBars, event) ==
    LET window == {i \in DOMAIN signal : i >= Len(signal) - withinBars}
    IN  CASE event = "became_true" -> \E i \in window : signal[i]
          [] event = "crossed_above" -> \E i \in window \ {1} : ~ signal[i - 1] /\ signal[i]
          [] event = "crossed_below" -> \E i \in window \ {1} : signal[i - 1] /\ ~ signal[i]

\* The trailing bars, and an edge between two of which the later is among them.
ScanWindow(signal, withinBars, event) ==
    LET window == {i \in DOMAIN signal : i > Len(signal) - withinBars}
    IN  CASE event = "became_true" -> \E i \in window : signal[i]
          [] event = "crossed_above" -> \E i \in window \ {1} : ~ signal[i - 1] /\ signal[i]
          [] event = "crossed_below" -> \E i \in window \ {1} : signal[i - 1] /\ ~ signal[i]

EvaluateTemporal(c, history) ==
    LET signal == DerivePointSignal(c.condition, history)
    IN  IF signal = <<>> THEN UnavailableOutcome
        ELSE Answered(ScanWindow(signal, c.withinBars, c.event))

\* A number is a count of days already; a string is a date, when it is one.
ResolveDaysFromEvent(value, direction) ==
    CASE value[1] = "number" -> {value[2]}
      [] value[1] = "string" /\ value[2] \in DOMAIN DayOf ->
           {IF direction = "future" THEN DayOf[value[2]] - Today ELSE Today - DayOf[value[2]]}
      [] OTHER -> {}

EvaluateEventRelative(c, history) ==
    Tested(AvailabilityGate(c.eventTypeId),
           UNION {ResolveDaysFromEvent(v, c.direction) : v \in FieldValue(history, c.eventTypeId)},
           LAMBDA days : days \in 0 .. c.windowDays)

\* A baseline is a sum over a count of bars.
ResolveBaseline(b, field, history) ==
    IF b.kind = "own_moving_average"
    THEN LET series == Series(history, field)
             n == Min({b.windowBars, Len(series)})
         IN  IF n = 0 THEN {}
             ELSE {[sum |-> FoldLeft(LAMBDA a, v : a + v, 0,
                                     SubSeq(series, Len(series) - n + 1, Len(series))),
                    count |-> n]}
    ELSE {[sum |-> v, count |-> 1] : v \in NumberOf(history, b.id)}

EvaluateRelative(c, history) ==
    LET values    == NumberOf(history, c.fieldId)
        baselines == {b \in ResolveBaseline(c.baseline, c.fieldId, history) : b.sum # 0}
        ratio(v, b) == <<"number", v * b.count * (IF b.sum > 0 THEN 1 ELSE -1)>>
        bar(b)      == <<"number", c.multiple * b.sum * (IF b.sum > 0 THEN 1 ELSE -1)>>
    IN  Tested(AvailabilityGate(c.fieldId), values \X baselines,
               LAMBDA p : CompareScalar(c.operator, ratio(p[1], p[2]), bar(p[2])))

Tokens(predicate) ==
    CASE predicate = "positive_and_rising" -> {"positive", "rising"}
      [] predicate = "negative_and_falling" -> {"negative", "falling"}
      [] OTHER -> {predicate}

EvaluateStudyOutput(c, history) ==
    LET series == Series(history, c.studyId)
        moves(by) == Len(series) >= 2 /\ (Last(series) - series[Len(series) - 1]) * by > 0
        token(t, v) == CASE t = "positive" -> v > 0
                         [] t = "negative" -> v < 0
                         [] t = "rising" -> moves(1)
                         [] t = "falling" -> moves(-1)
                         [] OTHER -> FALSE
    IN  Tested(AvailabilityGate(c.studyId), NumberOf(history, c.studyId),
               LAMBDA v : \A t \in Tokens(c.predicate) : token(t, v))

\* No pattern of the catalog passes the gate.
EvaluateCondition(c, history) ==
    CASE c.type = "scalar" -> EvaluateScalar(c, history)
      [] c.type = "range" -> EvaluateRange(c, history)
      [] c.type = "series_comparison" -> EvaluateSeriesComparison(c, history)
      [] c.type = "temporal" -> EvaluateTemporal(c, history)
      [] c.type = "event_relative" -> EvaluateEventRelative(c, history)
      [] c.type = "pattern" -> UnavailableOutcome
      [] c.type = "relative" -> EvaluateRelative(c, history)
      [] c.type = "study_output" -> EvaluateStudyOutput(c, history)

-----------------------------------------------------------------------------
(* screenerValidation.ts: the dry run of a whole definition.               *)

RECURSIVE SkippedNodeIds(_)
SkippedNodeIds(node) ==
    IF ~ node.enabled THEN ToSet(NodeIds(node))
    ELSE IF IsGroup(node)
         THEN UNION {SkippedNodeIds(node.children[i]) : i \in DOMAIN node.children}
         ELSE {}

Reached(tree) == {n \in ToSet(Nodes(tree)) : n.nodeId \notin SkippedNodeIds(tree)}
ReachedConditions(tree) == {n \in Reached(tree) : ~ IsGroup(n)}

\* A condition and those within it.
RECURSIVE ConditionVariants(_)
ConditionVariants(c) ==
    {c} \cup IF c.type = "temporal" THEN ConditionVariants(c.condition) ELSE {}

\* What a condition reads; the index or the peers of a baseline are not among it.
CollectCatalogRefs(c) ==
    CASE c.type \in {"scalar", "range", "relative"} -> {c.fieldId}
      [] c.type = "series_comparison" -> {c.left.catalogId, c.right.catalogId}
      [] c.type = "study_output" -> {c.studyId}
      [] c.type = "event_relative" -> {c.eventTypeId}
      [] c.type = "pattern" -> {c.patternId}
      [] c.type = "temporal" -> {}

WindowBarsOf(c) ==
    CASE c.type = "temporal" -> {c.withinBars}
      [] c.type = "relative" /\ c.baseline.kind = "own_moving_average" -> {c.baseline.windowBars}
      [] OTHER -> {}

Problem(code, nodes) == [severity |-> "blocking", code |-> code, nodes |-> nodes]

AvailabilityProblems(c) ==
    When(\E id \in CollectCatalogRefs(c) : Listed(id) /\ ~ getCatalogItem(id).available, missing)

ProcessConditionNode(node) ==
    {Problem(code, {node.nodeId}) :
        code \in ValidateCondition(node.condition)
                    \cup UNION {AvailabilityProblems(v) : v \in ConditionVariants(node.condition)}}

\* The interval of values a condition leaves open, when it is one.
BoundOf(c) ==
    LET interval(min, minInclusive, max, maxInclusive) ==
            {[field |-> c.fieldId, min |-> min, minInclusive |-> minInclusive,
              max |-> max, maxInclusive |-> maxInclusive]}
        numeric == c.type = "scalar" /\ c.value[1] = "number"
    IN  CASE c.type = "range" -> interval(c.lower, c.lowerInclusive, c.upper, c.upperInclusive)
          [] numeric /\ c.operator = "op.greater_than" ->
               interval(c.value[2], FALSE, Unbounded, TRUE)
          [] numeric /\ c.operator = "op.less_than" ->
               interval(- Unbounded, TRUE, c.value[2], FALSE)
          [] numeric /\ c.operator = "op.equals" -> interval(c.value[2], TRUE, c.value[2], TRUE)
          [] OTHER -> {}

BoundsDisjoint(a, b) ==
    LET below(x, y) == \/ x.max < y.min
                       \/ x.max = y.min /\ ~ (x.maxInclusive /\ y.minInclusive)
    IN  below(a, b) \/ below(b, a)

EnabledSiblings(group) ==
    {n \in ToSet(group.children) : ~ IsGroup(n) /\ n.enabled}

DetectGroupContradictions(group) ==
    {Problem("contradiction", {n.nodeId : n \in pair}) :
        pair \in {p \in kSubset(2, EnabledSiblings(group)) :
                    \E a, b \in p : /\ a # b
                                    /\ \E x \in BoundOf(a.condition), y \in BoundOf(b.condition) :
                                         x.field = y.field /\ BoundsDisjoint(x, y)}}

WalkTree(tree) ==
    UNION {IF ~ IsGroup(n) THEN ProcessConditionNode(n)
           ELSE IF n.op = "and" THEN DetectGroupContradictions(n) ELSE {} : n \in Reached(tree)}

DEFAULT_LOOKBACK_DAYS == 252
DEFAULT_ASSUMED_UNIVERSE_SIZE == 8000
DEFAULT_COST_BUDGET == 5000000

LookbackDays(tree) ==
    Max({DEFAULT_LOOKBACK_DAYS} \cup
        UNION {UNION {WindowBarsOf(v) : v \in ConditionVariants(n.condition)} :
                  n \in ReachedConditions(tree)})

Cost(d) ==
    LookbackDays(d.filterTree)
        * (IF d.universe.size = Unresolved THEN DEFAULT_ASSUMED_UNIVERSE_SIZE ELSE d.universe.size)

\* Every problem there is, the advice on cost among them.
ValidateScreenerDefinition(d) ==
    WalkTree(d.filterTree)
        \cup (IF d.universe.size = 0 THEN {Problem("empty_universe", {})} ELSE {})
        \cup (IF Cost(d) > DEFAULT_COST_BUDGET
              THEN {[Problem("expensive_query", {}) EXCEPT !.severity = "advisory"]} ELSE {})

Valid(problems) == \A p \in problems : p.severity # "blocking"

-----------------------------------------------------------------------------
(* define_screener: conditions, universe and ranking in one payload.       *)

\* An interval without data gives way to the only one there is, at the outside only.
ApproximateGranularity(c) ==
    LET usable == {id \in DOMAIN INTERVALS : INTERVALS[id].available}
    IN  IF /\ c.type \in {"temporal", "pattern"} /\ IsA(c.intervalId, "interval")
           /\ ~ getCatalogItem(c.intervalId).available /\ Cardinality(usable) = 1
        THEN [c EXCEPT !.intervalId = CHOOSE id \in usable : TRUE]
        ELSE c

\* What both tools ask of a payload before the catalog is looked at.
Parses(raw) ==
    FindDisallowedConditionFields(raw) = {} /\ NormalizeCondition(raw) # NoCondition

RECURSIVE AllParse(_)
AllParse(shape) ==
    IF IsGroup(shape) THEN \A i \in DOMAIN shape.children : AllParse(shape.children[i])
    ELSE Parses(shape.condition)

RECURSIVE BuildFilterTree(_)
BuildFilterTree(node) ==
    IF IsGroup(node)
    THEN [node EXCEPT !.children = [i \in DOMAIN @ |-> BuildFilterTree(@[i])]]
    ELSE [node EXCEPT !.condition = ApproximateGranularity(NormalizeCondition(@))]

\* The only part of a universe the catalog can confirm.
CheckUniverseCatalogMembership(u) == \A id \in u.indexes : IsA(id, "universe")

-----------------------------------------------------------------------------
(* ranking.ts and the two tools that take a ranking.                       *)

DEFAULT_RANKING_LIMIT == 100

RankingFields(raw) ==
    IF "fields" \notin DOMAIN raw THEN <<>>
    ELSE [i \in DOMAIN raw.fields |->
            [fieldId |-> AsString(raw.fields[i], "fieldId"),
             direction |-> AsOneOf(raw.fields[i], "direction", {"asc"}, "desc"),
             weight |-> AsNumber(raw.fields[i], "weight", 1)]]

CheckNumericField(id) == IsA(id, "field") /\ getCatalogItem(id).valueType = "number"

CanNormalizeWeights(fields) == fields = <<>> \/ \E i \in DOMAIN fields : fields[i].weight > 0

RankingSpecOf(raw) ==
    [fields |-> RankingFields(raw), tieBreak |-> AsString(raw, "tieBreak"),
     limit |-> AsNumber(raw, "limit", DEFAULT_RANKING_LIMIT),
     normalization |-> AsOneOf(raw, "normalization", {"z_score", "min_max"}, "percentile_rank")]

ValidateRankingDeclaration(raw) ==
    LET spec == RankingSpecOf(raw)
    IN  /\ \A i \in DOMAIN spec.fields : CheckNumericField(spec.fields[i].fieldId)
        /\ spec.tieBreak # "" => CheckNumericField(spec.tieBreak)
        /\ CanNormalizeWeights(spec.fields) /\ spec.limit > 0

\* A call without fields clears the ranking, whatever else it names.
IsClearRankingInput(raw) == RankingFields(raw) = <<>>

\* In a definition given whole a limit or a tie-break alone is a ranking.
NothingToRank(raw) == IsClearRankingInput(raw) /\ DOMAIN raw \cap {"limit", "tieBreak"} = {}

\* The repair on every read.
NormalizeRanking(ranking) ==
    IF ranking = Unranked THEN Unranked
    ELSE [ranking EXCEPT
            !.fields = SelectSeq(@, LAMBDA f : f.fieldId # ""),
            !.limit = IF @ > 0 THEN @ ELSE DEFAULT_RANKING_LIMIT]

-----------------------------------------------------------------------------
ValidationInit ==
    /\ \E u \in {v \in UniverseSpecs : v.indexes = {}} :
         definition = [filterTree |-> Group(1, "and", <<>>), universe |-> u,
                       ranking |-> Unranked, revision |-> 1]
    /\ lastNode = 1 /\ dormant = {} /\ bars = <<>>

\* Bound: no bar comes before the last write, none of which looks at them.
MayWrite == definition.revision < MaxRevisions /\ bars = <<>>

\* Every write reads the screener, repairs it and counts a revision.
WriteScreener(changes) ==
    definition' = [changes @@ definition EXCEPT !.filterTree = Normalize(@),
                                                !.revision = definition.revision + 1]

\* define_screener: nothing of a payload with a blocking problem is kept.
DefineScreenerWhole(payload) ==
    LET shape   == payload.conditions
        tree    == BuildFilterTree(Numbered(shape, lastNode + 1))
        ranking == IF NothingToRank(payload.ranking) THEN Unranked
                   ELSE RankingSpecOf(payload.ranking)
        whole   == [filterTree |-> tree, universe |-> payload.universe, ranking |-> ranking]
        skipped == {n \in ToSet(Nodes(tree)) : ~ IsGroup(n) /\ n.nodeId \in SkippedNodeIds(tree)}
    IN  /\ WellShaped(shape) /\ AllParse(shape)
        /\ CheckUniverseCatalogMembership(payload.universe)
        /\ IF ranking = Unranked THEN TRUE ELSE ValidateRankingDeclaration(payload.ranking)
        /\ Valid(ValidateScreenerDefinition(whole))
        /\ WriteScreener(whole)
        /\ lastNode' = lastNode + Size(shape)
        /\ dormant' = {n.nodeId : n \in {s \in skipped : ValidateCondition(s.condition) # {}}}
        /\ UNCHANGED bars

\* parseConditionInput: neither the availability of data nor the siblings are looked at.
Accepted(raw) == IF Parses(raw) THEN ValidateCondition(NormalizeCondition(raw)) = {} ELSE FALSE

EditAdd(parent, raw) ==
    /\ Accepted(raw) /\ CanAdd(definition.filterTree, parent)
    /\ WriteScreener([filterTree |-> AddNode(definition.filterTree, lastNode + 1, parent,
                                      NormalizeCondition(raw))])
    /\ lastNode' = lastNode + 1
    /\ UNCHANGED <<dormant, bars>>

EditUpdate(id, raw) ==
    /\ Accepted(raw) /\ CanUpdate(definition.filterTree, id)
    /\ WriteScreener([filterTree |-> UpdateCondition(definition.filterTree, id, NormalizeCondition(raw))])
    /\ dormant' = dormant \ {id}
    /\ UNCHANGED <<lastNode, bars>>

EditSetEnabled(id, on) ==
    /\ Has(definition.filterTree, id)
    /\ WriteScreener([filterTree |-> SetEnabled(definition.filterTree, id, on)])
    /\ UNCHANGED <<lastNode, dormant, bars>>

SetScreenerUniverse(u) ==
    /\ CheckUniverseCatalogMembership(u)
    /\ WriteScreener([universe |-> u])
    /\ UNCHANGED <<lastNode, dormant, bars>>

\* A tie-break that names nothing is refused here, and dropped by define_screener.
SetScreenerRanking(raw) ==
    /\ \/ IsClearRankingInput(raw) /\ WriteScreener([ranking |-> Unranked])
       \/ /\ ~ IsClearRankingInput(raw) /\ ValidateRankingDeclaration(raw)
          /\ "tieBreak" \in DOMAIN raw => AsString(raw, "tieBreak") # ""
          /\ WriteScreener([ranking |-> RankingSpecOf(raw)])
    /\ UNCHANGED <<lastNode, dormant, bars>>

\* Another bar of market data (external).  Bound: one condition at a time is
\* followed over its history, each being evaluated by itself.
NextBar(values) ==
    /\ Len(bars) < MaxBars /\ Cardinality(ReachedConditions(definition.filterTree)) = 1
    /\ bars' = Append(bars, values)
    /\ UNCHANGED <<definition, lastNode, dormant>>

ValidationNext ==
    \/ /\ MayWrite
       /\ \/ \E i \in DOMAIN DefinedScreeners : DefineScreenerWhole(DefinedScreeners[i])
          \/ \E i \in DOMAIN RawConditions, id \in 1 .. lastNode :
               EditAdd(id, RawConditions[i]) \/ EditUpdate(id, RawConditions[i])
          \/ \E id \in 1 .. lastNode, on \in BOOLEAN : EditSetEnabled(id, on)
          \/ \E u \in UniverseSpecs : SetScreenerUniverse(u)
          \/ \E i \in DOMAIN Declarations : SetScreenerRanking(Declarations[i])
    \/ \E i \in DOMAIN BarValues : NextBar(BarValues[i])

ValidationSpec == ValidationInit /\ [][ValidationNext]_validationVars

-----------------------------------------------------------------------------
(* Properties, one named part each.                                        *)

Tree == definition.filterTree

\* Whether a value, doubled so that halves are looked at too, is what a
\* condition with a bound asks for -- in the words of the evaluation.
Admits(c, twice) ==
    IF c.type = "range" THEN InRange([c EXCEPT !.lower = 2 * @, !.upper = 2 * @], twice)
    ELSE CompareScalar(c.operator, <<"number", twice>>, <<"number", 2 * c.value[2]>>)

Halves == -8 .. 8
Satisfiable(conditions) == \E twice \in Halves : \A c \in conditions : Admits(c, twice)

\* A contradiction is reported of two conditions that no value meets at once,
\* and -- each by itself can be met -- of every such pair of siblings.
ContradictionsExact(found) ==
    \A g \in {n \in Reached(Tree) : IsGroup(n) /\ n.op = "and"} :
        \A a, b \in EnabledSiblings(g) :
            LET both == {a.condition, b.condition}
                told == Problem("contradiction", {a.nodeId, b.nodeId}) \in found
            IN  a # b =>
                  /\ told => ~ Satisfiable(both)
                  /\ (/\ \A c \in both : BoundOf(c) # {} /\ Satisfiable({c})
                      /\ a.condition.fieldId = b.condition.fieldId /\ ~ Satisfiable(both)) => told

\* Two bars at least, and each brings a value for all that has any.
EvenlyFilled ==
    /\ Len(bars) >= 2
    /\ \A i \in DOMAIN bars, j \in DOMAIN BarValues : DOMAIN BarValues[j] \subseteq DOMAIN bars[i]

\* A comparison, or a condition over time of one, reads numbers: getSeries has no other points.
ReadsNumbers(c) ==
    \A id \in CollectCatalogRefs(c) :
        Listed(id) /\ \E s \in ResolveSeriesValue(id) : s.valueType = "number"

\* What a valid condition may ask and the data, though there, never answers: a
\* comparison of two dates, or of two texts, and a condition over time of an
\* answer that is no number's; a day that is no date, and a baseline that is
\* an index, a group of peers or zero.
Undecidable(c) ==
    CASE c.type = "series_comparison" -> ~ ReadsNumbers(c)
      [] c.type = "temporal" ->
           \/ c.condition.type \notin {"scalar", "range", "series_comparison"}
           \/ ~ ReadsNumbers(c.condition)
      [] c.type = "event_relative" ->
           \A v \in FieldValue(bars, c.eventTypeId) : ResolveDaysFromEvent(v, c.direction) = {}
      [] c.type = "relative" ->
           \/ c.baseline.kind # "own_moving_average"
           \/ \A b \in ResolveBaseline(c.baseline, c.fieldId, bars) : b.sum = 0
      [] OTHER -> FALSE

\* A report without a blocking problem means that every condition switched on
\* is answered for an instrument with a history, but for those just named.
ValidIsAnswered(found) ==
    EvenlyFilled /\ Valid(found) =>
        \A n \in ReachedConditions(Tree) :
            EvaluateCondition(n.condition, bars).unavailable = Undecidable(n.condition)

\* No problem is told of a node the run will not look at.
ProblemsAreOfTheRun(found) == \A p \in found : p.nodes \cap SkippedNodeIds(Tree) = {}

\* Whether a condition passed on each day, taken as the last.
PassedOn(c) ==
    LET today == IF c.type = "series_comparison" THEN [c EXCEPT !.operator = "op.crosses_above"]
                 ELSE c
    IN  [day \in DOMAIN bars |-> EvaluateCondition(today, SubSeq(bars, 1, day)).passed]

WindowAgrees(c, passed, on) ==
    LET days == {d \in DOMAIN bars : d > Len(bars) - c.withinBars}
    IN  CASE c.condition.type = "series_comparison" ->
               c.event = "crossed_above" => (passed <=> \E d \in days \ {1} : on[d])
          [] c.event = "became_true" -> passed <=> \E d \in days : on[d]
          [] c.event = "crossed_above" ->
               passed <=> \E d \in days \ {1} : on[d] /\ ~ on[d - 1]
          [] c.event = "crossed_below" ->
               passed <=> \E d \in days \ {1} : on[d - 1] /\ ~ on[d]

\* A condition over time passes when on one of the last bars, taken as the
\* last, the inner condition passed, changed to it or from it; crossing above,
\* asked of two series, is the crossing the comparison itself would have met.
TemporalIsHistory ==
    EvenlyFilled =>
        \A c \in {n.condition : n \in ReachedConditions(Tree)} :
            c.type = "temporal" /\ ~ Undecidable(c) =>
                WindowAgrees(c, EvaluateCondition(c, bars).passed, PassedOn(c.condition))

\* A condition the catalog refuses is in the tree only where a definition
\* brought it in switched off.
RefusedOnlyIfDormant(found) ==
    \A p \in found : p.code \in {unknown, invalid} => p.nodes \subseteq dormant

\* A ranking is stored as it will be read.
RankingReadsBack == NormalizeRanking(definition.ranking) = definition.ranking

\* What the report promises, but for a history only on the definition itself.
ReportHolds(found) ==
    /\ bars = <<>> => /\ ContradictionsExact(found)
                     /\ ProblemsAreOfTheRun(found)
                     /\ RefusedOnlyIfDormant(found)
    /\ ValidIsAnswered(found)

\* A screener holds what the tools promise of it: contradictions are told
\* exactly, a valid one is answered, problems are of nodes that run, conditions
\* over time agree with the history they are about, nothing the catalog refuses
\* is switched on unless it came in switched off, and the ranking is kept.
ScreenersHold ==
    /\ ReportHolds(ValidateScreenerDefinition(definition))
    /\ RankingReadsBack
    /\ TemporalIsHistory
=============================================================================
