--------------------------- MODULE ScreenerAnswer ---------------------------
(***************************************************************************)
(* What a screener run says and how explain_result accounts for it: the    *)
(* stored filter tree and its edits, the two evaluators that answer        *)
(* run_screener (the backend behind HttpScreenerEvaluationPort, and the    *)
(* in-browser engine), the pinned run, and the explanation read from it,   *)
(* in one session of one page.                                             *)
(*                                                                         *)
(* Market data is abstracted to what the tree and the ranking can tell     *)
(* apart: per instrument, whether each condition holds, fails or has no    *)
(* data, and a small number or nothing for each ranking field.  Scores are *)
(* in units of 1/Scale: a percentile of at most three instruments is a     *)
(* whole number of them, as is its place between two bounds that are one,  *)
(* two or three apart; a z-score is rounded towards zero.                  *)
(***************************************************************************)
EXTENDS FilterTree, FiniteSetsExt

CONSTANTS
    Conditions,     \* the conditions an edit may name
    Shapes,         \* the definitions define_screener is called with
    MarketData,        \* instrument -> [facts, values]; an instrument is a number, in name order
    Rankings,       \* [fields, normalization, tieBreak, limit]: fields is a sequence of
                    \* [fieldId, direction, weight], tieBreak a [fieldId, direction] or Untied
    Untied,         \* no tie-break declared
    NoRanking,
    NoRun,
    NoValue,        \* the null of a ranking value
    Evaluators,     \* {"backend", "browser"}
    MaxEdits        \* bound: edits of a tree after it was defined

Scale == 12

ASSUME MarketDataAssumption ==
    \A m \in MarketData : DOMAIN m \in SUBSET (1 .. 3) \ {{}}

VARIABLES
    filterTree,     \* as the workspace document stores it
    lastFilter,     \* the session's counter for filter ids
    edits,          \* edits made since the tree was defined
    run             \* the pinned run, or NoRun

answerVars == <<filterTree, lastFilter, edits, run>>

-----------------------------------------------------------------------------
(* The in-browser engine (screener/engine).                                *)

Combine(op, results) ==
    \/ results = <<>>
    \/ op = "and" /\ \A i \in DOMAIN results : results[i]
    \/ op = "or" /\ \E i \in DOMAIN results : results[i]
    \/ op = "not" /\ ~ results[1]

Entry(node, passed, unavailable) ==
    [nodeId |-> node.nodeId, passed |-> passed, unavailable |-> unavailable]

\* A skipped node answers TRUE to its parent, which counts the answer.
RECURSIVE Walk(_, _)
Walk(node, facts) ==
    IF ~ node.enabled THEN [passed |-> TRUE, entries |-> <<>>]
    ELSE IF ~ IsGroup(node)
    THEN LET fact == facts[node.condition]
         IN  [passed |-> fact = "yes",
              entries |-> <<Entry(node, fact = "yes", fact = "unknown")>>]
    ELSE LET kids   == [i \in DOMAIN node.children |-> Walk(node.children[i], facts)]
             passed == Combine(node.op, [i \in DOMAIN kids |-> kids[i].passed])
         IN  [passed |-> passed,
              entries |-> FoldLeft(LAMBDA es, kid : es \o kid.entries, <<>>, kids)
                          \o <<Entry(node, passed, FALSE)>>]

-----------------------------------------------------------------------------
(* The backend's evaluator (backend/domain/filter_evaluation.py and        *)
(* screener_run_engine.py).                                                *)

EnabledOf(node) == SelectSeq(node.children, LAMBDA c : c.enabled)

RECURSIVE EvaluateNode(_, _)
EvaluateNode(node, facts) ==
    IF ~ node.enabled THEN TRUE
    ELSE IF ~ IsGroup(node) THEN facts[node.condition] = "yes"
    ELSE LET kids == EnabledOf(node)
             yes(i) == EvaluateNode(kids[i], facts)
         IN  \/ node.op = "and" /\ \A i \in DOMAIN kids : yes(i)
             \/ node.op = "or" /\ \E i \in DOMAIN kids : yes(i)
             \/ node.op = "not" /\ Len(kids) = 1 /\ ~ yes(1)

RECURSIVE ExplainNode(_, _)
ExplainNode(node, facts) ==
    IF ~ node.enabled THEN <<>>
    ELSE IF ~ IsGroup(node)
    THEN <<Entry(node, facts[node.condition] = "yes", facts[node.condition] = "unknown")>>
    ELSE <<Entry(node, EvaluateNode(node, facts), FALSE)>> \o
         FoldLeft(LAMBDA es, c : es \o ExplainNode(c, facts), <<>>, node.children)

Evaluate(evaluator, node, facts) ==
    IF evaluator = "browser" THEN Walk(node, facts)
    ELSE [passed |-> EvaluateNode(node, facts), entries |-> ExplainNode(node, facts)]

-----------------------------------------------------------------------------
(* Ranking.  `values` gives a number to each compared instrument.          *)

Below(values, v) == Cardinality({j \in DOMAIN values : values[j] < v})
Equal(values, v) == Cardinality({j \in DOMAIN values : values[j] = v})

\* engine/ranking.ts and, word for word, explanationRanking.ts: three ways of
\* placing a value among the others, of which the last may be negative.
PercentileRank(values, v) ==
    ((2 * Below(values, v) + Equal(values, v)) * Scale) \div (2 * Cardinality(DOMAIN values))

MinMax(values, v) ==
    LET min == Min(Range(values))
        max == Max(Range(values))
    IN  IF max = min THEN Scale \div 2 ELSE ((v - min) * Scale) \div (max - min)

\* With n values the square of a z-score is that of n times the value's distance
\* from the mean over n squared times the variance, all of them whole numbers.
ZScore(values, v) ==
    LET n        == Cardinality(DOMAIN values)
        total    == FoldFunction(LAMBDA x, y : x + y, 0, values)
        squares  == FoldFunction(LAMBDA x, y : x * x + y, 0, values)
        distance == n * v - total
        spread   == n * squares - total * total
        square   == (distance * distance * Scale * Scale) \div spread
        root     == CHOOSE k \in 0 .. square : k * k <= square /\ square < (k + 1) * (k + 1)
    IN  IF spread = 0 THEN 0 ELSE IF distance < 0 THEN - root ELSE root

DirectedContribution(method, values, v, direction) ==
    LET normalized == CASE method = "z_score" -> ZScore(values, v)
                        [] method = "min_max" -> MinMax(values, v)
                        [] method = "percentile_rank" -> PercentileRank(values, v)
    IN  IF direction = "desc" THEN normalized
        ELSE IF method = "z_score" THEN - normalized ELSE Scale - normalized

\* _percentile_ranks: 1 for the most desirable, 0 for the least, 1 for the only one.
BackendPercentile(values, v, direction) ==
    LET n      == Cardinality(DOMAIN values)
        better == IF direction = "desc" THEN n - Below(values, v) - Equal(values, v)
                                        ELSE Below(values, v)
    IN  IF n = 1 THEN Scale
        ELSE Scale - ((2 * better + Equal(values, v) - 1) * Scale) \div (2 * (n - 1))

\* The backend takes every ranking for one by percentiles.
ContributionBy(evaluator, method, values, v, direction) ==
    IF evaluator = "browser" THEN DirectedContribution(method, values, v, direction)
                             ELSE BackendPercentile(values, v, direction)

Numbers(values) == [i \in {j \in DOMAIN values : values[j] # NoValue} |-> values[i]]

FieldIds(ranking) == {ranking.fields[k].fieldId : k \in DOMAIN ranking.fields}

\* The composite of one instrument; peers[field] are the numbers compared with.
Composite(evaluator, ranking, own, peers) ==
    FoldLeft(LAMBDA sum, f :
                 IF own[f.fieldId] = NoValue THEN sum
                 ELSE sum + f.weight * ContributionBy(evaluator, ranking.normalization,
                                                      peers[f.fieldId], own[f.fieldId],
                                                      f.direction),
             0, ranking.fields)

Peers(ids, ranking, valuesOf) ==
    [f \in FieldIds(ranking) |-> Numbers([i \in ids |-> valuesOf[i][f]])]

Score(evaluator, ranking, matched, valuesOf, i) ==
    IF ranking = NoRanking THEN 0
    ELSE Composite(evaluator, ranking, valuesOf[i], Peers(matched, ranking, valuesOf))

\* The tie-break, which the backend does not look at, and only where both
\* candidates have a value of it.
TieBreak(evaluator, ranking, valuesOf, a, b) ==
    IF evaluator = "backend" \/ ranking = NoRanking THEN FALSE
    ELSE IF ranking.tieBreak = Untied THEN FALSE
    ELSE LET u == valuesOf[a][ranking.tieBreak.fieldId]
             w == valuesOf[b][ranking.tieBreak.fieldId]
         IN  /\ u # NoValue /\ w # NoValue
             /\ IF ranking.tieBreak.direction = "asc" THEN u < w ELSE u > w

\* By score, by the tie-break, by the id.
RankedBefore(evaluator, ranking, score, valuesOf, a, b) ==
    \/ score[a] > score[b]
    \/ /\ score[a] = score[b]
       /\ \/ TieBreak(evaluator, ranking, valuesOf, a, b)
          \/ ~ TieBreak(evaluator, ranking, valuesOf, b, a) /\ a < b

\* A missing value makes the comparison go round in circles, and then the sort
\* leaves one of the orders in which no neighbours are the wrong way about.
Orders(evaluator, ranking, matched, score, valuesOf) ==
    {order \in SetToSeqs(matched) : \A k \in 1 .. Len(order) - 1 :
        RankedBefore(evaluator, ranking, score, valuesOf, order[k], order[k + 1])}

LimitOf(evaluator, ranking) ==
    IF ranking # NoRanking THEN ranking.limit
    ELSE IF evaluator = "browser" THEN 100 ELSE 50

-----------------------------------------------------------------------------
(* A run: matches in rank order, and what is kept of the others.           *)

RankingValues(ranking, values) ==
    IF ranking = NoRanking THEN [f \in {} |-> NoValue]
    ELSE [f \in FieldIds(ranking) |-> values[f]]

\* Everything the engine saw and does not return; the HTTP port keeps nothing.
RejectedEvaluations(evaluator, market, results, matched, returned, ranking) ==
    IF evaluator = "backend" THEN [i \in {} |-> <<>>]
    ELSE [i \in DOMAIN market \ returned |->
            [entries |-> results[i].entries,
             ranked  |-> i \in matched,
             values  |-> IF i \in matched THEN RankingValues(ranking, market[i].values)
                                          ELSE [f \in {} |-> NoValue]]]

\* The run an order of the matches makes.
Completed(evaluator, tree, ranking, market, results, score, order) ==
    LET returned == SubSeq(order, 1, Min({Len(order), LimitOf(evaluator, ranking)}))
        matched  == ToSet(order)
    IN  [evaluator |-> evaluator, filterTree |-> tree, ranking |-> ranking,
         universeCount |-> Cardinality(DOMAIN market),
         matchedCount |-> Cardinality(matched),
         matches |-> [k \in DOMAIN returned |->
                        [instrumentId |-> returned[k],
                         compositeScore |-> score[returned[k]],
                         values |-> RankingValues(ranking, market[returned[k]].values),
                         entries |-> results[returned[k]].entries]],
         rejected |-> RejectedEvaluations(evaluator, market, results, matched,
                                          ToSet(returned), ranking)]

Execute(evaluator, tree, ranking, market) ==
    LET results  == [i \in DOMAIN market |-> Evaluate(evaluator, tree, market[i].facts)]
        matched  == {i \in DOMAIN market : results[i].passed}
        valuesOf == [i \in matched |-> market[i].values]
        score    == [i \in matched |-> Score(evaluator, ranking, matched, valuesOf, i)]
    IN  {Completed(evaluator, tree, ranking, market, results, score, order) :
            order \in Orders(evaluator, ranking, matched, score, valuesOf)}

-----------------------------------------------------------------------------
(* explain_result: the definition's tree walked again over the entries the *)
(* run kept, in three values.                                              *)

\* The entry written last under the id.
EntryOf(entries, id) == SelectLastInSeq(entries, LAMBDA e : e.nodeId = id)

ResolveGroupOutcome(op, outcomes) ==
    LET some(o) == \E k \in DOMAIN outcomes : outcomes[k] = o
    IN  CASE outcomes = <<>> -> "pass"
          [] outcomes # <<>> /\ op = "not" ->
                [pass |-> "fail", fail |-> "pass", indeterminate |-> "indeterminate"][outcomes[1]]
          [] outcomes # <<>> /\ op = "and" ->
                IF some("fail") THEN "fail"
                ELSE IF some("indeterminate") THEN "indeterminate" ELSE "pass"
          [] outcomes # <<>> /\ op = "or" ->
                IF some("pass") THEN "pass"
                ELSE IF some("indeterminate") THEN "indeterminate" ELSE "fail"

\* "none" is the null outcome of a node that was never evaluated.
RECURSIVE AssembleNode(_, _, _)
AssembleNode(node, entries, ancestorEnabled) ==
    LET enabled == node.enabled /\ ancestorEnabled
    IN  IF ~ enabled THEN "none"
        ELSE IF IsGroup(node)
        THEN ResolveGroupOutcome(node.op,
                 SelectSeq([k \in DOMAIN node.children |->
                              AssembleNode(node.children[k], entries, enabled)],
                           LAMBDA o : o # "none"))
        ELSE LET k == EntryOf(entries, node.nodeId)
             IN  IF k = 0 \/ entries[k].unavailable THEN "indeterminate"
                 ELSE IF entries[k].passed THEN "pass" ELSE "fail"

\* Variant: the peers of a score taken from the returned matches alone.
PeerValuesForField_Returned(r, field) ==
    LET returned == {k \in DOMAIN r.matches : r.matches[k].values[field] # NoValue}
    IN  [k \in returned |-> r.matches[k].values[field]]

\* The matched set's numbers for a field, rebuilt from the returned matches and
\* the candidates the limit cut off.
PeerValuesForField(r, field) ==
    LET returned == {k \in DOMAIN r.matches : r.matches[k].values[field] # NoValue}
        cut      == {i \in DOMAIN r.rejected :
                        r.rejected[i].ranked /\ r.rejected[i].values[field] # NoValue}
    IN  [p \in {<<"match", k>> : k \in returned} \cup {<<"cut", i>> : i \in cut} |->
            IF p[1] = "match" THEN r.matches[p[2]].values[field]
                              ELSE r.rejected[p[2]].values[field]]

MatchIndex(r, i) == SelectInSeq(r.matches, LAMBDA m : m.instrumentId = i)

\* A rank and a score for a match; no rank and no score for a rejected candidate;
\* nothing at all for an instrument the run kept no word of.
ExplainResult(r, i) ==
    LET k == MatchIndex(r, i)
    IN  IF k > 0
        THEN [rank |-> k,
              outcome |-> AssembleNode(r.filterTree, r.matches[k].entries, TRUE),
              compositeScore |->
                IF r.ranking = NoRanking THEN 0
                ELSE Composite("browser", r.ranking, r.matches[k].values,
                               [f \in FieldIds(r.ranking) |-> PeerValuesForField(r, f)])]
        ELSE IF i \in DOMAIN r.rejected
        THEN [rank |-> 0, outcome |-> AssembleNode(r.filterTree, r.rejected[i].entries, TRUE),
              compositeScore |-> 0]
        ELSE [rank |-> 0, outcome |-> "not_in_universe", compositeScore |-> 0]

-----------------------------------------------------------------------------
(* The tools.  edit_filter_tree reads the stored tree, applies one         *)
(* operation and writes the result, repaired; a refused operation leaves   *)
(* everything as it was.  The repair on reading finds nothing left to do.  *)

Write(tree) ==
    /\ filterTree' = Normalize(tree)
    /\ edits' = edits + 1
    /\ UNCHANGED run

\* Bound: MaxEdits edits; with a run kept, the tree it answered for is edited once,
\* by enabling or disabling a node.
Editable == run = NoRun /\ edits < MaxEdits
OnceMore == edits < MaxEdits /\ (run # NoRun => run.filterTree = filterTree)

Mint == lastFilter' = lastFilter + 1

RunAdd == \E parent \in ToSet(NodeIds(filterTree)), c \in Conditions :
    /\ Editable
    /\ CanAdd(filterTree, parent) /\ Mint
    /\ Write(AddNode(filterTree, lastFilter', parent, c))

RunUpdate == \E id \in ToSet(NodeIds(filterTree)), c \in Conditions :
    /\ Editable /\ CanUpdate(filterTree, id)
    /\ Write(UpdateCondition(filterTree, id, c)) /\ UNCHANGED lastFilter

RunRemove == \E id \in ToSet(NodeIds(filterTree)) :
    /\ Editable /\ CanRemove(filterTree, id)
    /\ Write(Without(filterTree, id)) /\ UNCHANGED lastFilter

RunSetEnabled == \E id \in ToSet(NodeIds(filterTree)), on \in BOOLEAN :
    /\ OnceMore
    /\ Write(SetEnabled(filterTree, id, on)) /\ UNCHANGED lastFilter

\* Two or three nodes named in some order; nodes that are not siblings are refused.
Namings(ids) == [1 .. 2 -> ids] \cup [1 .. 3 -> ids]

RunGroup == \E g \in ToSet(Nodes(filterTree)), op \in {"and", "or", "not"} :
  \E ids \in Namings(IF IsGroup(g) THEN ToSet(ChildIds(g)) ELSE {}) :
    /\ Editable
    /\ CanGroup(filterTree, ids, op) /\ Mint
    /\ Write(GroupNodes(filterTree, lastFilter', ids, op))

RunReorder == \E parent \in ToSet(NodeIds(filterTree)) :
    /\ Editable /\ CanAdd(filterTree, parent)
    /\ \E ids \in SetToSeqs(ToSet(ChildIds(Node(filterTree, parent)))) :
        /\ CanReorder(filterTree, parent, ids)
        /\ Write(ReorderChildren(filterTree, parent, ids)) /\ UNCHANGED lastFilter

\* define_screener replaces the whole tree, with ids of its own.
DefineScreener == \E shape \in Shapes :
    /\ run = NoRun
    /\ edits = 0 /\ lastFilter = 1   \* bound: defined once, before any edit
    /\ WellShaped(shape)
    /\ filterTree' = Normalize(Numbered(shape, lastFilter + 1))
    /\ lastFilter' = lastFilter + Size(shape)
    /\ UNCHANGED <<edits, run>>

\* run_screener pins what the evaluator answered, with the tree it answered for.
RunScreener == \E evaluator \in Evaluators, market \in MarketData,
                  ranking \in Rankings \cup {NoRanking} :
    /\ run = NoRun
    /\ run' \in Execute(evaluator, filterTree, ranking, market)
    /\ UNCHANGED <<filterTree, lastFilter, edits>>

AnswerInit ==
    /\ filterTree = Group(1, "and", <<>>)
    /\ lastFilter = 1 /\ edits = 0 /\ run = NoRun

AnswerNext == RunAdd \/ RunUpdate \/ RunRemove \/ RunSetEnabled \/ RunGroup \/ RunReorder
              \/ DefineScreener \/ RunScreener

AnswerSpec == AnswerInit /\ [][AnswerNext]_answerVars

-----------------------------------------------------------------------------
\* The two evaluators and the explanation part ways over a group that has nothing
\* enabled to combine, and the browser's over any disabled child of an "or" or a
\* "not"; elsewhere they must agree.
RECURSIVE AgreesOn(_, _)
AgreesOn(evaluator, node) ==
    node.enabled /\ IsGroup(node) =>
        /\ node.op # "and" =>
              IF evaluator = "browser" THEN EnabledOf(node) = node.children
                                       ELSE EnabledOf(node) # <<>>
        /\ \A k \in DOMAIN node.children : AgreesOn(evaluator, node.children[k])

\* A pinned run can be accounted for from what it kept: no match is explained as
\* having failed the filter, one with all its data is explained as having passed,
\* a candidate the filter turned away is never explained as having passed, every
\* instrument of the universe is in exactly one of the two lists, and the score
\* explain_result recomputes from the kept ranking values is the score the engine
\* ranked by -- also when the limit cut the run short and the tree has since been
\* edited.  (explainResult.ts, explanationAssembly.ts, engine/engine.ts)
RunExplainsItself ==
    run # NoRun /\ AgreesOn(run.evaluator, run.filterTree) =>
        /\ \A k \in DOMAIN run.matches :
            LET m == run.matches[k]
                e == ExplainResult(run, m.instrumentId)
            IN  /\ e.rank = k
                /\ e.outcome # "fail"
                /\ (\A j \in DOMAIN m.entries : ~ m.entries[j].unavailable) =>
                      e.outcome = IF run.filterTree.enabled THEN "pass" ELSE "none"
                /\ run.evaluator = "browser" => e.compositeScore = m.compositeScore
        /\ run.evaluator = "browser" =>
            /\ \A i \in DOMAIN run.rejected :
                  /\ MatchIndex(run, i) = 0
                  /\ ~ run.rejected[i].ranked => ExplainResult(run, i).outcome # "pass"
            /\ Len(run.matches) + Cardinality(DOMAIN run.rejected) = run.universeCount

Content(node) == IF IsGroup(node) THEN <<"group", node.enabled, node.op>>
                                  ELSE <<"condition", node.enabled, node.condition>>

OrderKept(old, new) ==
    LET kids(tree) == ChildIds(tree)
    IN  SelectSeq(kids(old), LAMBDA n : n \in ToSet(kids(new)))
            = SelectSeq(kids(new), LAMBDA n : n \in ToSet(kids(old)))

Emptied(old, new) == IsGroup(new) /\ old.op = "not" /\ new.children = <<>>

\* The same instruments pass, whichever evaluator is asked and whatever the data.
SameAnswers(old, new) ==
    \A facts \in [Conditions -> {"yes", "no", "unknown"}], e \in {"backend", "browser"} :
        Evaluate(e, old, facts).passed = Evaluate(e, new, facts).passed

TouchesOne(old, new) ==
    LET before  == ToSet(NodeIds(old))
        after   == ToSet(NodeIds(new))
        common  == before \cap after
        gone    == before \ after
        added   == after \ before
        groups  == {n \in common : IsGroup(Node(old, n))}
        altered == {n \in common : /\ Content(Node(old, n)) # Content(Node(new, n))
                                   /\ ~ Emptied(Node(old, n), Node(new, n))}
        shuffled == {n \in groups : ~ OrderKept(Node(old, n), Node(new, n))}
        parent(tree, n) == {g \in ToSet(NodeIds(tree)) :
                               /\ IsGroup(Node(tree, g))
                               /\ n \in ToSet(ChildIds(Node(tree, g)))}
    IN  /\ Cardinality(altered) + Cardinality(added) + Cardinality(shuffled)
               + (IF gone = {} THEN 0 ELSE 1) <= 1
        /\ gone # {} => \E r \in gone : gone = ToSet(NodeIds(Node(old, r)))
        /\ \A n \in common :
              \/ parent(new, n) = parent(old, n)
              \/ \E g \in added : parent(new, n) = {g} /\ parent(new, g) = parent(old, n)
        /\ LET regrouped == \E g \in added : /\ IsGroup(Node(new, g))
                                             /\ \E p \in parent(new, g) :
                                                   Node(new, p).op = Node(new, g).op
            IN  shuffled # {} \/ regrouped => SameAnswers(old, new)

\* An edit of the tree changes the one thing it names: at most one node's content,
\* one new node, one whole subtree removed or one group's order, with every other
\* node where it was and in its old order (a "not" that loses its child apart);
\* and putting siblings in a group of their parent's own kind, or in another
\* order, never changes which instruments pass.  (screener/filterTree.ts, read
\* back through normalizeGroupNode.)
EditsKeepTheRest ==
    [][ edits' # edits => TouchesOne(filterTree, filterTree') ]_answerVars
=============================================================================
