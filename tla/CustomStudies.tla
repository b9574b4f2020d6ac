----------------------------- MODULE CustomStudies -----------------------------
(***************************************************************************)
(* Computed fields and custom studies (workbench/followup): expression     *)
(* trees that are validated against the catalog and stored as items of the *)
(* catalog themselves, so later expressions build on them, while changes   *)
(* are undone and the page is loaded again; and the overrides a call of a  *)
(* custom study may make.  An expression is given by its nodes: a function *)
(* from paths, which are sequences of "left" and "right", to what each     *)
(* node holds besides its operands.  An id is a pair <<name, number>>, a   *)
(* value [type, n].  Labels, times and the texts of errors are left out,   *)
(* and a call that is refused changes nothing and is no step.              *)
(*                                                                         *)
(* Two ways lead to a record.  A tool validates what it is sent and then   *)
(* calls the registered operation.  A preview that is applied calls the    *)
(* operation with what the caller claims: it checks the name only, and     *)
(* mints from the shared sequencer, which is seeded for panels alone, so   *)
(* it may give out an id that is taken and replace the record there.       *)
(***************************************************************************)
EXTENDS Integers, Sequences, FiniteSets, FiniteSetsExt, Functions

CONSTANTS
  Builtin,          \* the built-in catalog: id -> item
  Raws,             \* the expressions callers send
  Declarations,     \* the parameters callers declare: name -> binding
  Claims,           \* the expressions, types and parameters previews are sent as validated
  ItemNames,
  maxDepth, maxNodes, maxLookbackBars,   \* DEFAULT_EXPRESSION_LIMITS
  NoRange,          \* a declaration that names no range
  MaxItems,         \* bound: ids of a kind that the tools mint
  MaxPreviewed,     \* bound: ids of a kind that previews mint in one page load
  MaxHeld           \* bound: records held

-----------------------------------------------------------------------------
(* Expressions and the items of the catalog *)

Types == {"number", "boolean", "string", "date", "enum"}
LiteralTypes == Types \ {"date", "enum"}
Operators == [arithmetic |-> {"+", "-", "*", "/"},
              comparison |-> {">", "<", ">=", "<=", "==", "!="}]
IsBinary(node) == node.kind \in DOMAIN Operators
Operand(path, side) == Append(path, side)

IsNode(node) ==
  \/ node.kind = "literal" /\ node.value.type \in LiteralTypes
  \/ node.kind = "field_ref"
  \/ /\ node.kind = "function_call"
     /\ node = [kind |-> node.kind, id |-> node.id, args |-> node.args,
                outputName |-> node.outputName]
  \/ IsBinary(node) /\ node.op \in Operators[node.kind]

\* Every node is the root or an operand, and a binary node has both.
IsExpression(expression) ==
  /\ expression = [path \in DOMAIN expression |-> expression[path]]
  /\ DOMAIN expression \subseteq Seq({"left", "right"})
  /\ DOMAIN expression =
       {<<>>} \union {Operand(path, side) : path \in {p \in DOMAIN expression : IsBinary(expression[p])},
                                          side \in {"left", "right"}}
  /\ \A path \in DOMAIN expression : IsNode(expression[path])

\* A parameter of a number has a range; an end that is not given is farther
\* than any number.
IsRange(range) == range \in [min: Int, max: Int]
IsParameter(p) ==
  /\ p = [type |-> p.type, unit |-> p.unit, default |-> p.default, required |-> p.required,
          range |-> p.range]
  /\ p.type = "number" => IsRange(p.range)
IsItem(item) ==
  /\ item.kind = "field" => item.type \in Types
  /\ item.kind = "study" =>
       /\ \A p \in DOMAIN item.parameters : IsParameter(item.parameters[p])
       /\ \A o \in DOMAIN item.outputs : item.outputs[o].type \in Types

ASSUME CustomStudiesAssumption ==
  /\ maxDepth \in Nat /\ maxNodes \in Nat /\ maxLookbackBars \in Nat
  /\ \A raw \in Raws : IsExpression(raw)
  /\ \A id \in DOMAIN Builtin : IsItem(Builtin[id]) /\ id[1] \notin {"field", "study"}
  /\ ~IsRange(NoRange)
  /\ \A parameters \in Declarations : \A p \in DOMAIN parameters :
       parameters[p].range = NoRange \/ IsRange(parameters[p].range)
  \* What is claimed has the shape that a reader takes for a record: anything
  \* else is stored too, and read as if it were not there.
  /\ \A claim \in Claims :
       /\ claim.type \in Types
       /\ \A p \in DOMAIN claim.catalogParameters : IsParameter(claim.catalogParameters[p])

VARIABLES
  followups,         \* the stored fields and studies: id -> record
  followupsBefore,   \* what was stored before the newest change, or NoDoc
  sequence,          \* the sequencer of the tools of this load: the last number of each kind
  sharedSequence     \* the shared sequencer of previews: the same

customVars == <<followups, followupsBefore, sequence, sharedSequence>>

NoDoc == <<>>
Val(type, n) == [type |-> type, n |-> n]
None == "none"   \* an undefined unit or outputName
NoDefault == Val(None, 0)
Typed(type, unit) == [ok |-> TRUE, type |-> type, unit |-> unit]
Invalid == [ok |-> FALSE, type |-> None, unit |-> None]
InRange(n, range) == range.min <= n /\ n <= range.max

-----------------------------------------------------------------------------
(* The catalog of a workspace *)

FieldItem(record) == [kind |-> "field", type |-> record.type, unit |-> record.unit]
StudyItem(record) ==
  [kind |-> "study", parameters |-> record.catalogParameters,
   outputs |-> [value |-> [type |-> record.type, unit |-> record.unit]]]

\* composeWorkspaceCatalogRegistry, getCatalogItem: the overlay first.
Catalog(d) ==
  [id \in DOMAIN Builtin \union DOMAIN d.fields \union DOMAIN d.studies |->
     IF id \in DOMAIN d.fields THEN FieldItem(d.fields[id])
     ELSE IF id \in DOMAIN d.studies THEN StudyItem(d.studies[id]) ELSE Builtin[id]]

-----------------------------------------------------------------------------
(* validateExpression *)

\* validateArgValue
ValidArg(parameter, value) ==
  /\ value.type = parameter.type
  /\ value.type = "number" =>
       InRange(value.n, parameter.range) /\ (parameter.unit = "bars" => value.n <= maxLookbackBars)

\* resolveArgs: what is not supplied takes its default.
Args(item, supplied) ==
  [p \in DOMAIN item.parameters |->
     IF p \in DOMAIN supplied THEN supplied[p] ELSE item.parameters[p].default]
ArgsResolve(item, supplied) ==
  /\ DOMAIN supplied \subseteq DOMAIN item.parameters
  /\ \A p \in DOMAIN item.parameters \ DOMAIN supplied :
       ~item.parameters[p].required /\ item.parameters[p].default # NoDefault
  /\ \A p \in DOMAIN item.parameters : ValidArg(item.parameters[p], Args(item, supplied)[p])

\* resolveOutputName: an output that is not named must be the only one.
OutputName(item, raw) ==
  IF raw.outputName # None THEN raw.outputName
  ELSE IF Cardinality(DOMAIN item.outputs) = 1
       THEN CHOOSE o \in DOMAIN item.outputs : TRUE ELSE None

ResolveFunctionCall(catalog, call) ==
  IF call.id \notin DOMAIN catalog \/ catalog[call.id].kind # "study" THEN Invalid
  ELSE LET item == catalog[call.id]
           output == OutputName(item, call)
       IN  IF ~ArgsResolve(item, call.args) \/ output \notin DOMAIN item.outputs THEN Invalid
           ELSE Typed(item.outputs[output].type, item.outputs[output].unit)

UnitsConflict(a, b) == a # None /\ b # None /\ a # b
OnlyUnit(a, b) == IF a = None THEN b ELSE a

\* Variant: the types of the operands of an arithmetic node are not compared.
ArithmeticResult_Untyped(op, left, right) == Typed("number", OnlyUnit(left.unit, right.unit))

\* resolveArithmeticResult, resolveComparisonResult
ArithmeticResult(op, left, right) ==
  IF left.type # "number" \/ right.type # "number" THEN Invalid
  ELSE IF op \in {"+", "-"}
  THEN IF UnitsConflict(left.unit, right.unit) THEN Invalid
       ELSE Typed("number", OnlyUnit(left.unit, right.unit))
  ELSE Typed("number", IF left.unit # None /\ right.unit # None THEN None
                       ELSE OnlyUnit(left.unit, right.unit))
ComparisonResult(left, right) ==
  IF left.type # right.type \/ (left.type = "number" /\ UnitsConflict(left.unit, right.unit))
  THEN Invalid
  ELSE Typed("boolean", None)

\* resolveLiteral, resolveFieldRef, resolveFunctionCall
ResolveLeaf(catalog, node) ==
  CASE node.kind = "literal" -> Typed(node.value.type, None)
    [] node.kind = "field_ref" ->
         IF node.id \notin DOMAIN catalog \/ catalog[node.id].kind # "field" THEN Invalid
         ELSE Typed(catalog[node.id].type, catalog[node.id].unit)
    [] node.kind = "function_call" -> ResolveFunctionCall(catalog, node)

\* resolveNode, at every path: operands before the node they are of.
ResolveBinary(node, left, right) ==
  IF node.kind = "arithmetic" THEN ArithmeticResult(node.op, left, right)
  ELSE ComparisonResult(left, right)
Resolve(catalog, raw) ==
  LET at[path \in DOMAIN raw] ==
        IF IsBinary(raw[path])
        THEN ResolveBinary(raw[path], at[Operand(path, "left")], at[Operand(path, "right")])
        ELSE ResolveLeaf(catalog, raw[path])
  IN  at

\* The tree as it is stored: defaults filled in, outputs named.
ResolvedNode(catalog, node) ==
  IF node.kind # "function_call" THEN node
  ELSE [node EXCEPT !.args = Args(catalog[node.id], @),
                    !.outputName = OutputName(catalog[node.id], node)]

ValidateExpression(catalog, raw) ==
  LET at == Resolve(catalog, raw)
  IN  IF Cardinality(DOMAIN raw) <= maxNodes
           /\ \A path \in DOMAIN raw : Len(path) < maxDepth /\ at[path].ok
      THEN [ok |-> TRUE, type |-> at[<<>>].type, unit |-> at[<<>>].unit,
            node |-> [path \in DOMAIN raw |-> ResolvedNode(catalog, raw[path])]]
      ELSE [ok |-> FALSE]

-----------------------------------------------------------------------------
(* evaluateExpression: a row is a context, which answers a field or an      *)
(* output by its type, with a value or with null                            *)

NotAvailable == Val("unavailable", 0)
Truth(b) == Val("boolean", IF b THEN 1 ELSE 0)
Quotient(a, b) == IF b < 0 THEN (-a) \div (-b) ELSE a \div b

\* Strings are joined, and everything else is coerced to a number.
EvaluateArithmetic(op, a, b) ==
  CASE op = "/" /\ b = Val("number", 0) -> NotAvailable
    [] op = "+" /\ "string" \in {a.type, b.type} -> Val("string", a.n + b.n)
    [] op = "+" -> Val("number", a.n + b.n)
    [] op = "-" -> Val("number", a.n - b.n)
    [] op = "*" -> Val("number", a.n * b.n)
    [] op = "/" -> Val("number", Quotient(a.n, b.n))
EvaluateComparison(op, a, b) ==
  CASE op = "==" -> Truth(a = b)   [] op = "!=" -> Truth(a # b)
    [] op = ">" -> Truth(a.n > b.n)   [] op = "<" -> Truth(a.n < b.n)
    [] op = ">=" -> Truth(a.n >= b.n) [] op = "<=" -> Truth(a.n <= b.n)

EvaluateLeaf(catalog, node, row) ==
  CASE node.kind = "literal" -> node.value
    [] node.kind = "field_ref" -> row.field[catalog[node.id].type]
    [] node.kind = "function_call" -> row.output[catalog[node.id].outputs[node.outputName].type]
EvaluateBinary(node, a, b) ==
  IF NotAvailable \in {a, b} THEN NotAvailable
  ELSE IF node.kind = "arithmetic" THEN EvaluateArithmetic(node.op, a, b)
  ELSE EvaluateComparison(node.op, a, b)
Evaluate(catalog, expression, row) ==
  LET at[path \in DOMAIN expression] ==
        IF IsBinary(expression[path])
        THEN EvaluateBinary(expression[path], at[Operand(path, "left")], at[Operand(path, "right")])
        ELSE EvaluateLeaf(catalog, expression[path], row)
  IN  at[<<>>]

-----------------------------------------------------------------------------
(* The parameters of a custom study: a binding is [path, argName, range].   *)

\* Variant: only the lower ends are compared.
IsRangeSubset_Min(inner, outer) == IF NoRange \in {inner, outer} THEN TRUE ELSE inner.min >= outer.min

\* isRangeSubset
IsRangeSubset(inner, outer) ==
  IF NoRange \in {inner, outer} THEN TRUE ELSE inner.min >= outer.min /\ inner.max <= outer.max

\* resolveOneDeclaration
DeclarationHolds(catalog, node, binding) ==
  /\ binding.path \in DOMAIN node /\ node[binding.path].kind = "function_call"
  /\ LET parameters == catalog[node[binding.path].id].parameters
     IN  /\ binding.argName \in DOMAIN parameters
         /\ IsRangeSubset(binding.range, parameters[binding.argName].range)
CatalogParameter(catalog, node, binding) ==
  LET target == node[binding.path]
  IN  [catalog[target.id].parameters[binding.argName] EXCEPT
         !.default = target.args[binding.argName], !.required = FALSE,
         !.range = IF binding.range = NoRange THEN @ ELSE binding.range]

\* resolveCustomStudyExpression: which overrides are taken, and the tree with
\* them at their places; of two bound to one place, one is there.
OverridesHold(study, overrides) ==
  \A p \in DOMAIN overrides \intersect DOMAIN study.parameters :
    LET parameter == study.catalogParameters[p]
    IN  /\ overrides[p].type = parameter.type
        /\ overrides[p].type = "number" => InRange(overrides[p].n, parameter.range)
Bound(study, overrides, path, argName) ==
  {p \in DOMAIN overrides \intersect DOMAIN study.parameters :
     study.parameters[p].path = path /\ study.parameters[p].argName = argName}
WithOverrides(study, overrides) ==
  [path \in DOMAIN study.node |->
     IF study.node[path].kind # "function_call" THEN study.node[path]
     ELSE [study.node[path] EXCEPT !.args =
             [a \in DOMAIN @ |->
                LET bound == Bound(study, overrides, path, a)
                IN  IF bound = {} THEN @[a] ELSE overrides[CHOOSE p \in bound : TRUE]]]]

-----------------------------------------------------------------------------
(* The operations *)

Held(d) == Cardinality(DOMAIN d.fields) + Cardinality(DOMAIN d.studies)
Names(records) == {records[id].name : id \in DOMAIN records}
Store(records, id, record) ==
  [i \in DOMAIN records \union {id} |-> IF i = id THEN record ELSE records[i]]
ChangeCatalog(next) == followups' = next /\ followupsBefore' = followups

\* The records an expression is made of, and whether the tools made them all.
Mentioned(expression) ==
  {expression[path].id : path \in {p \in DOMAIN expression :
                                     expression[p].kind \in {"field_ref", "function_call"}}}
Clean(d, expression) ==
  \A id \in Mentioned(expression) :
    /\ id \in DOMAIN d.fields => d.fields[id].checked
    /\ id \in DOMAIN d.studies => d.studies[id].checked

\* The registered operations: they look at the name and at nothing else.
\* `checked` is no part of the record: it marks what a tool validated and
\* made of the catalog and of such records only, for the properties below.
NameIsFree(records, name) == name \notin Names(records) /\ Held(followups) < MaxHeld
StoreField(id, name, source, checked) ==
  ChangeCatalog([followups EXCEPT !.fields = Store(@, id,
    [name |-> name, node |-> source.node, type |-> source.type, unit |-> source.unit,
     checked |-> checked])])
StoreStudy(id, name, source, parameters, catalogParameters, checked) ==
  ChangeCatalog([followups EXCEPT !.studies = Store(@, id,
    [name |-> name, node |-> source.node, type |-> source.type, unit |-> source.unit,
     parameters |-> parameters, catalogParameters |-> catalogParameters, checked |-> checked])])

\* create_computed_field
CreateComputedField(name, raw) ==
  /\ NameIsFree(followups.fields, name) /\ sequence.field < MaxItems
  /\ LET result == ValidateExpression(Catalog(followups), raw)
     IN  /\ result.ok
         /\ StoreField(<<"field", sequence.field + 1>>, name, result, Clean(followups, result.node))
  /\ sequence' = [sequence EXCEPT !.field = @ + 1] /\ UNCHANGED sharedSequence

\* create_custom_study: the expression first, then the parameters.
CreateCustomStudy(name, raw, parameters) ==
  /\ NameIsFree(followups.studies, name) /\ sequence.study < MaxItems
  /\ LET catalog == Catalog(followups)
         result == ValidateExpression(catalog, raw)
     IN  /\ result.ok
         /\ \A p \in DOMAIN parameters : DeclarationHolds(catalog, result.node, parameters[p])
         /\ StoreStudy(<<"study", sequence.study + 1>>, name, result, parameters,
              [p \in DOMAIN parameters |-> CatalogParameter(catalog, result.node, parameters[p])],
              Clean(followups, result.node))
  /\ sequence' = [sequence EXCEPT !.study = @ + 1] /\ UNCHANGED sharedSequence

\* preview_workspace_changes and apply_workspace_changes of one of the two
\* operations.  The document is the same at both, or the apply is refused.
Mint(kind) ==
  /\ sharedSequence[kind] < MaxPreviewed
  /\ sharedSequence' = [sharedSequence EXCEPT ![kind] = @ + 1] /\ UNCHANGED sequence
ApplyPreviewedField(name, claim) ==
  /\ NameIsFree(followups.fields, name) /\ Mint("field")
  /\ StoreField(<<"field", sharedSequence.field + 1>>, name, claim, FALSE)
ApplyPreviewedStudy(name, claim) ==
  /\ NameIsFree(followups.studies, name) /\ Mint("study")
  /\ StoreStudy(<<"study", sharedSequence.study + 1>>, name, claim,
                claim.parameters, claim.catalogParameters, FALSE)

\* A preview nobody applies: the ids it minted are used up.
DropPreview(kind) == Mint(kind) /\ UNCHANGED <<followups, followupsBefore>>

\* undo_change of the newest record; undoing that brings the change back.
UndoCustomChange ==
  /\ followupsBefore # NoDoc
  /\ followups' = followupsBefore /\ followupsBefore' = followups
  /\ UNCHANGED <<sequence, sharedSequence>>

NoneMinted == [field |-> 0, study |-> 0]
MaxSequence(ids) == Max({id[2] : id \in ids} \union {0})

\* Variant: the sequencer starts from nothing.
ReloadCustom_Unseeded ==
  /\ sequence' = NoneMinted /\ sharedSequence' = NoneMinted
  /\ followupsBefore' = NoDoc /\ UNCHANGED followups

\* A page load: followupIdSeed for the tools, nothing for the previews; the
\* change log is gone.
ReloadCustom ==
  /\ sequence' = [field |-> MaxSequence(DOMAIN followups.fields), study |-> MaxSequence(DOMAIN followups.studies)]
  /\ sharedSequence' = NoneMinted
  /\ followupsBefore' = NoDoc /\ UNCHANGED followups

CustomInit ==
  /\ followups = [fields |-> <<>>, studies |-> <<>>] /\ followupsBefore = NoDoc
  /\ sequence = NoneMinted /\ sharedSequence = NoneMinted

CustomNext ==
  \/ \E name \in ItemNames, raw \in Raws :
       \/ CreateComputedField(name, raw)
       \/ \E parameters \in Declarations : CreateCustomStudy(name, raw, parameters)
  \/ \E name \in ItemNames, claim \in Claims :
       ApplyPreviewedField(name, claim) \/ ApplyPreviewedStudy(name, claim)
  \/ \E kind \in {"field", "study"} : DropPreview(kind)
  \/ UndoCustomChange
  \/ ReloadCustom
CustomSpec == CustomInit /\ [][CustomNext]_customVars

-----------------------------------------------------------------------------
(* Properties *)

\* The contexts of one row: a value of every type, or nothing.
Answers == [Types -> {NotAvailable}]
RowOf(zero, one) == [type \in Types |-> IF type = "number" THEN Val(type, zero) ELSE Val(type, one)]
Rows == {[field |-> f, output |-> o] :
           f, o \in {RowOf(0, 1), RowOf(1, 0)} \union Answers}

\* What the tools made stays what the validator accepted, unless a preview has
\* replaced a record it is made of: against the catalog of the document as it
\* is, after records were added, undone, brought back and ids minted by other
\* page loads and by previews, it validates to itself, and in every row it has
\* a value of the type and the unit it declares, or none at all.
Vouched(records) ==
  {record \in Range(records) : record.checked /\ Clean(followups, record.node)}
StoredStaysValid ==
  LET catalog == Catalog(followups)
  IN  \A record \in Vouched(followups.fields) \union Vouched(followups.studies) :
        LET result == ValidateExpression(catalog, record.node)
        IN  /\ result.ok
            /\ result.node = record.node /\ result.type = record.type /\ result.unit = record.unit
            /\ \A row \in Rows :
                 Evaluate(catalog, record.node, row).type \in {record.type, NotAvailable.type}

\* A call of a custom study goes where its author could have gone: overrides
\* that are taken leave an expression the validator accepts, of the same type
\* and unit (customStudyParameters.ts, "the same discipline
\* expressionValidator.ts uses for authoring-time input").  Of a parameter in
\* bars with no upper end, resolveCustomStudyExpression takes more than
\* maxLookbackBars, which the validator refuses: those overrides are left out.
OverrideValues == {Val("number", n) : n \in 0..maxLookbackBars + 1} \union {Val("string", 0)}
WithinLookback(study, overrides) ==
  \A p \in DOMAIN overrides :
    study.catalogParameters[p].unit = "bars" => overrides[p].n <= maxLookbackBars
OverridesStayValid ==
  LET catalog == Catalog(followups)
  IN  \A study \in Vouched(followups.studies) :
        \A given \in SUBSET DOMAIN study.parameters :
          \A overrides \in [given -> OverrideValues] :
            OverridesHold(study, overrides) /\ WithinLookback(study, overrides) =>
              LET node == WithOverrides(study, overrides)
                  result == ValidateExpression(catalog, node)
              IN  result.ok /\ result.node = node /\ result.type = study.type /\ result.unit = study.unit

\* No record of the tools, and no call of one, is outside what the validator
\* accepts.  Of what a preview stores unseen, and of what was made of it,
\* nothing is said: createComputedField.ts:50-53 says the operation keeps out
\* what the workspace would not accept, and it does not.
CustomStaysValid == StoredStaysValid /\ OverridesStayValid
=============================================================================
