------------------------------ MODULE ChartEdits ------------------------------
(***************************************************************************)
(* Editing what is drawn on a chart: studies (chartStudies.ts, studies.ts) *)
(* and annotations (chartAnnotations.ts, annotations.ts), as stored in the *)
(* chart extension of the document and as read back by normalizeChartState.*)
(* Two sequencers mint ids: the chart tools' own, seeded from the chart at *)
(* load, and the shared one of preview and apply, which is not.            *)
(***************************************************************************)
EXTENDS Integers, Sequences, SequencesExt, FiniteSetsExt, Enumeration

CONSTANTS
  Items,           \* studies of the catalog
  Overlays,        \* the items derivePane draws over the prices
  Paths,           \* how an operation gets to the chart: "tool", "preview"
  MaxStudies,      \* bound: study ids
  MaxAnnotations,  \* bound: annotation ids
  MaxBatch         \* bound: operations of one edit; an addition may be
                   \* followed by another operation

ASSUME ChartEditsAssumption ==
  /\ Overlays \subseteq Items /\ Paths \subseteq {"tool", "preview"}
  /\ MaxStudies \in Nat /\ MaxAnnotations \in Nat /\ MaxBatch \in Nat \ {0}

VARIABLES
  stored,    \* the chart extension: studies and annotations in stored order
  inverse,   \* the chart that undoing the last edit restores, or NoInverse
  minted,    \* per path, the last id its sequencer gave to each kind
  edit       \* the last edit: what was asked and whether it was accepted

editVars == <<stored, inverse, minted, edit>>

StudyIds == 1..MaxStudies
EmptyChart == [studies |-> <<>>, annotations |-> <<>>]
NoInverse == [studies |-> <<>>, annotations |-> <<[id |-> 0]>>]
NoEdit == [op |-> "none", ok |-> TRUE, removed |-> {}, reordered |-> FALSE]
StudiesEdited(ops, ok) ==
  [op |-> "studies", ok |-> ok, reordered |-> \E o \in ToSet(ops) : o.op = "reorder",
   removed |-> {o.studyId : o \in {p \in ToSet(ops) : p.op = "remove"}}]

PaneOf(item) == IF item \in Overlays THEN "price_overlay" ELSE "sub_pane"
InPane(studies, pane) == Picked(studies, {i \in DOMAIN studies : PaneOf(studies[i].item) = pane})
IdsOf(entries) == {e.id : e \in ToSet(entries)}
HighestId(entries) == Max(IdsOf(entries) \union {0})

\* normalizeStudies: overlays first, each pane in its order.
NormalizeStudies(studies) == InPane(studies, "price_overlay") \o InPane(studies, "sub_pane")

\* normalizeAnnotations: of two entries with one id the first is kept.
NormalizeAnnotations(annotations) ==
  Picked(annotations, {i \in DOMAIN annotations :
                         \A j \in 1..i - 1 : annotations[j].id # annotations[i].id})

\* readChartState
ReadChart == [stored EXCEPT !.studies = NormalizeStudies(@), !.annotations = NormalizeAnnotations(@)]

\* chartStateIdSeed
Seed == [study |-> HighestId(ReadChart.studies), annotation |-> HighestId(ReadChart.annotations)]

-----------------------------------------------------------------------------
(* Study operations: a batch is folded, and the first failure ends it *)

\* order 0 leaves the place to runAdd, which appends within the pane.
StudyOperations ==
  UNION {[op: {"add"}, item: Items, order: 0..1],
         [op: {"set", "remove"}, studyId: StudyIds],
         [op: {"reorder"}, orderedIds: {ids \in UNION {[1..n -> StudyIds] : n \in 2..MaxStudies} :
                                          IsInjective(ids)}]}

Batches ==
  {ops \in UNION {[1..n -> StudyOperations] : n \in 1..MaxBatch} :
     Len(ops) > 1 => ops[1].op = "add" /\ ops[1].order = 0 /\ ops[2].op # "reorder"}

Failed(acc) == [acc EXCEPT !.ok = FALSE]

\* addStudy: the new study goes in at its place of its pane.
RunAdd(acc, op) ==
  LET pane == PaneOf(op.item)
      target == InPane(acc.studies, pane)
      others == Picked(acc.studies, {i \in DOMAIN acc.studies : PaneOf(acc.studies[i].item) # pane})
      place == IF op.order = 0 THEN Len(target) + 1 ELSE op.order
      study == [id |-> acc.last + 1, item |-> op.item]
  IN  IF study.id \in IdsOf(acc.studies) \/ place > Len(target) + 1
      THEN Failed([acc EXCEPT !.last = @ + 1])
      ELSE [acc EXCEPT !.last = @ + 1, !.studies = others \o InsertAt(target, place, study)]

\* reorderStudies takes the complete ordering, every study once.
RunReorder(acc, op) ==
  IF ToSet(op.orderedIds) # IdsOf(acc.studies) \/ ~IsInjective(op.orderedIds)
  THEN Failed(acc)
  ELSE [acc EXCEPT !.studies = [i \in DOMAIN op.orderedIds |->
          CHOOSE s \in ToSet(acc.studies) : s.id = op.orderedIds[i]]]

\* runOperation.  What updateStudyParams and toggleStudy set is left out:
\* like removeStudy they name a study of this chart or fail.
RunOperation(acc, op) ==
  CASE op.op = "add" -> RunAdd(acc, op)
    [] op.op = "reorder" -> RunReorder(acc, op)
    [] op.op = "set" -> IF op.studyId \in IdsOf(acc.studies) THEN acc ELSE Failed(acc)
    [] op.op = "remove" ->
         IF op.studyId \in IdsOf(acc.studies)
         THEN [acc EXCEPT !.studies = Picked(@, {i \in DOMAIN @ : @[i].id # op.studyId})]
         ELSE Failed(acc)

\* applyStudyOperations, with a sequencer at last.
ApplyStudyOperations(studies, ops, last) ==
  LET after[n \in 0..Len(ops)] ==
        IF n = 0 THEN [ok |-> TRUE, studies |-> studies, last |-> last]
        ELSE IF after[n - 1].ok THEN RunOperation(after[n - 1], ops[n]) ELSE after[n - 1]
  IN  after[Len(ops)]

-----------------------------------------------------------------------------
(* The operations of the chart *)

Commit(next) == stored' = next /\ inverse' = stored

\* Variant: what the batch did before it failed is kept.
EditStudies_Partial(path, ops) ==
  LET chart == ReadChart
      dry == ApplyStudyOperations(chart.studies, ops, HighestId(chart.studies))
      result == ApplyStudyOperations(chart.studies, ops, minted[path].study)
  IN  /\ result.last <= MaxStudies
      /\ Commit([chart EXCEPT !.studies = result.studies])
      /\ minted' = [minted EXCEPT ![path].study = result.last]
      /\ edit' = StudiesEdited(ops, dry.ok /\ result.ok)

\* chart.edit_studies: a dry run seeded from the chart validates the batch,
\* then it is applied with the ids of the path's own sequencer.
EditStudies(path, ops) ==
  LET chart == ReadChart
      dry == ApplyStudyOperations(chart.studies, ops, HighestId(chart.studies))
      result == ApplyStudyOperations(chart.studies, ops, minted[path].study)
  IN  /\ result.last <= MaxStudies /\ dry.ok
      /\ IF result.ok THEN Commit([chart EXCEPT !.studies = result.studies])
                      ELSE UNCHANGED <<stored, inverse>>
      /\ minted' = [minted EXCEPT ![path].study = result.last]
      /\ edit' = StudiesEdited(ops, result.ok)

\* chart.add_annotation.  (Its times are inside the chart's range: others
\* are refused.  What it is anchored to does not matter here.)
AddAnnotation(path) ==
  LET id == minted[path].annotation + 1
  IN  /\ id <= MaxAnnotations
      /\ Commit([ReadChart EXCEPT !.annotations = Append(@, [id |-> id])])
      /\ minted' = [minted EXCEPT ![path].annotation = id]
      /\ edit' = [NoEdit EXCEPT !.op = "annotate"]

\* undo_change of the last edit; undoing again brings it back.
UndoEdit ==
  /\ inverse # NoInverse
  /\ stored' = inverse /\ inverse' = stored
  /\ UNCHANGED minted /\ edit' = [NoEdit EXCEPT !.op = "undo"]

\* Variant: the chart's sequencer is not seeded.
Reload_Unseeded ==
  /\ inverse' = NoInverse /\ edit' = [NoEdit EXCEPT !.op = "reload"]
  /\ minted' = [p \in Paths |-> [study |-> 0, annotation |-> 0]]
  /\ UNCHANGED stored

\* A load of the page: createChartIdSequencer seeds the chart's sequencer;
\* the shared one is seeded with panels only.
Reload ==
  /\ inverse' = NoInverse /\ edit' = [NoEdit EXCEPT !.op = "reload"]
  /\ minted' = [p \in Paths |-> IF p = "tool" THEN Seed ELSE [study |-> 0, annotation |-> 0]]
  /\ UNCHANGED stored

EditInit ==
  /\ stored = EmptyChart /\ inverse = NoInverse /\ edit = NoEdit
  /\ minted = [p \in Paths |-> [study |-> 0, annotation |-> 0]]

EditNext ==
  \/ \E path \in Paths :
       \/ \E ops \in Batches : EditStudies(path, ops)
       \/ AddAnnotation(path)
  \/ UndoEdit \/ Reload

EditSpec == EditInit /\ [][EditNext]_editVars

-----------------------------------------------------------------------------
(* Properties *)

\* Every drawing that was accepted can be read back until it is undone, and
\* an edit of the studies changes no drawing: ids are never given twice, on
\* whatever path and across page loads.
DrawingsKept ==
  edit'.op # "undo" =>
    LET old == ReadChart.annotations
        new == ReadChart'.annotations
    IN  IsPrefix(old, new) /\ (edit'.op = "annotate" => Len(new) = Len(old) + 1)

Positions(studies, id) == {i \in DOMAIN studies : studies[i].id = id}
Before(studies, a, b) ==
  \E i \in Positions(studies, a), j \in Positions(studies, b) :
    i < j /\ PaneOf(studies[i].item) = PaneOf(studies[j].item)

\* An edit keeps the studies it does not name, under their ids and in their
\* order within the pane, and one that fails changes nothing, whatever the
\* operations of the batch before ("Every transition here preserves the IDs
\* of the studies it does not remove", "if any is invalid, none is applied").
StudiesKeepOrder ==
  edit'.op = "studies" =>
    LET old == ReadChart.studies
        new == ReadChart'.studies
    IN  /\ ~edit'.ok => new = old
        /\ edit'.ok => IdsOf(old) \ edit'.removed \subseteq IdsOf(new)
        /\ ~edit'.reordered =>
             \A a, b \in IdsOf(old) \intersect IdsOf(new) :
               Before(old, a, b) => Before(new, a, b)

\* An edit of a chart leaves everything alone that it does not name.
ChartEditsKeepOthers == [][DrawingsKept /\ StudiesKeepOrder]_editVars
=============================================================================
