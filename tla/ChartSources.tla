----------------------------- MODULE ChartSources -----------------------------
(***************************************************************************)
(* What a chart panel is pointed at (workbench/chart/application/          *)
(* chartSource.ts, chartView.ts, domain/chartState.ts and the chart's      *)
(* entries in the panel registry).  A panel keeps the source it was bound  *)
(* to; what is drawn comes from the chart extension of the document, which *)
(* outlives the panel.  Two ways lead to it: a whole binding through the   *)
(* panel tools, and a patch through chart.bind_source.                     *)
(*                                                                         *)
(* Only chart panels are followed.  An instrument, a timeframe and a range *)
(* are values; how a comparison is normalized is left out.  A call that is *)
(* refused by its own validation is no step.                               *)
(***************************************************************************)
EXTENDS Naturals, Sequences, SequencesExt, FiniteSetsExt, Enumeration

CONSTANTS
  DefaultChart,    \* createChartConfig: a value for each field but the instrument and the comparisons
  Availability,    \* known instrument -> the ranges it has data in
  References,      \* bound: the sources callers bind a panel to
  Patches,         \* bound: the inputs of chart.bind_source: [set, remove, add]
  ViewPatches,     \* bound: the inputs of chart.configure_view
  NoInstrument, NoReference,
  MaxPanels        \* bound: panel ids

ASSUME ChartSourcesAssumption ==
  /\ {"timeframe", "range", "session", "priceAdjustment"} \subseteq DOMAIN DefaultChart
  /\ \A reference \in References :
       /\ DOMAIN reference \subseteq {"instrument", "timeframe", "range", "comparisons"}
       /\ "comparisons" \in DOMAIN reference => reference.comparisons \in Seq(ToSet(reference.comparisons))
  /\ \A patch \in {input.set : input \in Patches} \union ViewPatches :
       DOMAIN patch \subseteq (DOMAIN DefaultChart \union {"instrument"}) \ {"comparisons"}
  /\ \A input \in Patches : input.remove \in Seq(ToSet(input.remove)) /\ input.add \in Seq(ToSet(input.add))
  /\ MaxPanels \in Nat

VARIABLES
  charts,        \* the document: panels, each with its source, and the chart extension
  chartsBefore,  \* the document before the newest change, or NoCharts
  lastPanel,     \* the sequencer of panel ids
  outcome        \* the last operation: what was validated, applied and told

sourceVars == <<charts, chartsBefore, lastPanel, outcome>>

PanelIds == 1..MaxPanels
NoCharts == [panels |-> <<>>, extension |-> <<>>]
NoOutcome == [op |-> "none"]

\* CHART_DATA_INVALIDATING_FIELDS
Invalidating == {"instrument", "timeframe", "range", "session", "priceAdjustment"}

\* readChartState: what is absent reads as the default.
BlankChart == [f \in DOMAIN DefaultChart \union {"instrument", "comparisons"} |->
                 CASE f = "instrument" -> NoInstrument
                   [] f = "comparisons" -> <<>>
                   [] OTHER -> DefaultChart[f]]
ReadChartState(doc, p) == IF p \in DOMAIN doc.extension THEN doc.extension[p] ELSE BlankChart
WriteChartState(doc, p, config) ==
  [doc EXCEPT !.extension = [q \in DOMAIN @ \union {p} |-> IF q = p THEN config ELSE @[q]]]

-----------------------------------------------------------------------------
(* Transitions of a configuration: the new one and the fields that changed *)

Step(config, changes) == [ok |-> TRUE, config |-> config, changes |-> changes]
NoStep == [ok |-> FALSE]

\* Variant: what was asked for is reported, changed or not.
ApplyPatch_Asked(config, patch) ==
  Step([f \in DOMAIN config |-> IF f \in DOMAIN patch THEN patch[f] ELSE config[f]], DOMAIN patch)

\* applyChartConfigPatch: "what actually changed, not what was asked for".
ApplyPatch(config, patch) ==
  Step([f \in DOMAIN config |-> IF f \in DOMAIN patch THEN patch[f] ELSE config[f]],
       {f \in DOMAIN patch : patch[f] # config[f]})

\* addComparison, removeComparison
AddComparison(config, id) ==
  IF id \in ToSet(config.comparisons) THEN NoStep
  ELSE ApplyPatch(config, [comparisons |-> Append(config.comparisons, id)])
Remaining(comparisons, id) == Picked(comparisons, {i \in DOMAIN comparisons : comparisons[i] # id})
RemoveComparison(config, id) ==
  IF id \notin ToSet(config.comparisons) THEN NoStep
  ELSE ApplyPatch(config, [comparisons |-> Remaining(config.comparisons, id)])

Then(acc, next) ==
  IF next.ok THEN Step(next.config, acc.changes \union next.changes) ELSE NoStep

\* One of the removals, or one of the additions after them.
EditComparisons(acc, input, n) ==
  IF ~acc.ok THEN NoStep
  ELSE Then(acc, IF n <= Len(input.remove) THEN RemoveComparison(acc.config, input.remove[n])
                 ELSE AddComparison(acc.config, input.add[n - Len(input.remove)]))

\* buildSourceTransition: the patch, then removals, then additions.
BuildSourceTransition(config, input) ==
  LET edits == Len(input.remove) + Len(input.add)
      after[n \in 0..edits] ==
        IF n = 0 THEN ApplyPatch(config, input.set) ELSE EditComparisons(after[n - 1], input, n)
  IN  after[edits]

\* validateSourceAvailability; with no oracle wired every range has data.
Available(config) ==
  config.instrument # NoInstrument =>
    /\ {config.instrument} \union ToSet(config.comparisons) \subseteq DOMAIN Availability
    /\ config.range \in Availability[config.instrument]

\* toBindSourceOperationInput: the comparisons of a binding are additions.
AsInput(reference) ==
  [set |-> [f \in DOMAIN reference \ {"comparisons"} |-> reference[f]], remove |-> <<>>,
   add |-> IF "comparisons" \in DOMAIN reference THEN reference.comparisons ELSE <<>>]

\* validateChartSourceReference: the binding, tried on a chart just created.
AcceptsReference(reference) ==
  /\ "instrument" \in DOMAIN reference
  /\ LET tried == BuildSourceTransition(BlankChart, AsInput(reference))
     IN  IF tried.ok THEN Available(tried.config) ELSE FALSE

-----------------------------------------------------------------------------
(* The operations *)

ChangeCharts(doc) == charts' = doc /\ chartsBefore' = charts
Rejects(op, p, reference) ==
  outcome' = [op |-> op, panel |-> p, reference |-> reference, applied |-> FALSE]
  /\ UNCHANGED <<charts, chartsBefore>>

\* A panel and its source; every binding through the panel tools is followed
\* by applyBinding, which may still refuse and then nothing is committed.
WithPanel(doc, p, reference) ==
  [doc EXCEPT !.panels = [q \in DOMAIN @ \union {p} |-> IF q = p THEN reference ELSE @[q]]]
Bind(op, p, reference) ==
  LET bound == BuildSourceTransition(ReadChartState(charts, p), AsInput(reference))
  IN  IF ~bound.ok THEN Rejects(op, p, reference)
      ELSE /\ ChangeCharts(WriteChartState(WithPanel(charts, p, reference), p, bound.config))
           /\ outcome' = [op |-> op, panel |-> p, reference |-> reference, applied |-> TRUE]

\* Variant: a source given at creation is stored and not applied.
CreateChart_Unbound(reference) ==
  /\ lastPanel < MaxPanels /\ lastPanel + 1 \notin DOMAIN charts.panels
  /\ reference # NoReference => AcceptsReference(reference)
  /\ lastPanel' = lastPanel + 1
  /\ ChangeCharts(WithPanel(charts, lastPanel + 1, reference))
  /\ outcome' = IF reference = NoReference THEN NoOutcome
                ELSE [op |-> "create_panel", panel |-> lastPanel + 1, reference |-> reference, applied |-> TRUE]

\* create_panel of a chart
CreateChart(reference) ==
  /\ lastPanel < MaxPanels /\ lastPanel + 1 \notin DOMAIN charts.panels
  /\ lastPanel' = lastPanel + 1
  /\ IF reference = NoReference
     THEN ChangeCharts(WithPanel(charts, lastPanel + 1, reference)) /\ outcome' = NoOutcome
     ELSE AcceptsReference(reference) /\ Bind("create_panel", lastPanel + 1, reference)

\* bind_panel_source
BindChartPanel(p, reference) ==
  /\ p \in DOMAIN charts.panels /\ AcceptsReference(reference)
  /\ Bind("bind_panel_source", p, reference)
  /\ UNCHANGED lastPanel

\* duplicate_panel and split_panel copy the source and bind nothing.
CopyChart(p) ==
  /\ p \in DOMAIN charts.panels /\ lastPanel < MaxPanels
  /\ lastPanel' = lastPanel + 1
  /\ ChangeCharts(WithPanel(charts, lastPanel + 1, charts.panels[p])) /\ outcome' = NoOutcome

\* remove_panel: the chart extension keeps the entry.
RemoveChart(p) ==
  /\ p \in DOMAIN charts.panels
  /\ ChangeCharts([charts EXCEPT !.panels = [q \in DOMAIN @ \ {p} |-> @[q]]])
  /\ UNCHANGED lastPanel /\ outcome' = NoOutcome

\* applyBindSource, applyConfigureView: the notice of describeChartDataInvalidation.
Reconfigure(op, p, next) ==
  /\ ChangeCharts(WriteChartState(charts, p, next.config))
  /\ outcome' = [op |-> op, panel |-> p, told |-> next.changes \intersect Invalidating # {}]
  /\ UNCHANGED lastPanel

\* chart.bind_source, validated against the chart as it is.
BindSource(p, input) ==
  /\ p \in DOMAIN charts.panels
  /\ LET next == BuildSourceTransition(ReadChartState(charts, p), input)
     IN  next.ok /\ Available(next.config) /\ Reconfigure("bind_source", p, next)

\* chart.configure_view
ConfigureView(p, patch) ==
  /\ p \in DOMAIN charts.panels
  /\ Reconfigure("configure_view", p, ApplyPatch(ReadChartState(charts, p), patch))

\* undo_change of the newest change; undoing that brings it back.
UndoChart ==
  /\ chartsBefore # NoCharts
  /\ charts' = chartsBefore /\ chartsBefore' = charts
  /\ UNCHANGED lastPanel /\ outcome' = NoOutcome

\* panelIdSeed counts the panels that are there.
ReloadCharts ==
  /\ lastPanel' = Max(DOMAIN charts.panels \union {0})
  /\ chartsBefore' = NoCharts /\ UNCHANGED charts /\ outcome' = NoOutcome

SourcesInit ==
  /\ charts = NoCharts /\ chartsBefore = NoCharts /\ lastPanel = 0 /\ outcome = NoOutcome

SourcesNext ==
  \/ \E reference \in References \union {NoReference} : CreateChart(reference)
  \/ \E p \in PanelIds :
       \/ \E reference \in References : BindChartPanel(p, reference)
       \/ CopyChart(p) \/ RemoveChart(p)
       \/ \E input \in Patches : BindSource(p, input)
       \/ \E patch \in ViewPatches : ConfigureView(p, patch)
  \/ UndoChart \/ ReloadCharts

SourcesSpec == SourcesInit /\ [][SourcesNext]_sourceVars

-----------------------------------------------------------------------------
(* Properties *)

\* A binding through the panel tools shows what it names, in that panel and
\* in no other, and keeps what it does not name; a refused one changes no
\* document.  (createPanel.ts and bindPanelSource.ts tell of a panel that
\* stored its source and "sat refusing".)  No chart compares with one
\* instrument twice.
BoundIsShown ==
  (outcome'.op \in {"create_panel", "bind_panel_source"}) =>
    LET p == outcome'.panel
        reference == outcome'.reference
        old == ReadChartState(charts, p)
        new == ReadChartState(charts', p)
    IN  IF ~outcome'.applied THEN charts' = charts
        ELSE /\ charts'.panels[p] = reference
             /\ IsInjective(new.comparisons)
             /\ \A f \in DOMAIN new \ {"comparisons"} :
                  new[f] = IF f \in DOMAIN reference THEN reference[f] ELSE old[f]
             /\ ToSet(new.comparisons) = ToSet(old.comparisons) \union ToSet(AsInput(reference).add)
             /\ \A q \in PanelIds \ {p} : ReadChartState(charts', q) = ReadChartState(charts, q)

\* An agent is told that what it read of a chart is out of date exactly when
\* the series behind it became another one ("the caller is told, in the same
\* envelope"), whichever combination of fields a call names.
ToldWhenStale ==
  (outcome'.op \in {"bind_source", "configure_view"}) =>
    LET p == outcome'.panel
    IN  outcome'.told <=>
          \E f \in Invalidating : ReadChartState(charts', p)[f] # ReadChartState(charts, p)[f]

\* A chart shows what was asked, and says so when that makes earlier reads stale.
BindingsHold == [][BoundIsShown /\ ToldWhenStale]_sourceVars
=============================================================================
