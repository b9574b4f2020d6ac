----------------------------- MODULE CapturedSetups -----------------------------
(***************************************************************************)
(* Reference setups frozen from a chart (workbench/chart/application/      *)
(* captureSetup.ts, domain/capturedSetup.ts, tools/captureChartSetup.ts)   *)
(* and the filter drafts derived from them (workbench/screener).  A        *)
(* capture reads the chart, awaits its series, and only then copies the    *)
(* chart of the document as it is by then.                                 *)
(*                                                                         *)
(* One chart panel and one screener.  What reconfigures the chart is       *)
(* modelled elsewhere: here it becomes one of a few states.  The tree and  *)
(* the provenance of a draft are opaque here: FilterDrafts says how they   *)
(* are derived from a setup and edited.                                    *)
(***************************************************************************)
EXTENDS Integers, Sequences, FiniteSets, FiniteSetsExt

CONSTANTS
  ChartStates,     \* bound: [instrument, timeframe, studies, annotations] of the chart
  Bars,            \* instrument -> the times it has bars at
  NoTicker, NoAnchor, NoTree,
  Anchors,         \* bound: the anchor times callers give
  DeriveConditions(_, _),  \* a setup and the last node id -> the tree, its provenance, the last node id
  EditsOfDraft(_, _),      \* a draft and the last node id -> the [tree, provenance, ids] an edit may leave
  MaxSetups, MaxDrafts, MaxFilters,  \* bounds: ids minted since the page was loaded
  MaxDraftEdits   \* bound: edits of one draft

ASSUME CapturedSetupsAssumption ==
  /\ \A s \in ChartStates : DOMAIN s = {"instrument", "timeframe", "studies", "annotations"}
  /\ \A i \in DOMAIN Bars : IsFiniteSet(Bars[i])

VARIABLES
  lab,        \* the document: its chart panel, the chart, the setups, the drafts, the screener
  labBefore,  \* the document before the newest change, or NoLab
  mintedIds,  \* the sequencers of setups, drafts and filter nodes, and whether that of the
              \* nodes is behind the stored ones
  capture     \* the capture whose series is awaited, or NoCapture

setupVars == <<lab, labBefore, mintedIds, capture>>

Empty == [x \in {} |-> {}]
NoLab == [panel |-> FALSE]
NoCapture == [waiting |-> FALSE, moved |-> FALSE]

ChangeLab(doc) == lab' = doc /\ labBefore' = lab
\* Every change moves the revision on, which a capture in flight may be asked about.
Moves == capture' = [capture EXCEPT !.moved = capture.waiting]
Put(f, id, value) == [x \in DOMAIN f \union {id} |-> IF x = id THEN value ELSE f[x]]

\* Bound: once a draft was edited, its chart is left alone.
DraftsUnedited == \A id \in DOMAIN lab.drafts : lab.drafts[id].edits = 0

-----------------------------------------------------------------------------
(* Capturing *)

\* External to this module: the tools that edit the chart, and remove_panel.
ConfigureChart(state) ==
  /\ lab.panel /\ state # lab.chart /\ DraftsUnedited
  /\ ChangeLab([lab EXCEPT !.chart = state]) /\ Moves /\ UNCHANGED mintedIds
RemoveChartPanel ==
  /\ lab.panel /\ DraftsUnedited
  /\ ChangeLab([lab EXCEPT !.panel = FALSE]) /\ Moves /\ UNCHANGED mintedIds

\* prepareCapture up to its await.  A guarded call names the revision it expects.
StartCapture(anchor, guarded) ==
  /\ ~capture.waiting /\ DraftsUnedited /\ lab.chart.instrument # NoTicker
  /\ capture' = [waiting |-> TRUE, state |-> lab.chart, anchor |-> anchor,
                 guarded |-> guarded, moved |-> FALSE]
  /\ UNCHANGED <<lab, labBefore, mintedIds>>

\* toSetupWindow: the span that the bars cover.
SetupWindow(state, anchor) ==
  LET times == Bars[state.instrument]
  IN  [start |-> Min(times), end |-> Max(times), barCount |-> Cardinality(times),
       timeframe |-> state.timeframe, of |-> state.instrument, anchorTime |-> anchor]

\* captureBlockers, asked of the chart read before the await and of the one after.
Unblocked(state, anchor) ==
  /\ state.instrument # NoTicker /\ Bars[capture.state.instrument] # {}
  /\ LET window == SetupWindow(capture.state, anchor)
     IN  anchor # NoAnchor => anchor \in window.start .. window.end

\* buildCapturedSetup: the chart as it is now, with the window as it was prepared.
BuildCapturedSetup(doc) ==
  [instrument |-> doc.chart.instrument, timeframe |-> doc.chart.timeframe,
   window |-> SetupWindow(capture.state, capture.anchor), studies |-> doc.chart.studies,
   annotations |-> doc.chart.annotations, guarded |-> capture.guarded]

\* Variant: the revision a caller expects is not looked at after the await.
StillExpected_Unasked == TRUE

\* assertExpectedRevision, when the call commits.
StillExpected == ~(capture.guarded /\ capture.moved)

\* The series arrives: the rest of prepareCapture, chart.capture_setup and its commit.
FinishCapture ==
  /\ capture.waiting /\ capture' = NoCapture
  /\ IF /\ Unblocked(capture.state, capture.anchor)
        /\ lab.panel /\ Unblocked(lab.chart, capture.anchor) /\ StillExpected
     THEN /\ mintedIds.setup < MaxSetups
          /\ mintedIds' = [mintedIds EXCEPT !.setup = @ + 1]
          /\ ChangeLab([lab EXCEPT !.setups = Put(@, mintedIds'.setup, BuildCapturedSetup(lab))])
     ELSE UNCHANGED <<lab, labBefore, mintedIds>>

\* The series port fails: the call is refused.
FailCapture ==
  /\ capture.waiting /\ capture' = NoCapture
  /\ UNCHANGED <<lab, labBefore, mintedIds>>

-----------------------------------------------------------------------------
(* Drafts *)

\* screener.derive_filter_draft
DeriveDraft(setupId) ==
  /\ setupId \in DOMAIN lab.setups /\ mintedIds.draft < MaxDrafts
  /\ LET derived == DeriveConditions(lab.setups[setupId], mintedIds.filter)
     IN  /\ derived.last <= MaxFilters
         /\ mintedIds' = [mintedIds EXCEPT !.draft = @ + 1, !.filter = derived.last]
         /\ ChangeLab([lab EXCEPT !.drafts =
              Put(@, mintedIds'.draft, [source |-> setupId, tree |-> derived.tree,
                                     provenance |-> derived.provenance, accepted |-> FALSE, edits |-> 0])])
  /\ Moves

\* screener.edit_filter_draft: what the edit leaves is stored with the draft.
\* Bounds: no capture in flight, the chart in place, and ids that tell the
\* nodes apart.
Editable(draftId) ==
  /\ lab.drafts[draftId].edits < MaxDraftEdits
  /\ ~capture.waiting /\ lab.panel /\ ~mintedIds.behind
EditDraft(draftId, edited) ==
  /\ Editable(draftId)
  /\ mintedIds.filter + edited.ids <= MaxFilters
  /\ LET draft == lab.drafts[draftId]
     IN  ChangeLab([lab EXCEPT !.drafts[draftId] =
           [draft EXCEPT !.edits = @ + 1, !.tree = edited.tree, !.provenance = edited.provenance]])
  /\ mintedIds' = [mintedIds EXCEPT !.filter = @ + edited.ids]
  /\ Moves

\* screener.accept_filter_draft: the tree of the screener is replaced wholesale.
\* Bound: one acceptance.
AcceptDraft(draftId) ==
  /\ draftId \in DOMAIN lab.drafts /\ lab.screener = NoTree
  /\ ChangeLab([lab EXCEPT !.screener = lab.drafts[draftId].tree, !.drafts[draftId].accepted = TRUE])
  /\ Moves /\ UNCHANGED mintedIds

-----------------------------------------------------------------------------
\* undo_change of the newest change commits the document before it anew.
UndoSetup ==
  /\ labBefore # NoLab
  /\ ChangeLab(labBefore) /\ Moves /\ UNCHANGED mintedIds

\* Variant: a page that does not seed the ids of setups.
SetupSeed_None(doc) == 0

\* capturedSetupIdSeed, filterDraftIdSeed
SetupSeed(doc) == Max(DOMAIN doc.setups \union {0})
DraftSeed(doc) == Max(DOMAIN doc.drafts \union {0})

\* The page is loaded again; the ids of filter nodes are counted by no seed.
ReloadSetups ==
  /\ mintedIds' = [setup |-> SetupSeed(lab), draft |-> DraftSeed(lab), filter |-> 0,
                   behind |-> DOMAIN lab.drafts # {}]
  /\ labBefore' = NoLab /\ capture' = NoCapture /\ UNCHANGED lab

-----------------------------------------------------------------------------
SetupsInit ==
  /\ \E state \in ChartStates :
       lab = [panel |-> TRUE, chart |-> state, setups |-> Empty, drafts |-> Empty,
              screener |-> NoTree]
  /\ labBefore = NoLab /\ mintedIds = [setup |-> 0, draft |-> 0, filter |-> 0, behind |-> FALSE]
  /\ capture = NoCapture

SetupsNext ==
  \/ \E state \in ChartStates : ConfigureChart(state)
  \/ RemoveChartPanel
  \/ \E anchor \in Anchors \union {NoAnchor}, guarded \in BOOLEAN : StartCapture(anchor, guarded)
  \/ FinishCapture \/ FailCapture
  \/ \E id \in 1..MaxSetups : DeriveDraft(id)
  \/ \E id \in DOMAIN lab.drafts :
       Editable(id) /\ \E edited \in EditsOfDraft(lab.drafts[id], mintedIds.filter) : EditDraft(id, edited)
  \/ \E id \in DOMAIN lab.drafts : AcceptDraft(id)
  \/ UndoSetup \/ ReloadSetups
SetupsSpec == SetupsInit /\ [][SetupsNext]_setupVars

-----------------------------------------------------------------------------
(* Properties *)

\* A setup is "self-contained": whatever happens to its chart, to other
\* captures or to the page, what an id names is never another record.  Only
\* undo takes one away, and never from under a draft.
SetupsAreFrozen ==
  /\ \A id \in DOMAIN lab.setups \intersect DOMAIN lab'.setups : lab'.setups[id] = lab.setups[id]
  /\ \A id \in DOMAIN lab.drafts : id \in DOMAIN lab'.drafts =>
       lab.drafts[id].source \in DOMAIN lab'.setups

\* A capture that names the revision it expects is of one chart: its window is
\* of its instrument and timeframe, although the series was awaited in between.
\* An unguarded one may mix two charts.
CapturesAreWhole ==
  \A id \in DOMAIN lab.setups :
    LET setup == lab.setups[id]
    IN  setup.guarded => /\ setup.window.of = setup.instrument
                         /\ setup.window.timeframe = setup.timeframe

\* A setup is one chart at one time, and stays it.
SetupsHold == [][CapturesAreWhole' /\ SetupsAreFrozen]_setupVars
=============================================================================
