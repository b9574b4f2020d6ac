# MarketPane workbench: TLA+ models, model checking and proofs

MarketPane is a stock-screening workbench that two parties drive at once: an agent
calls WebMCP tools, a person uses the panel grid, and both change the same
*workspace document*. The browser application (`src/src/lib`) keeps every workspace
in `localStorage`; a Python service (`src/backend`) answers screens and backtests over
market data files that its scheduled jobs maintain.

What is hard here is not any one tool. Every tool goes through one revisioned write path,
and what is promised there - undo reverses exactly one change, a retry is not applied twice,
what was previewed is what gets applied, no sequence of tool calls arms an alert - are promises
about *sequences* of calls, over state that is partly in memory (lost by a reload) and partly in
storage (shared by tabs, and able to refuse a write). Around it, several tools await an answer
between what they read and what they write, several components mint ids from counters that a
reload resets, and the jobs of the backend replace files without any compare-and-swap.

## The system: components, state, operations

| component | state it keeps | operations that change it | modelled by |
|---|---|---|---|
| write path (`workbench/application`, `infra`, `domain`) | documents, revision snapshots and active pointer in `localStorage`; change log, replay cache and id counters in memory, per tab | commit, undo, restore, save, create; start-up, reload, expiry | `WorkspaceRevisions`, `VersionArchive` |
| preview and apply (`safetyUseCases.ts`, `previewStore.ts`) | preview store, in memory, per tab | preview, apply, retry, expiry | `PreviewApply` |
| alert gate (`workbench/alerts`) | alerts inside the document | draft, edit, enable, confirm, decline, disable | `AlertGate` |
| panel shell (`panels`) | panels, links, selections, sources and views inside the document | create, split, duplicate, remove, lay out, hide, reset, link, select, bind, configure | `PanelGrid`, `PanelViews`, `ChartSources` |
| composition (`workbench/composition`, `webmcp/bridge.ts`) | the one promise of a runtime; what each bridge holds | mount, ensure, register, retry; bridges that come late | `Composition` |
| screener (`screener`, `webmcp/screener`) | definitions and filter trees in the document; run store and replay cache in memory | define, edit, run, set universe and ranking | `ScreenerRun`, `FilterTree`, `ScreenerValidation`, `ScreenerAnswer` |
| catalog (`catalog`) | none | lookups | `Catalog` |
| results (`results`) | a table's configuration; runs are read | page, explain, configure | `ResultsPages`, `ScreenerAnswer`, `PanelViews` |
| chart (`workbench/chart`) | chart extension of the document | configure, bind, studies, annotations, capture; reads | `ChartRead`, `ChartEdits`, `ChartSources`, `CapturedSetups` |
| filter drafts (`workbench/screener`) | drafts in the document | derive, edit, accept | `CapturedSetups`, `FilterDrafts`, `FilterTree` |
| watchlists (`workbench/watchlist`) | lists in the document | create, update, save results, universes that name lists | `Watchlists` |
| follow-up studies (`workbench/followup`) | computed fields and custom studies in the document | create, override, evaluate | `CustomStudies` |
| backtests (`workbench/backtest`, `backtest_jobs.py`) | replay cache in the browser, bounded job store in the backend | start, evaluate, evict, read; restart, reload | `Backtests` |
| market data (`backend` jobs) | `panel.parquet`, eligible set, universe file | nightly, catch-up, enforce, backfill | `MarketStore`, `PanelMerge` |
| similarity search, export, provenance, theme | none | reads | not modelled |

How they interact: a tool resolves its workspace, builds an input and calls
`RevisionService.commit` (through `recordCommit`, `commitPanelChange` or `foldApply`).
Commit looks the idempotency key up, checks `expected_revision`, runs `mutate`, writes
the document and then its snapshot; `recordCommit` mints the change id and the undo
token and appends to the change log. All of it is synchronous, so in one tab a call is
atomic; the interleavings are those of *calls* - between a preview and its apply, a
request and its confirmation, an answer and its retry, one tab and another - of failures and
reloads inside a call, and, in the tools that await the backend (`define_screener`,
`run_screener`, chart reads, captures, backtests), of everything else between their two halves.

## Modules

**The write path.** `WorkspaceRevisions` is the core. `documents`, `revisions` and `activeId`
are the `localStorage` keys, shared by all `Tabs`; `history`, `idempotency`, `ids` and `phase` are
one tab's memory. `answer` records what the last call told its caller, for the properties that
speak of it. There is one action per operation: `Edit` (any tool whose operation rewrites the
document), `CreateWorkspace`, `SaveWorkspace`, `RestoreRevision`, `Undo`, `Boot`, `Seed`,
`Reload`, `ExpireKey`. Each holds the whole call: the replay, the commit with every collection it
prunes, and - under `StorageFails` - both points where `setItem` may throw (`FailCommit`).
`VersionArchive` says what storage promises, without a write path: numbered versions that only go
forward, archived ones that stay what they were, named ones that are never forgotten.
`PreviewApply` extends the core with the preview store (`Preview`, `Apply`, `FailApply` with its
rollback that may fail as well, `RetryApply`, `ExpirePreview`). `AlertGate` extends `PreviewApply`;
the content of a document becomes its alert, so that undo, restore and apply act on it;
`requested` and `confirmed` are ghosts that no action reads; `GroupChoices` says which generic tools the
host registers. `ScreenerRun` extends the core with `define_screener` and `run_screener`, each a start
and a completion with everything else in between (`calls`), and the run store that keeps one run
(`runs`, `evicted`); `defined` and `finished` are ghosts.

**Panels.** Every use case of `src/src/lib/panels/application` is one `commitPanelChange`, hence one
action of `PanelGrid` over `panels`, `links` and `selections` as `readPanelState` gives them to the next
call; `minted` is a tab's memory, seeded once by `Reload`. The order in which panels are stored shows
only where two have one id, and there the first is kept (`Appended`). `PanelViews` follows one panel
through sources, renderers and partial view updates, under contracts that placeholders and real
implementations register one after another, in any order (each a step; panels are
made once all have). `ChartSources` follows what a chart is pointed at, by a binding
through the panel tools or a patch through `chart.bind_source`.

**Screener and results.** `FilterTree` holds the tree, its six edits and the repairs of each read and
write; `Catalog` every built-in item with the parts the program decides by; `ScreenerValidation` the way of a
condition from the wire to an answer (repair, validation against the catalog, evaluation over one
instrument's history), the dry-run report on a definition, and the tools that let a definition in.
`ScreenerAnswer` is a whole run: both evaluators (backend and browser), ranking, the pinned answer and
`explain_result`. `ResultsPages` follows a caller from cursor to cursor.

**Charts and studies.** `ChartRead` (one read across its await), `ChartEdits` (batches of study and annotation
edits, undo, reload), `CapturedSetups` (captures across an await, drafts derived from them),
`FilterDrafts` (what conditions a derivation proposes and what an edit makes of a draft; `CapturedSetups` takes both as
parameters, `DeriveConditions` and `EditsOfDraft`, which `MCTools` gives the definitions of `FilterDrafts`, so that what holds of
setups is proved whatever the trees are),
`CustomStudies` (expressions over the catalog and over what is stored, with two ways in: the tools, which validate and mint from a
sequencer seeded from the document, and an applied preview, which reaches the registered operation with what it was sent; the field `checked` marks the
records of the tools and is read by the properties only; an expression is the function from the path of each
node, a sequence of "left" and "right", to that node), `Watchlists` (members, sources, cycles; what a
screener reaches is the least set closed under following, which the walk of `cycles.ts` computes).

**Page and backend.** `Composition` (guard, attempts, bridges, routes), `Backtests` (calls, jobs, eviction,
restarts; the store is the jobs by id and the order they were touched in), `MarketStore` (jobs over three objects,
each written on its own), `PanelMerge` (the streaming merge, one batch at a time; the splice puts each row where
`np.insert` does). `Enumeration` gives a set of numbers in ascending order and the entries of a list at given places in their
order - what a filter of an array keeps - for `PanelMerge`, `Watchlists`, `ChartEdits` and `ChartSources`.

`MC...` modules only declare model values, small instances and symmetry. `MCParts` and `MCTools`
each hold several components that share no state: a behaviour is one of them alone, chosen at the
start, with the others at rest. Modules named `..._proofs` hold the theorems: those of `PreviewApply` are in
`AlertGate_proofs`, those of `Composition`, `Backtests`, `ResultsPages`, `Watchlists` and `PanelMerge` in `Parts_proofs`, those of
`PanelViews`, `ChartRead`, `ChartEdits`, `ChartSources`, `CapturedSetups` and `CustomStudies` in `Tools_proofs`, and `Enumeration_proofs` has the
lemmas on ranks and lists that both cite. Definitions whose
names end in a suffix such as `_KeepsAvailable` are variants, used by no specification: each is
the bug that some property is there to catch.

### Abstractions

* The content of a document is one value to the write path, which never looks into it; each component that
  keeps an extension is modelled over that extension, with undo as the return to an earlier value.
* A call that is refused changes nothing and is a disabled action, unless the answer itself matters
  (reads, pages, captures, backtests). Revision 0 is a workspace never stored; `expected` 0
  is a call without `expected_revision`; target 0 is one that names no workspace.
* Time is left out where only an order matters: replay and preview entries expire in insertion order, one
  at a time and at any moment. `AlertGate`, where a request's age matters, has a clock.
* `PanelGrid` leaves out titles, sources and views; the rects callers ask for and the templates are parameters.
  Undo and restore bring back whole documents and are not actions there, so what holds of one
  document survives them; what is said of steps is said of panel operations.
* `AlertGate` has one alert in a workspace and tools that pass no idempotency key; `save_workspace` and
  `create_workspace`, which change no alert, are left out.
* `ScreenerRun` has one tab and a document with at most one screener and one results table; a definition is a
  value, and what a run answers is its screener, revision and definition.
* `ScreenerValidation` has whole numbers, one instrument, and market data as one value per catalog id and bar.
  Messages, units of scalar values and suggestions are left out. `ScreenerAnswer` has a
  condition hold, fail or lack data per instrument, and scores in units of 1/`Scale`, to which all three normalizations are rounded
  down (of a z-score its magnitude). A tie-break with missing values is no order (see the divergences):
  `Orders` are all the orders such a sort may leave, those in which no neighbours are the wrong way about.
* `ResultsPages` gives a column numbers; of a column of texts or booleans they are the places of its values in their order.
* `CustomStudies`: one operation in a batch; what a preview stores is one of `Claims`, whose expression is one of the shapes the stored form allows.
  A preview mints when it is made and stores when it is applied, and between them the document does not change, so the two are one step; one that is
  never applied is `DropPreview`. Bounds: `MaxItems` ids of a kind from the tools, `MaxPreviewed` from previews per load, `MaxHeld` records.
* `Backtests`: an eviction is the list it makes out, then per job a deletion and a remembering, with reads at any moment between; a read is one step.
* `MarketStore`: a row is a ticker and a day; its values are what the market says of it and never change.
* A filter id counter lives for one session in `FilterTree`'s users; see the divergences for reloads.

## Runs

| run | instance | shows |
|---|---|---|
| `core_undo` | one tab, one key, log and snapshots pruned at 2, replay cache at 1, 5 revisions, 6 changes, writes never fail | an accepted undo erases nothing and restores what was before; the log offers exactly what can be undone and stays bounded |
| `core_shared` | two tabs, writes that fail, 4 revisions | snapshots are faithful and keep their meaning, saved revisions are kept, `VersionArchive` is implemented |
| `preview_apply` | one tab, one key, two previews, writes fail in commit and rollback | an applied preview commits what was shown, at most once |
| `alert_gate` | two conditions, 8 changes, three clock ticks; no generic tools besides undo, or restore and preview too | an armed alert watches conditions a person confirmed in time; with undo alone no agent call arms |
| `panel_grid` | one tab, 3 x 2 grid, two lists and a plot, batches of 2 | placements valid, nothing dangles, groups apart, overlaps only over hidden panels, splits lose no cell |
| `market_store` | two tickers, four days, one job at a time, every kind of job and failure | appends lose no bar, eligibility is what the panel measures, and nightly runs alone bring the newest session and mend what a dead job left half written |
| `screener_runs` | two calls in flight, undo, restore and reload between | runs are pinned, the newest is readable, evictions are told; definitions go one revision on |
| `parts` | merge, start of the page, validation, answer, pages, backtests | each component's promises, and that the page recovers and every backtest settles |
| `tools` | chart reads, edits, sources and captures, watchlists, custom studies, panel views | each component's promises over long sequences of calls |
| `alert_rearmed` | *violated* | restoring the snapshot of an armed alert re-arms it without a person |
| `market_gap` | *violated* | a nightly run after a missed night moves the as-of date over the gap, which no catch-up fills |
| `screener_retry` | *violated* | a retry that arrives while the first call is evaluated runs the screener again |

The bounds are small and still reach every limit: log, snapshots, replay cache, previews, run store
and job store are pruned or evicted in the runs whose properties speak of them (limits of 1 or 2
against up to 8 changes); two contents are enough for an undo that restores the wrong one, two tabs
and two calls in flight for any pairwise interference, three panels for two groups to merge, an odd span to split and a
hidden panel; three bars for an edge inside, at the border of and outside a window of two. Two edits of
a filter tree (`MaxEdits`) act on trees that are already nested. `CHECK_DEADLOCK FALSE` stands where a bound ends every
behaviour. Sequences longer than the bounds are what the theorems are for.

### Fairness

Calls of users and agents are owed nothing. What the code does schedule is assumed:

* `MarketStore` (`NightsHealTheStore`): sessions are published and a job that has begun takes its next step (weak). What
  is scheduled is the plain nightly run (`render.yaml:117`, `terraform/modules/nightly_job/main.tf:64-67`, which says that
  `--catch-up` is never baked in): it starts again and again, and not every night fails (strong on `StartNightly` and, in
  a nightly run, on `Fetch`, `PutPanel` and `RefreshEligibility`). Catch-up, enforcement and backfill are run by a person and owed nothing,
  and neither is the next day: the last day of the instance stands for the nights that follow it. So the property promises the newest
  session and an eligible set that matches, and nothing of a session that was missed, which stays missing (`market_gap`).
* `Composition` (`Recovers`): promises settle and a bridge that is asked answers (weak); the person who may
  retry does so if the page keeps failing (strong on `Retry`). How often a bridge refuses is bounded by `MaxFailures`.
* `Backtests` (`BacktestsSettle`): a scheduled background task starts and ends, and an eviction the event loop has begun goes on (weak).

## Proofs

The theorems hold for every value of the constants (any number of tabs, limits, grids, kinds,
screeners, markets, routes), from the assumptions the modules name. Where a theorem has a hypothesis of its
own, the property is false without it, and the models show why.

**Write path** (`WorkspaceRevisions_proofs`). `TypeCorrect`: one step per action, each from lemmas about the
collections (`PutRevision`, `Append`, `Redeem`, `Remember`, `Highest`). `FaithfulSnapshots` is inductive
relative to `TypeOK`: a commit writes at one more than the document's revision, where no snapshot can be; a
save writes at the current revision the current content; pruning only removes. `RevisionsKeepMeaning`
and `SavedRevisionsSurvive` follow with the lemma that pruning keeps named entries;
`WritePathImplementsArchive` maps every step to `Advance`, `Name` or a stutter of `VersionArchive`.

**Change log** (in the same module). Every step of the write path is shown once to leave the log of each tab, or to
grow it by one record, or to mark what it undid (`LogStep`), and the rest rests on that.
`LogStaysSound`: `LogInv` - records are behind their document, what is available is
the newest of its workspace, the log is bounded - for any tabs and failing writes.
`UndoIsExact` and `UndoGoesBackOne`: `UndoInv` adds `LogFollows`, that a workspace with a record has one of its
current revision, which holds the current content. Hypothesis: one tab, writes that do not fail.
The newest-check of undo reads one tab's log, so a second tab's change, or a document whose snapshot failed, is
written back over.

**Preview and apply** (in `AlertGate_proofs`). `PreviewsStayHonest`, `PreviewsUsedOnce`: a preview's base
revision never exceeds its document's, and revisions only grow, so a document back at the base revision
was never left. Writes and rollbacks may fail.

**Alerts** (`AlertGate_proofs`). `ArmedWasSeen`: `AlertInv` says of every place where a document is kept -
stored, snapshot, logged, previewed - that an armed alert in it has confirmed conditions and a pending one an
actual request (`GoodAlerts`); every action moves contents between these places or makes a good one. For any tabs and
failing writes. `UndoNeverArms`: where no other generic tool is registered (`QuietInv`), a change that can be
undone neither arms nor disarms, and the newest one's inverse is armed only if the alert is. Hypothesis: one tab, writes that do
not fail, for the reason above: undo must find the document its log knows.

**Screener runs** (`ScreenerRun_proofs`). `RunsStayPinned`: `ScreenerInv` says that what documents,
snapshots and calls in flight hold was some document's screener, that every handle given out is held or known to be evicted, and that the
run stored last is there. `DefinesAdvance`: the revision is counted from the document that is written
to, not from the one that was validated.

**Panels** (`PanelGrid_proofs`). `GridTypeCorrect`, `PanelsStayValid`: `AllFit` is inductive; a split is the one placement the code
does not check against the grid, and `HalvesFit` shows that the minimum alone keeps both halves on it.
`NothingLeftBehind`, `GroupsStayApart`: `LinksInv`, one lemma per operation on links. `NoVisibleOverlap`: rects that
do not overlap share no cell and halves divide what they came from, so each operation *explains* every cell
two visible panels share. `SplitsLoseNothing`: `Ahead` - counters are at or above every panel id - makes
the minted half new, and the halves cover the panel. Hypothesis: one tab; another tab's stale counter mints a taken id, and
the new half is dropped.

**Market data** (`MarketStore_proofs`). `NoBarIsLost`, `EligibleAsMeasured`: `HeldRows` says what the rows a
job holds are, stage by stage, of the panel stored. Hypothesis: one job at a time; the objects are
replaced without compare-and-swap, so the slower of two jobs writes back over the other.

**Start of the page** (`Parts_proofs`, like the next four). `OneRuntimeServes`: the guard holds the only
composition that is not rejected (`OneComposition`), what it has registered is bound to it on some bridge and
whatever an abandoned attempt left on the current bridge is still ahead of it (`Taking`), and bridges still to come hold nothing
(`Untouched`). Hypothesis: no bridge is assigned twice; one that is taken away and assigned
again still holds the tools of the attempt that was abandoned when it left.

**Pages.** `PagesTileTheRun`: `PagesInv` says that what a steady walk showed is a beginning of the sorted run, ending where
its cursor stands. That the sort has a row for each place is a lemma: the order of rows - by the key, then the tie-break, then
the rank - is strict and total, missing values last in either direction, so a row's place is the number of rows before it, and those numbers are different and within the run.

**Backtests.** `AnswersStayTrue`: `BacktestsInv` adds to `AnswersHold` what a call about to be answered was told,
because an answer must agree with its job from the moment it is given, and that nobody knows an id above
the last one. A job that leaves the store is the one the eviction is at (`IsLost`) until it is remembered. The result is about a process that is given at most 500 jobs (`MaxBacktests`): the backend remembers 500 evicted
ids, and beyond that an old answer names a job nobody knows.

**Watchlists.** `SourcesStayTrue`: `WatchInv` says that the document and the one undo would bring back agree on the source
of every member they share, list by list, and that every static list is honest - no instrument twice, each from the run it
names. An undo swaps the two, so the invariant needs both directions. `UpdatesStayAcyclic`: following a screener that does
not reach the list closes no loop, because what the screener reaches is closed under following and lacks the list; every other
update leaves fewer lists to follow, hence fewer loops.

**Merge of a panel.** `MergeLosesNothing`: `MergeInv` says that there is a bound to which both sides have been read,
that the rows written are as many as keys of the union below it, in full groups, each row that of the reference. A batch moves the bound to
one above its last key (`UptoIs`), and `SpliceIs` shows that the splice of two stretches is the stretch of the union: by ranks,
`np.insert`'s places are those of the delta's keys in the union, and the kept rows fill the others. `EmitIs` and
`CloseIs` cut the rows into groups. For any panel, delta, batch size and group size.

**Panel views** (`Tools_proofs`, like the next five). `ViewsAlwaysHold`: every action leaves a source its renderer draws and a view the renderer's
contract accepts again, whichever contracts were registered over placeholders and in which order (`RegistrationsAssumption`,
what `defaultSourceRendererTypes.ts` and the panel kinds satisfy: every renderer has a contract, the chart grid draws an
instrument and the table screener results, and no field of the real table is one of another renderer or kind).

**Chart reads.** `ReadsAlwaysHold`: `ReadInv` says that an answer is `Assemble` of a request a read may make and the one configuration
it resolved, over a market that does not change, whatever the chart was configured to during the await; the rest is what `Assemble`
computes. A series is the list of a market's bars by rank (`Enumeration_proofs`); a roll-up puts each bar in the bucket of its first
time, so buckets are consecutive stretches of the series, ordered and counted by their keys; a slice is one stretch of it, ending
where the anchor or the last bar stands. A remedy counts the buckets of a coarser timeframe over the same window, and those are the bars
the retry answers. For any market, widths, ranges, counts and cap.

**Captured setups.** `SetupsAlwaysHold`: `SetupsInv` says that the ids of setups and drafts are at or below the
counters, so what is minted is new; that the document and the one undo would bring back agree on every setup
and on the source of every draft they share; that a draft's setup is there; and that a capture still waiting that no step moved
past holds the chart as it is. An undo swaps the two documents, and the counters never go back without both being seeded. For
any charts, bars and trees: `DeriveConditions` and `EditsOfDraft` are parameters nothing is assumed of.

**Chart sources.** `BindingsAlwaysHold`: `SourcesInv` says that every chart of the document, and of the one undo would bring back,
is a whole configuration and compares with no instrument twice. The removals and additions of a binding are a function of how many
of them were taken (`BuildSourceTransition`), and the first place where what the lemma says of them would fail has a predecessor where it holds:
that is the induction. A configuration reports a change exactly where it differs from the one before.

**Chart edits.** `ChartEditsAlwaysKeep`: `EditInv` says that the ids of studies and drawings, in the stored chart and in the one undo would bring
back, are all different and at or below the last the sequencer gave. A batch is again a function of how many operations were
run; each of them, successful or not, keeps the invariant, keeps the ids it does not remove, and - a reordering aside - keeps
studies of one pane in order: removal and pane sorting *carry* a list's order, an insertion leaves a stretch on each side.
Composed from the first operation to the last, and with the sort by pane on each read, this is the property. Hypothesis: `Paths = {"tool"}`,
the edits of the chart's own tools. The sequencer that preview and apply mint from is not seeded from the chart (see the divergences), and an id it mints
again drops what it was minted for; `tools` is run under the same hypothesis.

**Custom studies.** `CustomAlwaysValid`: `CustomInv` says that in the document, and in the one undo would bring back, a record of the tools
has an id at or below their counters and is made of such ids and built-in items only, and that while its leaves are still
records of the tools it is what the validator makes of its expression, in the catalog its own document makes. An id a tool mints
anew is no such item yet, so a record whose leaves resolve as before resolves as before; one that a preview stores is never vouched for, and
nor is what is made of it, whether it is new or replaces a record. So the theorem is about the tools in a workspace that previews share, and says nothing of
what previews store: of that the statement would be false. An override goes where the parameter was declared, in a range within the argument's own, so the call
validates again. What `Resolve` and `Evaluate` say of a node comes from its operands, which are one step farther from the root: they are
determined on every expression of bounded depth, and of the nodes where two of them disagreed the farthest from the
root would have operands where they agree. `CustomStudiesAssumption`: expressions are trees of the five kinds, a numeric parameter of the
catalog has a range, and no built-in item has an id the sequencers mint.

Only model-checked:

* liveness (`NightsHealTheStore`, `Recovers`, `BacktestsSettle`): out of the prover's reach, as is `ENABLED`;
* `RunExplainsItself`, `EditsKeepTheRest`, `ScreenersHold`, `DraftsTellWhy`: filter trees are recursive there, and what a
  recursive definition computes on every tree needs an induction over trees, which the
  provers cannot do. (Where the recursion runs along a list - the batches and bindings above - the least counterexample
  among its positions takes the place of the induction; over expressions it is the deepest one.)
* `KeyRunsOnce`, `OnlyHumansArm`, `CatchUpFillsGaps` are false.

## Divergences met

Three are shown by a run (above). The others were met while modelling; where a property would be false because of
one, its precondition or the model's bounds name it.

Write path and panels:

* After a reload `create_workspace` mints `workspace_1` again and its next commit overwrites the stored one:
  `panelIdSeed` seeds panel ids only (`registerPanelTools.ts:100`). A replayed `create_workspace` makes a workspace
  active that was never stored (`tools/index.ts:153`, against `workspaceRepository.ts:129-131`).
* The replay fingerprint lacks the workspace, so a key reused for another one gets the first
  envelope (`revisionService.ts:105`).
* `save_workspace` checks `expected_revision` before it looks for a replay (`tools/index.ts:186`) and appends a record at
  the revision of the change before, which is marked superseded although its token is accepted (`changeHistory.ts:62-72`).
* When the snapshot write fails after the document write, `StorageWriteError` reports a failure although
  the document moved (`revisionService.ts:84`); only apply rolls back.
* Change and undo counters restart with each load, so an old token names another change.
* After a second tab, or a restored revision, `splitPanel` and `duplicatePanel` mint a taken id and drop the new
  panel (`splitPanel.ts:40`, `duplicatePanel.ts:103`); `createPanel` refuses it. Only the load that created the
  workspace seeds it (`panelController.ts:128`).
* `unlink_panels` naming every member of a group always fails (`unlinkPanels.ts:20`).
* Showing a panel, or splitting a hidden one, is not checked against the visible panels (`configurePanelView.ts:117`),
  while `src/docs/design/panel-system/spec.md:295-297` assumes that panels may not overlap.
* `configure_chart_grid` refuses every call that names rows or columns in the shipped registry, because the real
  renderer rejects those keys. `bind_panel_source` never checks `bindingTypes` although its header says so;
  `set_panel_renderer` reaches combinations that binding refuses. Rebinding a table leaves
  its selection on ids of the old run.

Alerts:

* Undoing an *applied* `alerts.disable_activation` re-arms, since apply offers an inverse for every batch (`safetyUseCases.ts:158`).
* `confirmAlertActivation` commits past the change log (`:76`), so the token of `enable_alert` still undoes over the confirmation.
* When the snapshot write of a disarm fails, the document is disarmed but the log is not, and undoing the change before arms again.
* `editAlertDraft` resolves its condition source before an await and commits after it (`:179`).

Screener and results:

* Run ids restart after a reload while panels stay bound to them ("ids are never reused", `runStore.ts:86-87`). Screener
  revision numbers are reused after undo and redefinition. A run that started first and completes last takes over the results panel.
* `engine/tree.ts:83-85` counts disabled children as true, so an `or` with one always passes and a `not` with one fails. The
  backend lets `not` over an unavailable condition pass, and answers empty groups otherwise than `explanation.ts`
  does. Its percentile differs from `explanationRanking.ts`, and it ignores normalization and tie-break, which the run echoes. Through HTTP a rejected
  instrument is explained as outside the universe. `AgreesOn` names where both agree.
* A cursor is a bare offset: re-sorting between pages repeats and skips rows (`page.ts:2-4`).
* A `series_comparison` of two dates, two texts or two booleans of one type validates (`conditionValidation.ts:179-217`) and
  is never answered, because a series has numeric points only (`conditionEvaluation.ts:105-113`); so does a condition over time of
  one, or of a scalar that is no number.
* The comparator of the tie-break falls back to the id when either value is missing (`ranking.ts:155-168`), which is not
  transitive: with three equal scores the order depends on how the sort goes about it.
* An index or peer-group baseline, `above_zero` and `below_zero`, a `series_comparison` that is no crossing, and a
  condition over time of a study, a pattern or another such condition all validate and are never answered or never pass (`Undecidable` names the former).
  `withinBars` need not be a whole number.
* `edit_filter_tree` checks neither availability nor contradictions and approximates no interval; a node that
  `define_screener` stored disabled and invalid can be enabled unchecked. The allow-list of fields is not applied inside
  a condition over time. A contradiction inside an `and` under an `or` blocks the whole report.
* `set_screener_ranking` with only a limit clears the ranking where `define_screener` keeps it, and refuses an empty tie-break that
  `define_screener` drops. Default limits differ (HTTP 50, elsewhere 100).
* The schema of `edit_filter_tree` lets one group under `not`, which `groupFilterNodes` always refuses; adding under a
  `not` has no arity check and the repair drops the child; filter ids restart after a reload and meet stored ones.

Charts, drafts, watchlists, studies:

* The chart, similarity and follow-up registrations are commented out in `workbenchCompositionRoot.ts`; watchlist, backtest and
  filter-draft tools are switched off by their flags. They are modelled as they would run.
* The remedy told for a last-n or anchored window does not fit (`chartData.ts:486` against `:687`). Preview mints annotation
  ids from an unseeded counter, so an applied annotation is dropped when its id is taken.
* Binding twice with the same comparisons passes the registry and is then refused; duplicated and split chart panels have a
  source and no chart; a removed chart's state stays and is inherited when its id is minted again; `chart.bind_source` changes the
  chart and not the panel's source; the notice of a rebinding is dropped.
* A capture without `expected_revision` mixes a chart reconfigured during the await with the window
  read before it. Draft ids and filter ids restart after a reload: `filterDraftIdSeed`
  seeds only the registration that is switched off (`registerFilterDraftTools.ts:22`); `registerAllFollowupTools.ts:135`,
  the one that runs, starts from nothing, and filter nodes have no seed.
* `set_screener_universe` checks no cycle of watchlists although the header of `cycles.ts` says so, and creation relies on
  ids no caller can know, which a universe may name in advance. A replay counts added members anew.
* Of a parameter in bars whose range has no upper end (`catalog/items.ts:619-637`), `resolveCustomStudyExpression` takes an override
  above `maxLookbackBars` (`customStudyParameters.ts:248`), which `expressionValidator.ts:258` refuses: "the same discipline" is not.
  `CustomStaysValid` leaves such overrides out (`WithinLookback`).
* The operations that store computed fields and custom studies check the name and nothing else (`createComputedField.ts:54-59`,
  `createCustomStudy.ts:54-59`): expressions and declarations are validated in the tools' prepare step only, so an applied preview stores what no
  validator saw, although `createComputedField.ts:50-53` says that a caller reaching the registry directly "cannot store a field this workspace would not
  accept". Previews also mint from the page's shared sequencer, which is not seeded for these kinds - `registerFollowupTools.ts:61-69` says so and
  gives the tools one of their own - so an applied preview may replace a record under its id, and with it the meaning of
  what was made of that record. The group is switched off in the shipped page (`workbenchCompositionRoot.ts:188`).
* A default outside a narrowed range makes a custom study uncallable with its own defaults; the
  follow-up registration mints from an unseeded counter; overflow yields values `expressionEvaluator.ts:6-8` rules out.

Page and backend:

* `onBridgeReplaced` has no subscriber: tools stay on the bridge they were registered with (`bridge.ts:75-79`), and a
  bridge replaced while the page starts splits them.
* After a failed attempt the tools registered so far stay bound to the abandoned runtime until a retry.
* `backtest_jobs.py:68-72` says that every call on the store happens on the event loop; `get_backtest_results` is a plain function, which
  the framework runs on a thread. A read between the two writes of an eviction (`:140-141`) is told that the job is unknown; one that moves an entry
  under the comprehension (`:137`) makes it raise and nothing is evicted; one whose job is deleted under it fails.
* A job that runs long is evicted the moment it finishes; job ids restart with the backend, so a remembered answer then names another job; a key in
  flight, or one whose response was lost, starts a second evaluation.
* Overlapping jobs lose each other's writes, and enforcement may leave an eligible set other than the filtered panel measures.

## Not modelled

Similarity search and export (reads), provenance and theme (presentation), the numeric engines of the backend, the search over catalog
labels, drawing, the relay of one call over document events, and the HTTP routes that keep no state.

## Plan

Done: every component of the table above but the last row, and every safety property of a passing run proved but the four over filter trees.
What is left would be worth, in this order: `DraftsTellWhy` over trees given as sets of nodes with a parent each, where no
recursion is needed, as `CustomStudies` does for expressions; a bound on the loss when two jobs of the market data overlap.
Not planned: numeric engines, drawing, deployment.
