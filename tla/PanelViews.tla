------------------------------ MODULE PanelViews ------------------------------
(***************************************************************************)
(* What a panel shows and how (panels/registry, panels/application,        *)
(* results/domain/tableConfig.ts): its source, its renderer and the view   *)
(* configuration, under the contracts that placeholders and real           *)
(* implementations register in any order.  One panel is followed, with the *)
(* panel before its newest change; where a panel lies is in PanelGrid.     *)
(* A configuration is a function from the fields it names.  Labels, units, *)
(* styles and the shapes of single values are left out, a formula is the   *)
(* set of fields it reads, and a call that is refused is no step.          *)
(***************************************************************************)
EXTENDS Naturals, Sequences, FiniteSets, SequencesExt

CONSTANTS
  Kinds,          \* panel kind -> [renderer, contract: the renderer whose rules its config obeys or NoName, fields]
  SourceTypes,    \* the registered source types
  Registrations,  \* renderer -> the set of contracts registered for it, each [real, accepts, fields]
  CatalogFields,  \* the fields of the catalog
  NumericFields,
  DEFAULT_PAGE_SIZE, MAX_PAGE_SIZE,
  ViewRequests,       \* bound: the configurations callers send
  NoName, Null

ASSUME PanelViewsAssumption ==
  /\ NumericFields \subseteq CatalogFields
  /\ MAX_PAGE_SIZE \in Nat /\ DEFAULT_PAGE_SIZE \in 1..MAX_PAGE_SIZE
  /\ Registrations = [name \in DOMAIN Registrations |-> Registrations[name]]
  /\ \A name \in DOMAIN Registrations : Cardinality({c \in Registrations[name] : c.real}) <= 1
  /\ \A kind \in DOMAIN Kinds : Kinds[kind].renderer \in DOMAIN Registrations \union {NoName}

Table == "table"
ChartGrid == "chart_grid"

\* The contracts that a renderer may be left with.
Settled(name) ==
  {c \in Registrations[name] : c.real \/ \A d \in Registrations[name] : ~d.real}

\* What is registered: every renderer has a contract, the chart grid draws an
\* instrument and the table results, and no field of the real table is a field
\* of another renderer or kind.
ASSUME RegistrationsAssumption ==
  /\ {Table, ChartGrid} \subseteq DOMAIN Registrations /\ NoName \notin DOMAIN Registrations
  /\ \A name \in DOMAIN Registrations : Registrations[name] # {}
  /\ \A c \in Settled(ChartGrid) : "instrument" \in c.accepts
  /\ \A c \in Settled(Table) : "screener_results" \in c.accepts
  /\ \A kind \in DOMAIN Kinds : Kinds[kind].contract \in DOMAIN Registrations \union {NoName}
  /\ \A table \in Settled(Table) : table.real =>
       /\ \A name \in DOMAIN Registrations \ {Table} : \A c \in Settled(name) :
            c.fields \intersect table.fields = {}
       /\ \A kind \in DOMAIN Kinds :
            Kinds[kind].contract = NoName => Kinds[kind].fields \intersect table.fields = {}

VARIABLES
  contracts,   \* the registry: renderer -> its contract, or NoContract
  pending,     \* renderer -> the registrations of it that are still to come
  panel,       \* the panel, or NoPanel
  panelBefore  \* the panel before the newest change, which undo brings back

viewVars == <<contracts, pending, panel, panelBefore>>

NoPanel == [kind |-> NoName]
Renderers == DOMAIN Registrations
NoConfig == [field \in {} |-> Null]
Merged(base, requested) ==
  [field \in DOMAIN base \union DOMAIN requested |->
     IF field \in DOMAIN requested THEN requested[field] ELSE base[field]]
Only(config, fields) == [field \in DOMAIN config \intersect fields |-> config[field]]

-----------------------------------------------------------------------------
(* The registry *)

NoContract == [real |-> FALSE]

\* Variant: a placeholder takes the place of what is there.
Upsert_Replaces(held, incoming) == incoming

\* upsert: a real contract is never replaced, a placeholder by a real one.
Upsert(held, incoming) == IF held = NoContract \/ incoming.real THEN incoming ELSE held

\* registerRendererType, in any order.
Register(name, contract) ==
  /\ contract \in pending[name]
  /\ contracts' = [contracts EXCEPT ![name] = Upsert(@, contract)]
  /\ pending' = [pending EXCEPT ![name] = @ \ {contract}]
  /\ UNCHANGED <<panel, panelBefore>>

\* createPanelShellRuntime registers everything before there is a tool.
Composed == \A name \in Renderers : pending[name] = {}

\* isCompatible of the three forms of source types.
IsCompatible(sourceType, kind, renderer) ==
  CASE sourceType = "instrument" -> kind = "chart" /\ renderer = ChartGrid
    [] sourceType = "screener_results" -> renderer \in {NoName, Table}
    [] OTHER -> IF renderer = NoName THEN TRUE ELSE sourceType \in contracts[renderer].accepts

-----------------------------------------------------------------------------
(* validateResultsTableConfig, over what parseWireResultsTableConfig reads   *)

Ids(entries) == {entries[i].id : i \in DOMAIN entries}
Unique(entries) == Cardinality(Ids(entries)) = Len(entries)
ResultId == [source |-> "result_id"]

\* parseWireResultsTableConfig: what is absent is empty.
Parsed(config) ==
  Merged([columns |-> <<>>, computed_columns |-> <<>>, sort |-> Null, grouping |-> Null,
          formatting_rules |-> <<>>, page_size |-> Null, chart_panel_id |-> Null], config)

\* resolveIdentity, known
Known(identity, table) ==
  CASE identity.source = "catalog_field" -> identity.id \in CatalogFields
    [] identity.source = "computed_column" -> identity.id \in Ids(table.computed_columns)
    [] OTHER -> TRUE

ComputedColumnsHold(table) ==
  /\ Unique(table.computed_columns)
  /\ \A c \in ToSet(table.computed_columns) : c.reads \subseteq NumericFields
DisplayColumnsHold(table) ==
  /\ Unique(table.columns)
  /\ \A c \in ToSet(table.columns) : Known(c.identity, table)
SortAndGroupingHold(table) ==
  /\ table.sort # Null =>
       /\ Known(table.sort.key, table)
       /\ table.sort.tie_break # Null => Known(table.sort.tie_break, table)
  /\ table.grouping # Null => Known(table.grouping, table)
FormattingRulesHold(table) ==
  /\ Unique(table.formatting_rules)
  /\ \A rule \in ToSet(table.formatting_rules) : rule.column \in Ids(table.columns)
PageSizeHolds(table) == table.page_size # Null => table.page_size \in 1..MAX_PAGE_SIZE

TableHolds(table) ==
  /\ PageSizeHolds(table) /\ ComputedColumnsHold(table) /\ DisplayColumnsHold(table)
  /\ SortAndGroupingHold(table) /\ FormattingRulesHold(table)
Normalized(table) ==
  [table EXCEPT !.page_size = IF @ = Null THEN DEFAULT_PAGE_SIZE ELSE @,
                !.sort = IF @ = Null \/ @.tie_break # Null THEN @
                         ELSE [key |-> @.key, tie_break |-> ResultId]]

\* validateConfig of a contract: whether it is accepted, and what is stored.
\* The table's ignores fields it does not know; the others refuse them.
Accepts(name, config) ==
  IF name = Table /\ contracts[name].real THEN TableHolds(Parsed(Only(config, contracts[name].fields)))
  ELSE DOMAIN config \subseteq contracts[name].fields
StoredConfig(name, config) ==
  IF name = Table /\ contracts[name].real THEN Normalized(Parsed(Only(config, contracts[name].fields)))
  ELSE config

KindAccepts(kind, config) ==
  IF Kinds[kind].contract # NoName THEN Accepts(Kinds[kind].contract, config)
  ELSE DOMAIN config \subseteq Kinds[kind].fields
KindStoredConfig(kind, config) ==
  IF Kinds[kind].contract # NoName THEN StoredConfig(Kinds[kind].contract, config) ELSE config

\* recognizedRendererConfig, migrateConfig
Recognized(renderer, config) == Only(config, contracts[renderer].fields)

-----------------------------------------------------------------------------
(* The operations *)

ChangePanel(next) == panel' = next /\ panelBefore' = panel /\ UNCHANGED <<contracts, pending>>

\* create_panel: the renderer is checked against the registry, the source
\* against the renderer and the configuration against the kind.
CreatePanel(kind, renderer, source, config) ==
  /\ Composed /\ panel = NoPanel
  /\ source # NoName => IsCompatible(source, kind, renderer)
  /\ KindAccepts(kind, config)
  /\ ChangePanel([kind |-> kind, renderer |-> renderer, source |-> source,
                  config |-> KindStoredConfig(kind, config)])

\* bind_panel_source: the kind's bindingTypes are not consulted.
BindPanelSource(source) ==
  /\ panel # NoPanel
  /\ IsCompatible(source, panel.kind, panel.renderer)
  /\ ChangePanel([panel EXCEPT !.source = source])

\* Variant: the source the panel has is not looked at.
SetPanelRenderer_AnySource(renderer) ==
  /\ panel # NoPanel
  /\ ChangePanel([panel EXCEPT !.renderer = renderer, !.config = Recognized(renderer, @)])

\* set_panel_renderer: what the new renderer does not know is dropped.
SetPanelRenderer(renderer) ==
  /\ panel # NoPanel
  /\ panel.source # NoName => panel.source \in contracts[renderer].accepts
  /\ ChangePanel([panel EXCEPT !.renderer = renderer, !.config = Recognized(renderer, @)])

\* Variant: only what is asked for is validated, then merged.
ConfigurePanelView_Partly(requested) ==
  /\ panel # NoPanel /\ panel.renderer # NoName
  /\ Accepts(panel.renderer, requested)
  /\ ChangePanel([panel EXCEPT !.config = Merged(Recognized(panel.renderer, @), requested)])

\* configure_panel_view with a configuration: merged onto what the renderer
\* recognises, and validated as a whole.
ConfigurePanelView(requested) ==
  /\ panel # NoPanel /\ panel.renderer # NoName
  /\ LET candidate == Merged(Recognized(panel.renderer, panel.config), requested)
     IN  /\ Accepts(panel.renderer, candidate)
         /\ ChangePanel([panel EXCEPT !.config = StoredConfig(panel.renderer, candidate)])

\* configure_chart_grid
ConfigureChartGrid(requested) ==
  /\ panel # NoPanel /\ panel.renderer = ChartGrid
  /\ LET candidate == Merged(Recognized(ChartGrid, panel.config), requested)
     IN  /\ Accepts(ChartGrid, candidate)
         /\ ChangePanel([panel EXCEPT !.config = StoredConfig(ChartGrid, candidate)])

\* remove_panel; a copy of it, by duplicate_panel, with another source.
RemovePanelView == panel # NoPanel /\ ChangePanel(NoPanel)
DuplicateOnto(source) ==
  /\ panel # NoPanel
  /\ source # NoName => IsCompatible(source, panel.kind, panel.renderer)
  /\ ChangePanel([panel EXCEPT !.source = source])

\* undo_change of the newest record; undoing that brings the change back.
UndoPanelChange == panel' = panelBefore /\ panelBefore' = panel /\ UNCHANGED <<contracts, pending>>

ViewsInit ==
  /\ contracts = [name \in Renderers |-> NoContract] /\ pending = Registrations
  /\ panel = NoPanel /\ panelBefore = NoPanel

\* The chart_grid fields of configure_chart_grid's own schema.
GridRequests == {NoConfig, [rows |-> 2]}

ViewsNext ==
  \/ \E name \in Renderers : \E contract \in Registrations[name] : Register(name, contract)
  \/ \E kind \in DOMAIN Kinds, source \in SourceTypes \union {NoName}, config \in ViewRequests :
       \E renderer \in Renderers \union {NoName} : CreatePanel(kind, renderer, source, config)
  \/ \E source \in SourceTypes : BindPanelSource(source)
  \/ \E renderer \in Renderers : SetPanelRenderer(renderer)
  \/ \E requested \in ViewRequests : ConfigurePanelView(requested)
  \/ \E requested \in GridRequests : ConfigureChartGrid(requested)
  \/ RemovePanelView
  \/ \E source \in SourceTypes \union {NoName} : DuplicateOnto(source)
  \/ UndoPanelChange

ViewsSpec == ViewsInit /\ [][ViewsNext]_viewVars

-----------------------------------------------------------------------------
(* Properties *)

\* The contract a renderer ends up with does not depend on who registered
\* first ("order-independent placeholder/real precedence", upsert): it is the
\* real one once there was one.  And a panel never holds a source its renderer
\* does not draw, however binding, switching, copying and undo are combined.
ViewsFit ==
  /\ \A name \in Renderers :
       (\E c \in Registrations[name] \ pending[name] : c.real) => contracts[name].real
  /\ (panel # NoPanel /\ panel.renderer # NoName /\ panel.source # NoName) =>
       panel.source \in contracts[panel.renderer].accepts

\* What a table panel stores holds together after any sequence of partial
\* configurations: its rules colour columns it displays, its columns and keys
\* name computed columns it has; so the fields its renderer recognises are
\* accepted again when the next call changes something else.
ViewsStayAccepted ==
  (panel # NoPanel /\ panel.renderer # NoName) =>
    Accepts(panel.renderer, Recognized(panel.renderer, panel.config))

\* A panel can always be drawn as it is stored: its renderer draws its source
\* and accepts its configuration.
ViewsHold == ViewsFit /\ ViewsStayAccepted
=============================================================================
