---------------------------- MODULE Tools_proofs ----------------------------
(***************************************************************************)
(* Proofs about the components that keep their state in one extension of   *)
(* the document, or beside it.                                             *)
(***************************************************************************)
EXTENDS PanelViews, ChartRead, CapturedSetups, ChartSources, ChartEdits, CustomStudies,
        Enumeration_proofs, WellFoundedInduction

-----------------------------------------------------------------------------
(* PanelViews.  A contract that was registered stays unless a real one      *)
(* takes its place; and whatever renderer a panel has, the fields of its    *)
(* configuration that the table would recognise hold together.              *)

Registered(name) == Registrations[name] \ pending[name]

Contracts == UNION {Registrations[n] : n \in Renderers}

RegistryHolds ==
  /\ contracts \in [Renderers -> Contracts \union {NoContract}]
  /\ pending \in [Renderers -> SUBSET Contracts]
  /\ \A name \in Renderers :
       /\ Registered(name) # {} => contracts[name] \in Registered(name)
       /\ Registered(name) = {} => contracts[name] = NoContract
       /\ (\E c \in Registered(name) : c.real) => contracts[name].real

\* The fields of a configuration that the table recognises make a valid table.
TableReady(settings) ==
  contracts[Table].real => TableHolds(Parsed(Only(settings, contracts[Table].fields)))

ViewOK(view) ==
  view # NoPanel =>
    /\ Composed
    /\ view = [kind |-> view.kind, renderer |-> view.renderer, source |-> view.source,
               config |-> view.config]
    /\ view.kind \in DOMAIN Kinds /\ view.renderer \in Renderers \union {NoName}
    /\ view.renderer # NoName /\ view.source # NoName =>
         view.source \in contracts[view.renderer].accepts
    /\ TableReady(view.config)

ViewsInv == RegistryHolds /\ ViewOK(panel) /\ ViewOK(panelBefore)

-----------------------------------------------------------------------------
(* Configurations *)

LEMMA NothingIsATable ==
  ASSUME NEW settings, NEW fields, DOMAIN settings \intersect fields = {}
  PROVE  TableHolds(Parsed(Only(settings, fields)))
<1> DEFINE only == Only(settings, fields)
           table == Parsed(only)
<1>1. DOMAIN only = {}
  BY DEF Only
<1> HIDE DEF only
<1>2. /\ table["columns"] = <<>> /\ table["computed_columns"] = <<>> /\ table["sort"] = Null
      /\ table["grouping"] = Null /\ table["formatting_rules"] = <<>> /\ table["page_size"] = Null
  BY <1>1 DEF Parsed, Merged
<1>3. Unique(<<>>)
  <2>1. Ids(<<>>) = {}
    BY DEF Ids
  <2> QED BY <2>1, FS_EmptySet DEF Unique
<1>4. ToSet(<<>>) = {}
  BY DEF ToSet
<1> HIDE DEF table
<1> QED BY <1>2, <1>3, <1>4 DEF TableHolds, PageSizeHolds, ComputedColumnsHold, DisplayColumnsHold,
        SortAndGroupingHold, FormattingRulesHold, only, table

\* What is recognised twice is recognised once.
LEMMA OnlyOnce ==
  ASSUME NEW settings, NEW fields
  PROVE  Only(Only(settings, fields), fields) = Only(settings, fields)
BY DEF Only

\* A table that is stored is accepted again, by what its renderer recognises.
LEMMA StoredTablesHold ==
  ASSUME NEW settings, NEW fields, TableHolds(Parsed(Only(settings, fields)))
  PROVE  TableHolds(Parsed(Only(Normalized(Parsed(Only(settings, fields))), fields)))
<1> DEFINE only == Only(settings, fields)
           old == Parsed(only)
           saved == Normalized(old)
           again == Only(saved, fields)
           new == Parsed(again)
           named == {"columns", "computed_columns", "sort", "grouping", "formatting_rules", "page_size"}
<1>1. DOMAIN only = DOMAIN settings \intersect fields
  BY DEF Only
<1>2. DOMAIN saved = DOMAIN old /\ named \subseteq DOMAIN old
  BY DEF Normalized, Parsed, Merged
<1>3. \A field \in named \ fields : old[field] = new[field]
  <2>1. ASSUME NEW field \in named \ fields
        PROVE  field \notin DOMAIN only /\ field \notin DOMAIN again
    BY <1>1 DEF Only
  <2> HIDE DEF only, again
  <2> QED BY <2>1 DEF Parsed, Merged
<1>4. \A field \in named \intersect fields : new[field] = saved[field]
  <2>1. ASSUME NEW field \in named \intersect fields
        PROVE  field \in DOMAIN again /\ again[field] = saved[field]
    BY <1>2 DEF Only
  <2> HIDE DEF again
  <2> QED BY <2>1 DEF Parsed, Merged
<1> HIDE DEF old
<1>5. \A field \in named \ {"page_size", "sort"} : saved[field] = old[field]
  BY <1>2 DEF Normalized
<1>6. /\ saved["page_size"] = IF old["page_size"] = Null THEN DEFAULT_PAGE_SIZE ELSE old["page_size"]
      /\ saved["sort"] = IF old["sort"] = Null \/ old["sort"].tie_break # Null THEN old["sort"]
                          ELSE [key |-> old["sort"].key, tie_break |-> ResultId]
  BY <1>2 DEF Normalized
<1> HIDE DEF new, saved
<1>7. \A field \in named \ {"page_size", "sort"} : new[field] = old[field]
  BY <1>3, <1>4, <1>5
<1>8. new["page_size"] \in {old["page_size"], DEFAULT_PAGE_SIZE}
  BY <1>3, <1>4, <1>6
<1>9. \/ new["sort"] = old["sort"]
      \/ old["sort"] # Null /\ new["sort"] = [key |-> old["sort"].key, tie_break |-> ResultId]
  BY <1>3, <1>4, <1>6
<1>10. TableHolds(old)
  BY DEF old
<1>11. \A identity : Known(identity, new) = Known(identity, old)
  BY <1>7 DEF Known
<1>12. PageSizeHolds(new)
  BY <1>8, <1>10, PanelViewsAssumption DEF PanelViewsAssumption, TableHolds, PageSizeHolds
<1>13. ComputedColumnsHold(new) /\ DisplayColumnsHold(new) /\ FormattingRulesHold(new)
  BY <1>7, <1>10, <1>11 DEF TableHolds, ComputedColumnsHold, DisplayColumnsHold, FormattingRulesHold
<1>14. SortAndGroupingHold(new)
  <2>1. Known(ResultId, new)
    BY DEF Known, ResultId
  <2> QED BY <1>7, <1>9, <1>10, <1>11, <2>1 DEF TableHolds, SortAndGroupingHold
<1> QED BY <1>12, <1>13, <1>14 DEF TableHolds, new, saved, old

-----------------------------------------------------------------------------
(* The registry *)

LEMMA RegisterKeeps ==
  ASSUME RegistryHolds, NEW name \in Renderers, NEW contract \in Registrations[name], Register(name, contract)
  PROVE  RegistryHolds'
<1>1. /\ contracts' = [contracts EXCEPT ![name] = Upsert(contracts[name], contract)]
      /\ pending' = [pending EXCEPT ![name] = pending[name] \ {contract}]
      /\ contract \in pending[name]
  BY DEF Register
<1>2. contract \in Contracts
  BY DEF Contracts
<1>3. contracts \in [Renderers -> Contracts \union {NoContract}] /\ pending \in [Renderers -> SUBSET Contracts]
  BY DEF RegistryHolds
<1>4. Upsert(contracts[name], contract) \in {contracts[name], contract}
  BY DEF Upsert
<1>5. contracts' \in [Renderers -> Contracts \union {NoContract}] /\ pending' \in [Renderers -> SUBSET Contracts]
  BY <1>1, <1>2, <1>3, <1>4
<1>6. ASSUME NEW other \in Renderers
      PROVE  /\ Registered(other)' # {} => contracts'[other] \in Registered(other)'
             /\ Registered(other)' = {} => contracts'[other] = NoContract
             /\ (\E c \in Registered(other)' : c.real) => contracts'[other].real
  <2>1. CASE other # name
    <3>1. contracts'[other] = contracts[other] /\ pending'[other] = pending[other]
      BY <1>1, <1>3, <2>1
    <3> QED BY <3>1 DEF Registered, RegistryHolds
  <2>2. CASE other = name
    <3>1. /\ contracts'[name] = Upsert(contracts[name], contract)
          /\ Registered(name)' = Registered(name) \union {contract}
      BY <1>1, <1>3 DEF Registered
    <3>2. /\ Registered(name) # {} => contracts[name] \in Registered(name)
          /\ Registered(name) = {} => contracts[name] = NoContract
          /\ (\E c \in Registered(name) : c.real) => contracts[name].real
      BY DEF RegistryHolds
    <3>3. ~NoContract.real
      BY DEF NoContract
    <3> QED BY <2>2, <3>1, <3>2, <3>3 DEF Upsert
  <2> QED BY <2>1, <2>2
<1> QED BY <1>5, <1>6 DEF RegistryHolds

\* Once all is registered, every renderer is left with the contract it should have.
LEMMA RegistrySettles ==
  ASSUME RegistryHolds, Composed, NEW name \in Renderers
  PROVE  contracts[name] \in Settled(name)
<1>1. Registered(name) = Registrations[name] /\ Registrations[name] # {}
  BY RegistrationsAssumption DEF Registered, Composed, RegistrationsAssumption, Renderers
<1> QED BY <1>1 DEF RegistryHolds, Settled

\* The registry does not move under a panel.
LEMMA ViewsLast ==
  ASSUME RegistryHolds, NEW view, ViewOK(view), ~Composed \/ UNCHANGED <<contracts, pending>>
  PROVE  view # NoPanel => Composed /\ UNCHANGED <<contracts, pending>>
BY DEF ViewOK

-----------------------------------------------------------------------------
(* The panel *)

LEMMA FieldsApart ==
  ASSUME RegistryHolds, Composed, contracts[Table].real, NEW name \in Renderers \ {Table}
  PROVE  contracts[name].fields \intersect contracts[Table].fields = {}
<1>1. Table \in Renderers
  BY RegistrationsAssumption DEF RegistrationsAssumption, Renderers
<1> QED BY <1>1, RegistrySettles, RegistrationsAssumption DEF RegistrationsAssumption, Renderers

\* What a contract accepts and stores is ready for the table.
LEMMA StoredIsReady ==
  ASSUME RegistryHolds, Composed, NEW name \in Renderers, NEW settings, Accepts(name, settings)
  PROVE  TableReady(StoredConfig(name, settings))
<1> SUFFICES ASSUME contracts[Table].real
             PROVE  TableHolds(Parsed(Only(StoredConfig(name, settings), contracts[Table].fields)))
  BY DEF TableReady
<1>1. CASE name = Table
  BY <1>1, StoredTablesHold DEF Accepts, StoredConfig
<1>2. CASE name # Table
  <2>1. DOMAIN settings \subseteq contracts[name].fields /\ StoredConfig(name, settings) = settings
    BY <1>2 DEF Accepts, StoredConfig
  <2>2. DOMAIN settings \intersect contracts[Table].fields = {}
    BY <1>2, <2>1, FieldsApart
  <2> QED BY <2>1, <2>2, NothingIsATable
<1> QED BY <1>1, <1>2

LEMMA KindStoredIsReady ==
  ASSUME RegistryHolds, Composed, NEW kind \in DOMAIN Kinds, NEW settings, KindAccepts(kind, settings)
  PROVE  TableReady(KindStoredConfig(kind, settings))
<1>1. CASE Kinds[kind].contract # NoName
  <2>1. Kinds[kind].contract \in Renderers
    BY <1>1, RegistrationsAssumption DEF RegistrationsAssumption, Renderers
  <2> QED BY <1>1, <2>1, StoredIsReady DEF KindAccepts, KindStoredConfig
<1>2. CASE Kinds[kind].contract = NoName
  <2>1. contracts[Table] \in Settled(Table)
    BY RegistrySettles, RegistrationsAssumption DEF RegistrationsAssumption, Renderers
  <2>2. contracts[Table].real => DOMAIN settings \intersect contracts[Table].fields = {}
    BY <1>2, <2>1, RegistrationsAssumption DEF RegistrationsAssumption, KindAccepts
  <2>3. KindStoredConfig(kind, settings) = settings
    BY <1>2 DEF KindStoredConfig
  <2> QED BY <2>2, <2>3, NothingIsATable DEF TableReady
<1> QED BY <1>1, <1>2

LEMMA RecognizedIsReady ==
  ASSUME RegistryHolds, Composed, NEW name \in Renderers, NEW settings, TableReady(settings)
  PROVE  TableReady(Recognized(name, settings))
<1> SUFFICES ASSUME contracts[Table].real
             PROVE  TableHolds(Parsed(Only(Recognized(name, settings), contracts[Table].fields)))
  BY DEF TableReady
<1>1. CASE name = Table
  BY <1>1, OnlyOnce DEF Recognized, TableReady
<1>2. CASE name # Table
  <2>1. DOMAIN Recognized(name, settings) \subseteq contracts[name].fields
    BY DEF Recognized, Only
  <2> QED BY <1>2, <2>1, FieldsApart, NothingIsATable
<1> QED BY <1>1, <1>2

\* A source that is found compatible is one the renderer draws.
LEMMA CompatibleIsDrawn ==
  ASSUME RegistryHolds, Composed, NEW kind, NEW renderer \in Renderers, NEW source,
         IsCompatible(source, kind, renderer)
  PROVE  source \in contracts[renderer].accepts
<1>1. contracts[renderer] \in Settled(renderer) /\ renderer # NoName
  BY RegistrySettles, RegistrationsAssumption DEF RegistrationsAssumption, Renderers
<1> QED BY <1>1, RegistrationsAssumption DEF RegistrationsAssumption, IsCompatible

\* The panel becomes another valid one, and the one it was is remembered.
LEMMA ViewChanges ==
  ASSUME ViewsInv, NEW next, ViewOK(next), ChangePanel(next)
  PROVE  ViewsInv'
<1>1. RegistryHolds' /\ \A view : ViewOK(view)' <=> ViewOK(view)
  BY DEF ViewsInv, ChangePanel, RegistryHolds, Registered, ViewOK, Composed, TableReady, TableHolds
<1> QED BY <1>1 DEF ViewsInv, ChangePanel

LEMMA TwoFieldsChange ==
  ASSUME NEW kind, NEW renderer, NEW source, NEW settings, NEW otherRenderer, NEW otherConfig
  PROVE  [[kind |-> kind, renderer |-> renderer, source |-> source, config |-> settings]
            EXCEPT !.renderer = otherRenderer, !.config = otherConfig]
          = [kind |-> kind, renderer |-> otherRenderer, source |-> source, config |-> otherConfig]
<1> DEFINE old == [kind |-> kind, renderer |-> renderer, source |-> source, config |-> settings]
           mid == [kind |-> kind, renderer |-> otherRenderer, source |-> source, config |-> settings]
<1>1. [old EXCEPT !.renderer = otherRenderer] = mid
  OBVIOUS
<1>2. [mid EXCEPT !.config = otherConfig]
        = [kind |-> kind, renderer |-> otherRenderer, source |-> source, config |-> otherConfig]
  OBVIOUS
<1>3. [old EXCEPT !.renderer = otherRenderer, !.config = otherConfig] = [mid EXCEPT !.config = otherConfig]
  BY <1>1
<1> QED BY <1>2, <1>3

LEMMA ViewsInvNext == ViewsInv /\ [ViewsNext]_viewVars => ViewsInv'
<1> SUFFICES ASSUME ViewsInv, [ViewsNext]_viewVars
             PROVE  ViewsInv'
  OBVIOUS
<1>1. ASSUME NEW name \in Renderers, NEW contract \in Registrations[name], Register(name, contract)
      PROVE  ViewsInv'
  <2>1. RegistryHolds'
    BY <1>1, RegisterKeeps DEF ViewsInv
  <2>2. ~Composed
    BY <1>1 DEF Register, Composed
  <2>3. panel = NoPanel /\ panelBefore = NoPanel
    BY <2>2 DEF ViewsInv, ViewOK
  <2> QED BY <1>1, <2>1, <2>3 DEF Register, ViewsInv, ViewOK
<1>2. ASSUME NEW kind \in DOMAIN Kinds, NEW source \in SourceTypes \union {NoName}, NEW settings \in ViewRequests,
             NEW renderer \in Renderers \union {NoName}, CreatePanel(kind, renderer, source, settings)
      PROVE  ViewsInv'
  <2> DEFINE next == [kind |-> kind, renderer |-> renderer, source |-> source,
                      config |-> KindStoredConfig(kind, settings)]
  <2>1. TableReady(KindStoredConfig(kind, settings))
    BY <1>2, KindStoredIsReady DEF CreatePanel, ViewsInv
  <2>2. renderer # NoName /\ source # NoName => source \in contracts[renderer].accepts
    BY <1>2, CompatibleIsDrawn DEF CreatePanel, ViewsInv
  <2>3. ViewOK(next)
    BY <1>2, <2>1, <2>2 DEF ViewOK, CreatePanel
  <2> QED BY <1>2, <2>3, ViewChanges DEF CreatePanel
<1> DEFINE Whole == /\ RegistryHolds /\ Composed
                    /\ panel = [kind |-> panel.kind, renderer |-> panel.renderer, source |-> panel.source,
                                config |-> panel.config]
                    /\ panel.kind \in DOMAIN Kinds /\ panel.renderer \in Renderers \union {NoName}
                    /\ panel.renderer # NoName /\ panel.source # NoName =>
                         panel.source \in contracts[panel.renderer].accepts
                    /\ TableReady(panel.config)
<1>3. panel # NoPanel => Whole
  BY DEF ViewsInv, ViewOK
<1>4. ASSUME NEW source \in SourceTypes \union {NoName}, panel # NoPanel,
             source # NoName => IsCompatible(source, panel.kind, panel.renderer),
             ChangePanel([panel EXCEPT !.source = source])
      PROVE  ViewsInv'
  <2>1. panel.renderer # NoName /\ source # NoName => source \in contracts[panel.renderer].accepts
    BY <1>3, <1>4, CompatibleIsDrawn
  <2>2. ViewOK([panel EXCEPT !.source = source])
    BY <1>3, <1>4, <2>1 DEF ViewOK
  <2> QED BY <1>4, <2>2, ViewChanges
<1>5. ASSUME NEW renderer \in Renderers, SetPanelRenderer(renderer)
      PROVE  ViewsInv'
  <2>1. panel # NoPanel /\ ChangePanel([panel EXCEPT !.renderer = renderer,
                                                    !.config = Recognized(renderer, panel.config)])
    BY <1>5 DEF SetPanelRenderer
  <2>2. TableReady(Recognized(renderer, panel.config))
    BY <1>3, <2>1, RecognizedIsReady
  <2>3. panel.source # NoName => panel.source \in contracts[renderer].accepts
    BY <1>5 DEF SetPanelRenderer
  <2>4. ViewOK([panel EXCEPT !.renderer = renderer, !.config = Recognized(renderer, panel.config)])
    <3> DEFINE settings == Recognized(renderer, panel.config)
               next == [panel EXCEPT !.renderer = renderer, !.config = settings]
    <3> HIDE DEF settings
    <3>1. Whole /\ TableReady(settings)
      BY <1>3, <2>1, <2>2 DEF settings
    <3>2. next = [kind |-> panel.kind, renderer |-> renderer, source |-> panel.source, config |-> settings]
      <4>1. PICK k, r, s, c : panel = [kind |-> k, renderer |-> r, source |-> s, config |-> c]
        BY <3>1
      <4>2. panel.kind = k /\ panel.source = s
        BY <4>1
      <4>3. next = [[kind |-> k, renderer |-> r, source |-> s, config |-> c]
                      EXCEPT !.renderer = renderer, !.config = settings]
        BY <4>1
      <4> HIDE DEF next
      <4> QED BY <4>2, <4>3, TwoFieldsChange
    <3> QED BY <3>1, <3>2, <2>3 DEF ViewOK, settings
  <2> QED BY <2>1, <2>4, ViewChanges
<1>6. ASSUME NEW name \in Renderers, NEW candidate, panel # NoPanel, Accepts(name, candidate),
             ChangePanel([panel EXCEPT !.config = StoredConfig(name, candidate)])
      PROVE  ViewsInv'
  <2>1. TableReady(StoredConfig(name, candidate))
    BY <1>3, <1>6, StoredIsReady
  <2>2. ViewOK([panel EXCEPT !.config = StoredConfig(name, candidate)])
    BY <1>3, <1>6, <2>1 DEF ViewOK
  <2> QED BY <1>6, <2>2, ViewChanges
<1>7. ASSUME NEW requested, ConfigurePanelView(requested)
      PROVE  ViewsInv'
  <2>1. panel.renderer \in Renderers
    BY <1>3, <1>7 DEF ConfigurePanelView
  <2> QED BY <1>6, <1>7, <2>1 DEF ConfigurePanelView
<1>8. ASSUME NEW requested, ConfigureChartGrid(requested)
      PROVE  ViewsInv'
  <2>1. ChartGrid \in Renderers
    BY RegistrationsAssumption DEF RegistrationsAssumption, Renderers
  <2> QED BY <1>6, <1>8, <2>1 DEF ConfigureChartGrid
<1>9. ASSUME NEW source \in SourceTypes, BindPanelSource(source)
      PROVE  ViewsInv'
  BY <1>4, <1>9 DEF BindPanelSource
<1>10. ASSUME NEW source \in SourceTypes \union {NoName}, DuplicateOnto(source)
       PROVE  ViewsInv'
  BY <1>4, <1>10 DEF DuplicateOnto
<1>11. CASE RemovePanelView
  <2>1. ViewOK(NoPanel)
    BY DEF ViewOK
  <2> QED BY <1>11, <2>1, ViewChanges DEF RemovePanelView
<1>12. CASE UndoPanelChange
  <2>1. ViewOK(panelBefore)
    BY DEF ViewsInv
  <2> QED BY <1>12, <2>1, ViewChanges DEF UndoPanelChange, ChangePanel
<1>13. CASE UNCHANGED viewVars
  BY <1>13 DEF viewVars, ViewsInv, RegistryHolds, Registered, ViewOK, Composed, TableReady
<1> QED
  BY <1>1, <1>2, <1>5, <1>7, <1>8, <1>9, <1>10, <1>11, <1>12, <1>13 DEF ViewsNext

\* Whatever order contracts are registered in, and however a panel is created,
\* bound, switched, configured and undone, it can be drawn as it is stored:
\* for any kinds, renderers, contracts, catalogs and configurations callers send.
THEOREM ViewsAlwaysHold == ViewsSpec => []ViewsHold
<1>1. ViewsInit => ViewsInv
  <2> SUFFICES ASSUME ViewsInit
               PROVE  ViewsInv
    OBVIOUS
  <2>1. Registrations \in [Renderers -> SUBSET Contracts]
    BY PanelViewsAssumption DEF PanelViewsAssumption, Renderers, Contracts
  <2>2. \A name \in Renderers : Registered(name) = {} /\ contracts[name] = NoContract
    BY DEF ViewsInit, Registered
  <2> QED BY <2>1, <2>2 DEF ViewsInit, ViewsInv, RegistryHolds, ViewOK
<1>2. ViewsInv => ViewsHold
  <2> SUFFICES ASSUME ViewsInv
               PROVE  ViewsFit /\ ViewsStayAccepted
    BY DEF ViewsHold
  <2>1. ViewsFit
    BY DEF ViewsInv, RegistryHolds, Registered, ViewOK, ViewsFit
  <2>2. ASSUME panel # NoPanel, panel.renderer # NoName
        PROVE  Accepts(panel.renderer, Recognized(panel.renderer, panel.config))
    <3>1. TableReady(panel.config)
      BY <2>2 DEF ViewsInv, ViewOK
    <3>2. CASE panel.renderer = Table /\ contracts[Table].real
      BY <3>1, <3>2, OnlyOnce DEF Accepts, Recognized, TableReady
    <3>3. CASE ~(panel.renderer = Table /\ contracts[Table].real)
      BY <3>3 DEF Accepts, Recognized, Only
    <3> QED BY <3>2, <3>3
  <2> QED BY <2>1, <2>2 DEF ViewsStayAccepted
<1> QED BY <1>1, <1>2, ViewsInvNext, PTL DEF ViewsSpec

-----------------------------------------------------------------------------
(* ChartRead.  A series is told by the times it is made of and by the class *)
(* of each time, which grows with it: a bar covers the times of one class,  *)
(* and the bars stand in the order of the classes.  A roll-up gives the     *)
(* same times coarser classes, and a slice is the bars from one place to    *)
(* another.                                                                 *)

\* A set of whole numbers has a least and a greatest.
LEMMA EndsAre ==
  ASSUME NEW S \in SUBSET Int, IsFiniteSet(S), S # {}
  PROVE  /\ Min(S) \in S /\ \A k \in S : Min(S) <= k
         /\ Max(S) \in S /\ \A k \in S : k <= Max(S)
<1> DEFINE at == Ascending(S)
           c == Cardinality(S)
<1>1. /\ c \in Nat /\ at \in [1..c -> S]
      /\ \A m, n \in 1..c : m < n => at[m] < at[n]
      /\ \A k \in S : Rank(S, k) + 1 \in 1..c /\ at[Rank(S, k) + 1] = k
  BY AscendingEnumerates
<1> HIDE DEF at, c
<1>2. PICK k \in S : TRUE
  OBVIOUS
<1>3. 1 \in 1..c /\ c \in 1..c
  BY <1>1, <1>2
<1>4. at[1] \in S /\ at[c] \in S
  BY <1>1, <1>3
<1>5. ASSUME NEW j \in S PROVE at[1] <= j /\ j <= at[c]
  <2>1. PICK m \in 1..c : at[m] = j
    BY <1>1
  <2>2. at[1] \in Int /\ at[c] \in Int /\ at[m] \in Int
    BY <1>4, <2>1
  <2>3. m = 1 \/ 1 < m
    BY <2>1, <1>1
  <2>4. m = c \/ m < c
    BY <2>1, <1>1
  <2> QED BY <1>1, <1>3, <2>1, <2>2, <2>3, <2>4
<1>6. Min(S) \in S /\ \A j \in S : Min(S) <= j
  BY <1>4, <1>5 DEF Min
<1>7. Max(S) \in S /\ \A j \in S : Max(S) >= j
  BY <1>4, <1>5 DEF Max
<1> QED BY <1>6, <1>7

LEMMA QuotientsOrder ==
  ASSUME NEW w \in Nat \ {0}, NEW t \in Nat, NEW u \in Nat, t <= u
  PROVE  t \div w \in Nat /\ t \div w <= u \div w
<1>1. t \div w \in Nat /\ u \div w \in Nat
  OBVIOUS
<1>2. w * (t \div w) <= t /\ u < w * (u \div w) + w
  OBVIOUS
<1> DEFINE a == t \div w
           b == u \div w
<1> HIDE DEF a, b
<1>3. ASSUME b < a PROVE FALSE
  <2>1. a \in Nat /\ b \in Nat /\ w * a <= t /\ u < w * b + w
    BY <1>1, <1>2 DEF a, b
  <2>2. PICK d \in Nat : a = b + 1 + d
    <3>1. a - b - 1 \in Nat /\ a = b + 1 + (a - b - 1)
      BY <1>3, <2>1
    <3> QED BY <3>1
  <2>3. w * a = w * b + w + w * d /\ w * d \in Nat
    BY <2>1, <2>2
  <2>4. w * a \in Nat /\ w * b \in Nat
    BY <2>1
  <2> QED BY <2>1, <2>3, <2>4
<1> QED BY <1>1, <1>3 DEF a, b

Classes(T, c) == {c[t] : t \in T}
Fiber(T, c, k) == {t \in T : c[t] = k}
Classed(T, c) ==
  /\ T \in SUBSET Nat /\ IsFiniteSet(T) /\ c \in [T -> Nat]
  /\ \A t, u \in T : t <= u => c[t] <= c[u]

\* The place of the bar that covers a time.
BarOf(T, c, t) == Rank(Classes(T, c), c[t]) + 1

IsSeriesOf(bars, T, c) ==
  /\ bars \in Seq({bars[n] : n \in DOMAIN bars}) /\ Len(bars) = Cardinality(Classes(T, c))
  /\ \A n \in DOMAIN bars :
       /\ bars[n].covers = Fiber(T, c, Ascending(Classes(T, c))[n])
       /\ bars[n].time = Min(bars[n].covers)

LEMMA ClassesAre ==
  ASSUME NEW T, NEW c, Classed(T, c)
  PROVE  LET K == Classes(T, c)
             at == Ascending(K)
         IN  /\ K \in SUBSET Int /\ K \in SUBSET Nat /\ IsFiniteSet(K) /\ Cardinality(K) \in Nat
             /\ at \in [1..Cardinality(K) -> K]
             /\ \A m, n \in 1..Cardinality(K) : m < n => at[m] < at[n]
             /\ \A m, n \in 1..Cardinality(K) : m <= n <=> at[m] <= at[n]
             /\ \A n \in 1..Cardinality(K) : Fiber(T, c, at[n]) # {} /\ Fiber(T, c, at[n]) \in SUBSET T
             /\ \A t \in T : BarOf(T, c, t) \in 1..Cardinality(K) /\ at[BarOf(T, c, t)] = c[t]
             /\ \A t \in T, n \in 1..Cardinality(K) : BarOf(T, c, t) = n <=> t \in Fiber(T, c, at[n])
             /\ \A t, u \in T : t <= u => BarOf(T, c, t) <= BarOf(T, c, u)
<1> DEFINE K == Classes(T, c)
           at == Ascending(K)
           n0 == Cardinality(K)
<1>1. K \in SUBSET Nat /\ K \in SUBSET Int
  BY DEF Classed, Classes
<1>2. IsFiniteSet(K)
  <2>1. c \in Surjection(T, K)
    BY DEF Classed, Classes, Surjection
  <2> QED BY <2>1, FS_Surjection DEF Classed
<1>3. /\ n0 \in Nat /\ at \in [1..n0 -> K]
      /\ \A m, n \in 1..n0 : m < n => at[m] < at[n]
      /\ \A k \in K : Rank(K, k) + 1 \in 1..n0 /\ at[Rank(K, k) + 1] = k
  BY <1>1, <1>2, AscendingEnumerates
<1>4. \A t \in T : c[t] \in K
  BY DEF Classes
<1>5. \A t \in T : BarOf(T, c, t) \in 1..n0 /\ at[BarOf(T, c, t)] = c[t]
  BY <1>3, <1>4 DEF BarOf
<1>6. \A n \in 1..n0 : at[n] \in K
  BY <1>3
<1>7. ASSUME NEW n \in 1..n0 PROVE Fiber(T, c, at[n]) # {} /\ Fiber(T, c, at[n]) \in SUBSET T
  <2>1. PICK t \in T : at[n] = c[t]
    BY <1>6 DEF Classes
  <2> QED BY <2>1 DEF Fiber
<1> HIDE DEF K, at, n0
<1>8. \A n \in 1..n0 : at[n] \in Nat
  BY <1>1, <1>6
<1>9. ASSUME NEW m \in 1..n0, NEW n \in 1..n0 PROVE m <= n <=> at[m] <= at[n]
  <2>1. CASE m < n
    BY <2>1, <1>3, <1>8
  <2>2. CASE m = n
    BY <2>2, <1>8
  <2>3. CASE n < m
    <3>1. at[n] < at[m]
      BY <2>3, <1>3
    <3> QED BY <2>3, <3>1, <1>8, <1>3
  <2> QED BY <2>1, <2>2, <2>3, <1>3
<1>10. ASSUME NEW t \in T, NEW n \in 1..n0 PROVE BarOf(T, c, t) = n <=> t \in Fiber(T, c, at[n])
  <2>1. BarOf(T, c, t) \in 1..n0 /\ at[BarOf(T, c, t)] = c[t]
    BY <1>5
  <2>2. t \in Fiber(T, c, at[n]) <=> at[BarOf(T, c, t)] = at[n]
    BY <2>1 DEF Fiber
  <2>3. at[BarOf(T, c, t)] = at[n] => BarOf(T, c, t) <= n /\ n <= BarOf(T, c, t)
    BY <2>1, <1>8, <1>9
  <2> QED BY <2>1, <2>2, <2>3, <1>3
<1>11. ASSUME NEW t \in T, NEW u \in T, t <= u PROVE BarOf(T, c, t) <= BarOf(T, c, u)
  <2>1. c[t] <= c[u]
    BY <1>11 DEF Classed
  <2> QED BY <2>1, <1>5, <1>9
<1> QED BY <1>1, <1>2, <1>3, <1>5, <1>7, <1>9, <1>10, <1>11 DEF K, at, n0

LEMMA FibersAre ==
  ASSUME NEW T, NEW c, Classed(T, c), NEW k, Fiber(T, c, k) # {}
  PROVE  LET F == Fiber(T, c, k)
         IN  /\ F \in SUBSET T /\ F \in SUBSET Int /\ IsFiniteSet(F)
             /\ Min(F) \in F /\ Min(F) \in Nat /\ \A t \in F : Min(F) <= t
             /\ Max(F) \in F /\ Max(F) \in Nat /\ \A t \in F : t <= Max(F)
<1> DEFINE F == Fiber(T, c, k)
<1>1. F \in SUBSET T /\ F \in SUBSET Nat /\ F \in SUBSET Int
  <2>1. \A t \in F : t \in T
    BY DEF Fiber
  <2>2. \A t \in T : t \in Nat /\ t \in Int
    BY DEF Classed
  <2> QED BY <2>1, <2>2
<1>2. IsFiniteSet(F)
  BY <1>1, FS_Subset DEF Classed
<1> HIDE DEF F
<1> QED BY <1>1, <1>2, EndsAre DEF F

-----------------------------------------------------------------------------
\* The times whose bar of a timeframe opens inside a window, and their classes.
Asked(window, timeframe) ==
  {t \in market : Within(Min({u \in market : BucketKey(u, timeframe) = BucketKey(t, timeframe)}), window)}
SourceClass(window, timeframe) ==
  [t \in Asked(window, timeframe) |-> BucketKey(t, timeframe)]
MarketOK == market \in SUBSET Nat /\ IsFiniteSet(market)

LEMMA BucketsOrder ==
  ASSUME NEW timeframe \in Timeframes, NEW t \in Nat, NEW u \in Nat, t <= u
  PROVE  BucketKey(t, timeframe) \in Nat /\ BucketKey(t, timeframe) <= BucketKey(u, timeframe)
<1>1. Widths[timeframe] \in Nat \ {0}
  BY ChartReadAssumption DEF ChartReadAssumption, Timeframes
<1> QED BY <1>1, QuotientsOrder DEF BucketKey

LEMMA SeriesIs ==
  ASSUME MarketOK, NEW timeframe \in Timeframes, NEW window
  PROVE  LET T == Asked(window, timeframe)
             c == SourceClass(window, timeframe)
             bars == FetchSeries(timeframe, window)
         IN  /\ Classed(T, c) /\ IsSeriesOf(bars, T, c)
             /\ \A n \in DOMAIN bars : bars[n].sources = 1
<1> DEFINE T == Asked(window, timeframe)
           c == SourceClass(window, timeframe)
           bars == FetchSeries(timeframe, window)
           K == Classes(T, c)
           key(t) == BucketKey(t, timeframe)
           covers(k) == {t \in market : key(t) = k}
           keys == {k \in {key(t) : t \in market} : Within(Min(covers(k)), window)}
<1>1. Classed(T, c)
  <2>1. T \in SUBSET market
    BY DEF Asked
  <2>2. T \in SUBSET Nat /\ IsFiniteSet(T)
    BY <2>1, FS_Subset DEF MarketOK
  <2>3. \A t \in T : c[t] = BucketKey(t, timeframe)
    BY DEF SourceClass
  <2>4. \A t, u \in T : t <= u => c[t] \in Nat /\ c[t] <= c[u]
    BY <2>2, <2>3, BucketsOrder
  <2>5. \A t \in T : c[t] \in Nat
    BY <2>2, <2>4
  <2>6. c = [t \in T |-> c[t]]
    BY DEF SourceClass
  <2> QED BY <2>2, <2>4, <2>5, <2>6 DEF Classed
<1>2. \A t \in market : t \in T <=> Within(Min(covers(key(t))), window)
  BY DEF Asked
<1>3. keys = K
  <2>1. K = {key(t) : t \in T}
    BY DEF Classes, SourceClass
  <2>2. T \in SUBSET market
    BY DEF Asked
  <2> HIDE DEF T, K, covers, key
  <2> QED BY <1>2, <2>1, <2>2
<1>4. ASSUME NEW k \in K PROVE covers(k) = Fiber(T, c, k)
  <2>1. PICK t \in T : k = key(t)
    BY DEF Classes, SourceClass
  <2>2. Within(Min(covers(k)), window)
    BY <2>1, <1>2 DEF Asked
  <2>3. covers(k) \in SUBSET T
    BY <1>2, <2>2
  <2>4. Fiber(T, c, k) = {u \in T : key(u) = k}
    BY DEF Fiber, SourceClass
  <2>5. T \in SUBSET market
    BY DEF Asked
  <2> QED BY <2>3, <2>4, <2>5
<1> DEFINE at == Ascending(K)
<1>5. bars = [i \in DOMAIN at |-> [time |-> Min(covers(at[i])), covers |-> covers(at[i]), sources |-> 1]]
  BY <1>3 DEF FetchSeries
<1> HIDE DEF T, c, covers, bars, K, at, key, keys
<1>6. at \in [1..Cardinality(K) -> K] /\ Cardinality(K) \in Nat
  BY <1>1, ClassesAre DEF K, at
<1>7. DOMAIN bars = 1..Cardinality(K) /\ bars = [i \in 1..Cardinality(K) |-> bars[i]]
  BY <1>5, <1>6
<1>8. bars \in Seq({bars[n] : n \in DOMAIN bars}) /\ Len(bars) = Cardinality(K)
  BY <1>6, <1>7
<1>9. \A n \in DOMAIN bars : /\ bars[n].covers = Fiber(T, c, at[n]) /\ bars[n].time = Min(bars[n].covers)
                             /\ bars[n].sources = 1
  BY <1>4, <1>5, <1>6, <1>7
<1> QED BY <1>1, <1>8, <1>9 DEF IsSeriesOf, T, c, bars, K, at

\* What was made of single bars counts them.  A smallest set of which the sum
\* were another number would not be empty, and would give one with a bar less.
LEMMA SourcesAreCounted ==
  ASSUME NEW bars, NEW S, IsFiniteSet(S), \A i \in S : bars[i].sources = 1
  PROVE  SourceCount(bars, S) = Cardinality(S)
<1> DEFINE one(s) == CHOOSE i \in s : TRUE
           Sums(f) == f = [s \in SUBSET S |-> IF s = {} THEN 0
                                             ELSE f[s \ {one(s)}] + bars[one(s)].sources]
           sum == CHOOSE f : Sums(f)
           wrong == {s \in SUBSET S : sum[s] # Cardinality(s)}
<1>1. SourceCount(bars, S) = sum[S]
  BY DEF SourceCount, FoldSet, MapThenFoldSet
<1>2. \A s \in SUBSET S : IsFiniteSet(s) /\ (s # {} => one(s) \in s)
  BY FS_Subset
<1> HIDE DEF one
<1>3. \A s \in SUBSET S : s # {} =>
        /\ one(s) \in S /\ s \ {one(s)} \in SUBSET S
        /\ Cardinality(s) = Cardinality(s \ {one(s)}) + 1
  <2> SUFFICES ASSUME NEW s \in SUBSET S, s # {}
               PROVE  /\ one(s) \in S /\ s \ {one(s)} \in SUBSET S
                      /\ Cardinality(s) = Cardinality(s \ {one(s)}) + 1
    OBVIOUS
  <2>1. one(s) \in s /\ IsFiniteSet(s)
    BY <1>2
  <2>2. Cardinality(s \ {one(s)}) = Cardinality(s) - 1 /\ Cardinality(s) \in Nat
    BY <2>1, FS_RemoveElement, FS_CardinalityType
  <2> QED BY <2>1, <2>2
<1>4. Cardinality({}) = 0
  BY FS_EmptySet
<1>5. Sums([s \in SUBSET S |-> Cardinality(s)])
  <2> DEFINE g == [s \in SUBSET S |-> Cardinality(s)]
  <2>1. ASSUME NEW s \in SUBSET S
        PROVE  g[s] = IF s = {} THEN 0 ELSE g[s \ {one(s)}] + bars[one(s)].sources
    BY <1>3, <1>4
  <2> QED BY <2>1
<1>6. Sums(sum)
  BY <1>5
<1>7. \A s \in SUBSET S : sum[s] = IF s = {} THEN 0 ELSE sum[s \ {one(s)}] + bars[one(s)].sources
  <2> HIDE DEF sum
  <2> QED BY <1>6
<1> HIDE DEF sum, Sums
<1>8. ASSUME wrong # {} PROVE FALSE
  <2>1. wrong \subseteq FiniteSubsetsOf(S)
    BY <1>2 DEF FiniteSubsetsOf
  <2>2. IsWellFoundedOn(StrictSubsetOrdering(S), FiniteSubsetsOf(S))
    BY FS_StrictSubsetOrderingWellFounded
  <2> HIDE DEF wrong
  <2>3. PICK s \in wrong : \A r \in wrong : <<r, s>> \notin StrictSubsetOrdering(S)
    BY <1>8, <2>1, <2>2, WFMin
  <2>4. s \in SUBSET S /\ sum[s] # Cardinality(s)
    BY DEF wrong
  <2>5. s # {}
    BY <2>4, <1>4, <1>7
  <2> DEFINE r == s \ {one(s)}
  <2>6. r \in SUBSET S /\ one(s) \in s /\ r \subseteq s /\ r # s
    BY <2>4, <2>5, <1>2
  <2>7. <<r, s>> \in StrictSubsetOrdering(S)
    BY <2>4, <2>6 DEF StrictSubsetOrdering
  <2>8. sum[r] = Cardinality(r)
    BY <2>3, <2>6, <2>7 DEF wrong
  <2>9. sum[s] = sum[r] + 1 /\ Cardinality(s) = Cardinality(r) + 1
    BY <2>4, <2>5, <1>3, <1>7
  <2> QED BY <2>4, <2>8, <2>9
<1> QED BY <1>1, <1>8

-----------------------------------------------------------------------------
RolledClass(T, c, timeframe) == [t \in T |-> BucketKey(Min(Fiber(T, c, c[t])), timeframe)]

LEMMA RollIs ==
  ASSUME NEW T, NEW c, Classed(T, c), NEW bars, IsSeriesOf(bars, T, c),
         \A n \in DOMAIN bars : bars[n].sources = 1, NEW timeframe \in Timeframes
  PROVE  LET d == RolledClass(T, c, timeframe)
             out == RollUp(bars, timeframe)
         IN  /\ Classed(T, d) /\ IsSeriesOf(out, T, d)
             /\ \A n \in DOMAIN out : out[n].sources = Cardinality({c[t] : t \in out[n].covers})
<1> DEFINE K == Classes(T, c)
           at == Ascending(K)
           L == Cardinality(K)
           key(i) == BucketKey(bars[i].time, timeframe)
           bar(t) == BarOf(T, c, t)
           d == RolledClass(T, c, timeframe)
           D == Classes(T, d)
           O == {i \in DOMAIN bars : i = 1 \/ key(i - 1) # key(i)}
           op == Ascending(O)
           P == Cardinality(O)
<1>1. /\ K \in SUBSET Nat /\ IsFiniteSet(K) /\ L \in Nat /\ at \in [1..L -> K]
      /\ \A m, n \in 1..L : m < n => at[m] < at[n]
      /\ \A n \in 1..L : Fiber(T, c, at[n]) # {} /\ Fiber(T, c, at[n]) \in SUBSET T
      /\ \A t \in T : bar(t) \in 1..L /\ at[bar(t)] = c[t]
      /\ \A t \in T, n \in 1..L : bar(t) = n <=> t \in Fiber(T, c, at[n])
      /\ \A t, u \in T : t <= u => bar(t) <= bar(u)
  BY ClassesAre
<1>2. DOMAIN bars = 1..L /\ Len(bars) = L
  BY DEF IsSeriesOf
<1>3. ASSUME NEW i \in 1..L
      PROVE  /\ bars[i].covers = Fiber(T, c, at[i]) /\ bars[i].time = Min(bars[i].covers)
             /\ bars[i].time \in Fiber(T, c, at[i]) /\ bars[i].time \in T /\ bars[i].time \in Nat
             /\ bar(bars[i].time) = i
             /\ \A t \in Fiber(T, c, at[i]) : bars[i].time <= t
  <2>1. bars[i].covers = Fiber(T, c, at[i]) /\ bars[i].time = Min(bars[i].covers)
    BY <1>2 DEF IsSeriesOf
  <2>2. Fiber(T, c, at[i]) # {} /\ Fiber(T, c, at[i]) \in SUBSET T
    BY <1>1
  <2>3. /\ Min(Fiber(T, c, at[i])) \in Fiber(T, c, at[i]) /\ Min(Fiber(T, c, at[i])) \in Nat
        /\ \A t \in Fiber(T, c, at[i]) : Min(Fiber(T, c, at[i])) <= t
    BY <2>2, FibersAre
  <2> HIDE DEF at, bar
  <2>4. bar(bars[i].time) = i
    BY <2>1, <2>2, <2>3, <1>1
  <2> QED BY <2>1, <2>2, <2>3, <2>4
<1>4. ASSUME NEW i \in 1..L, NEW j \in 1..L, i <= j PROVE bars[i].time <= bars[j].time
  <2>1. CASE i = j
    BY <2>1, <1>3
  <2>2. CASE i < j
    <3>1. bars[j].time <= bars[i].time => j <= i
      BY <1>1, <1>3
    <3> HIDE DEF L
    <3>2. bars[j].time \in Nat /\ bars[i].time \in Nat
      BY <1>3
    <3> QED BY <2>2, <3>1, <3>2, <1>1
  <2> HIDE DEF L
  <2> QED BY <2>1, <2>2, <1>1, <1>4
<1>5. /\ \A i \in 1..L : key(i) \in Nat
      /\ \A i, j \in 1..L : i <= j => key(i) <= key(j)
  <2>1. ASSUME NEW i \in 1..L, NEW j \in 1..L, i <= j PROVE key(i) \in Nat /\ key(i) <= key(j)
    BY <2>1, <1>3, <1>4, BucketsOrder
  <2>2. \A i \in 1..L : i <= i
    BY <1>1
  <2> QED BY <2>1, <2>2
<1>6. \A t \in T : d[t] = key(bar(t))
  <2> SUFFICES ASSUME NEW t \in T PROVE d[t] = key(bar(t))
    OBVIOUS
  <2>1. d[t] = BucketKey(Min(Fiber(T, c, c[t])), timeframe)
    BY DEF RolledClass
  <2>2. bar(t) \in 1..L /\ at[bar(t)] = c[t]
    BY <1>1
  <2>3. bars[bar(t)].time = Min(Fiber(T, c, c[t]))
    BY <2>2, <1>3
  <2> QED BY <2>1, <2>3
<1>7. Classed(T, d)
  <2>1. \A t \in T : d[t] \in Nat
    BY <1>1, <1>5, <1>6
  <2>2. \A t, u \in T : t <= u => d[t] <= d[u]
    BY <1>1, <1>5, <1>6
  <2>3. d = [t \in T |-> d[t]]
    BY DEF RolledClass
  <2>4. d \in [T -> Nat]
    BY <2>1, <2>3
  <2> QED BY <2>2, <2>4 DEF Classed
<1>8. D = {key(i) : i \in 1..L}
  <2>1. D = {d[t] : t \in T}
    BY DEF Classes
  <2>2. \A t \in T : d[t] = key(bar(t)) /\ bar(t) \in 1..L
    BY <1>1, <1>6
  <2>3. \A i \in 1..L : bars[i].time \in T /\ key(bar(bars[i].time)) = key(i)
    BY <1>3
  <2>4. \A i \in 1..L : bars[i].time \in T /\ d[bars[i].time] = key(i)
    BY <2>2, <2>3
  <2> HIDE DEF D, d, key, bar, L
  <2> QED BY <2>1, <2>2, <2>4
<1>9. /\ D \in SUBSET Int /\ IsFiniteSet(D) /\ Cardinality(D) \in Nat
      /\ Ascending(D) \in [1..Cardinality(D) -> D]
      /\ \A k \in D : Rank(D, k) + 1 \in 1..Cardinality(D) /\ Ascending(D)[Rank(D, k) + 1] = k
  <2>1. D \in SUBSET Int /\ IsFiniteSet(D)
    BY <1>7, ClassesAre
  <2> HIDE DEF D
  <2> QED BY <2>1, AscendingEnumerates
<1> HIDE DEF K, at, L, key, bar, d, D
<1>10. O = {i \in 1..L : i = 1 \/ key(i - 1) # key(i)}
  BY <1>2 DEF key
<1>11. /\ O \in SUBSET (1..L) /\ O \in SUBSET Int /\ IsFiniteSet(O) /\ P \in Nat /\ op \in [1..P -> O]
       /\ \A m, n \in 1..P : m < n => op[m] < op[n]
       /\ \A i \in O : Rank(O, i) + 1 \in 1..P /\ op[Rank(O, i) + 1] = i
       /\ \A n \in 1..P : Rank(O, op[n]) = n - 1
  <2>1. O \in SUBSET (1..L) /\ O \in SUBSET Int
    BY <1>1, <1>2
  <2>2. IsFiniteSet(1..L)
    BY <1>1, FS_Interval
  <2> HIDE DEF O
  <2>3. IsFiniteSet(O)
    BY <2>1, <2>2, FS_Subset
  <2> QED BY <2>1, <2>3, AscendingEnumerates
<1>12. ASSUME NEW i \in 1..L
       PROVE  \E o \in O : o <= i /\ key(o) = key(i)
  <2> DEFINE same == {j \in 1..L : key(j) = key(i)}
             o == Min(same)
  <2>1. same \in SUBSET (1..L) /\ i \in same
    OBVIOUS
  <2>2. same \in SUBSET Int /\ IsFiniteSet(same) /\ same # {}
    <3>1. IsFiniteSet(1..L)
      BY <1>1, FS_Interval
    <3>2. 1..L \in SUBSET Int
      BY <1>1
    <3> QED BY <2>1, <3>1, <3>2, FS_Subset
  <2> HIDE DEF same
  <2>3. o \in same /\ \A j \in same : o <= j
    BY <2>2, EndsAre
  <2> HIDE DEF o
  <2>4. o \in 1..L /\ key(o) = key(i) /\ o <= i
    BY <2>1, <2>3 DEF same
  <2>5. ASSUME o # 1 PROVE key(o - 1) # key(o)
    <3>1. o - 1 \in 1..L /\ ~(o <= o - 1)
      BY <1>1, <2>4, <2>5
    <3>2. o - 1 \notin same
      BY <3>1, <2>3
    <3> QED BY <3>1, <3>2, <2>4 DEF same
  <2>6. o \in O
    BY <2>4, <2>5, <1>10
  <2> QED BY <2>4, <2>6
<1>13. \A i, j \in O : i < j => key(i) < key(j)
  <2> SUFFICES ASSUME NEW i \in O, NEW j \in O, i < j PROVE key(i) < key(j)
    OBVIOUS
  <2>1. i \in 1..L /\ j \in 1..L /\ j - 1 \in 1..L /\ i <= j - 1 /\ j - 1 <= j
    BY <1>1, <1>11
  <2>2. key(j - 1) # key(j)
    BY <2>1, <1>10
  <2>3. key(i) <= key(j - 1) /\ key(j - 1) <= key(j) /\ key(i) \in Nat /\ key(j) \in Nat /\ key(j - 1) \in Nat
    BY <2>1, <1>5
  <2> QED BY <2>2, <2>3
<1> HIDE DEF O, op, P
<1>14. \A i \in O : i \in 1..L /\ i \in Int /\ key(i) \in Nat
  BY <1>1, <1>5, <1>11
<1>15. \A i, j \in O : /\ key(i) < key(j) <=> i < j
                       /\ key(i) = key(j) => i = j
  <2> SUFFICES ASSUME NEW i \in O, NEW j \in O
               PROVE (key(i) < key(j) <=> i < j) /\ (key(i) = key(j) => i = j)
    OBVIOUS
  <2>1. i \in Int /\ j \in Int /\ key(i) \in Nat /\ key(j) \in Nat
    BY <1>14
  <2>2. (i < j => key(i) < key(j)) /\ (j < i => key(j) < key(i))
    BY <1>13
  <2> QED BY <2>1, <2>2
<1> DEFINE f == [i \in 1..L |-> key(i)]
<1>16. D = {f[i] : i \in O}
  <2>1. \A i \in O : f[i] = key(i) /\ i \in 1..L
    BY <1>14
  <2>2. \A i \in 1..L : \E o \in O : f[o] = key(i)
    BY <1>12, <2>1
  <2> HIDE DEF f
  <2> QED BY <1>8, <2>1, <2>2
<1>17. Cardinality(D) = P /\ \A o \in O : Rank(D, key(o)) = Rank(O, o)
  <2>1. \A i, j \in O : f[i] = f[j] => i = j
    BY <1>14, <1>15
  <2>2. ASSUME NEW o \in O PROVE Rank(D, key(o)) = Rank(O, o)
    <3>1. \A j \in O : f[j] < key(o) <=> j < o
      BY <1>14, <1>15
    <3> HIDE DEF f
    <3>2. O \in SUBSET Int /\ IsFiniteSet(O)
      BY <1>11
    <3>3. Rank({f[j] : j \in O}, key(o)) = Rank(O, o)
      BY <2>1, <3>1, <3>2, RanksCarry
    <3> QED BY <3>3, <1>16
  <2> HIDE DEF f
  <2>3. IsFiniteSet(O)
    BY <1>11
  <2>4. Cardinality({f[j] : j \in O}) = Cardinality(O)
    BY <2>1, <2>3, ImagesAreAsMany
  <2> QED BY <2>2, <2>4, <1>16 DEF P
<1> HIDE DEF f
<1>18. ASSUME NEW n \in 1..P
       PROVE  op[n] \in O /\ op[n] \in 1..L /\ Ascending(D)[n] = key(op[n])
  <2>1. op[n] \in O /\ op[n] \in 1..L /\ Rank(O, op[n]) = n - 1
    BY <1>11
  <2>2. Rank(D, key(op[n])) = n - 1
    BY <2>1, <1>17
  <2>3. key(op[n]) \in D
    BY <2>1, <1>8
  <2>4. Rank(D, key(op[n])) + 1 = n
    BY <2>2, <1>11
  <2> QED BY <2>1, <2>3, <2>4, <1>9
<1> DEFINE members(n) == {i \in DOMAIN bars : op[n] <= i /\ (n < Len(op) => i < op[n + 1])}
<1>19. DOMAIN op = 1..P /\ Len(op) = P
  <2>1. DOMAIN op = 1..P /\ op \in Seq(O)
    BY <1>11
  <2> QED BY <2>1, <1>11
<1>20. ASSUME NEW n \in 1..P PROVE members(n) = {i \in 1..L : key(i) = key(op[n])}
  <2>0. op[n] \in O /\ op[n] \in 1..L /\ op[n] \in Int
    BY <1>18, <1>14
  <2>1. ASSUME NEW i \in 1..L, op[n] <= i, n < P => i < op[n + 1] PROVE key(i) = key(op[n])
    <3>1. PICK o \in O : o <= i /\ key(o) = key(i)
      BY <1>12
    <3>2. PICK m \in 1..P : op[m] = o
      BY <1>11
    <3>3. ASSUME n < m PROVE FALSE
      <4>1. n + 1 \in 1..P /\ n < P /\ (n + 1 = m \/ n + 1 < m)
        BY <3>3, <1>11
      <4>2. op[n + 1] \in Int /\ op[m] \in Int
        BY <4>1, <1>11, <1>14
      <4>3. n + 1 = m => op[n + 1] = op[m]
        OBVIOUS
      <4>4. n + 1 < m => op[n + 1] < op[m]
        BY <4>1, <1>11
      <4>5. op[n + 1] <= op[m]
        BY <4>1, <4>2, <4>3, <4>4
      <4> QED BY <4>1, <4>2, <4>5, <2>1, <3>1, <3>2
    <3>4. m = n \/ m < n
      BY <3>3, <1>11
    <3>5. o <= op[n]
      BY <3>2, <3>4, <2>0, <1>11
    <3>6. o \in 1..L /\ key(o) <= key(op[n]) /\ key(op[n]) <= key(i)
      BY <3>5, <2>0, <2>1, <1>5, <1>14
    <3>7. key(op[n]) \in Nat /\ key(i) \in Nat
      BY <2>0, <1>5
    <3> QED BY <3>1, <3>6, <3>7
  <2>2. ASSUME NEW i \in 1..L, key(i) = key(op[n]) PROVE op[n] <= i /\ (n < P => i < op[n + 1])
    <3>1. PICK o \in O : o <= i /\ key(o) = key(i)
      BY <1>12
    <3>2. o = op[n]
      BY <3>1, <2>0, <2>2, <1>15
    <3>3. ASSUME n < P PROVE i < op[n + 1]
      <4>1. n + 1 \in 1..P /\ n < n + 1
        BY <3>3, <1>11
      <4>2. op[n + 1] \in O /\ op[n + 1] \in 1..L /\ op[n] < op[n + 1]
        BY <4>1, <1>11, <1>14
      <4>3. key(op[n]) < key(op[n + 1])
        BY <4>2, <2>0, <1>13
      <4>4. op[n + 1] <= i => key(op[n + 1]) <= key(i)
        BY <4>2, <1>5
      <4>5. key(op[n + 1]) \in Nat /\ key(op[n]) \in Nat
        BY <4>2, <2>0, <1>5
      <4>6. ~(op[n + 1] <= i)
        BY <4>3, <4>4, <4>5, <2>2
      <4>7. i \in Int /\ op[n + 1] \in Int
        BY <1>1, <4>2
      <4> QED BY <4>6, <4>7
    <3> QED BY <3>1, <3>2, <3>3
  <2> QED BY <2>1, <2>2, <1>2, <1>19
<1> DEFINE out == RollUp(bars, timeframe)
<1>21. out = [n \in 1..P |->
               [time |-> bars[op[n]].time,
                covers |-> UNION {bars[i].covers : i \in members(n)},
                sources |-> SourceCount(bars, members(n))]]
  BY <1>19 DEF RollUp, O, op, key
<1> HIDE DEF members, out
<1>22. ASSUME NEW n \in 1..P
       PROVE  /\ out[n].covers = Fiber(T, d, Ascending(D)[n])
              /\ out[n].time = Min(out[n].covers)
              /\ out[n].sources = Cardinality({c[t] : t \in out[n].covers})
  <2>1. op[n] \in O /\ op[n] \in 1..L /\ Ascending(D)[n] = key(op[n])
    BY <1>18
  <2>2. members(n) = {i \in 1..L : key(i) = key(op[n])}
    BY <1>20
  <2>3. out[n].covers = UNION {bars[i].covers : i \in members(n)} /\ out[n].time = bars[op[n]].time
    BY <1>21
  <2>4. out[n].covers = Fiber(T, d, key(op[n]))
    <3>1. ASSUME NEW t \in out[n].covers PROVE t \in Fiber(T, d, key(op[n]))
      <4>1. PICK i \in 1..L : key(i) = key(op[n]) /\ t \in bars[i].covers
        BY <2>2, <2>3
      <4>2. t \in T /\ bar(t) = i
        BY <4>1, <1>1, <1>3
      <4> QED BY <4>1, <4>2, <1>6 DEF Fiber
    <3>2. ASSUME NEW t \in Fiber(T, d, key(op[n])) PROVE t \in out[n].covers
      <4>1. t \in T /\ d[t] = key(op[n]) /\ bar(t) \in 1..L
        BY <1>1 DEF Fiber
      <4>2. key(bar(t)) = key(op[n])
        BY <4>1, <1>6
      <4>3. t \in bars[bar(t)].covers
        BY <4>1, <1>1, <1>3
      <4>4. bar(t) \in members(n)
        BY <4>1, <4>2, <2>2
      <4> QED BY <4>3, <4>4, <2>3
    <3> QED BY <3>1, <3>2
  <2>5. out[n].time = Min(out[n].covers)
    <3> DEFINE F == Fiber(T, d, key(op[n]))
               m == bars[op[n]].time
    <3>1. m \in F /\ m \in Nat
      <4>1. m \in T /\ bar(m) = op[n] /\ m \in Nat
        BY <2>1, <1>3
      <4> QED BY <4>1, <1>6 DEF Fiber
    <3>2. ASSUME NEW t \in F PROVE m <= t
      <4>1. t \in T /\ bar(t) \in 1..L /\ key(bar(t)) = key(op[n])
        BY <1>1, <1>6 DEF Fiber
      <4>2. bar(t) \in members(n)
        BY <4>1, <2>2
      <4>3. op[n] <= bar(t)
        BY <4>2 DEF members
      <4>4. bars[op[n]].time <= bars[bar(t)].time
        BY <4>1, <4>3, <2>1, <1>4
      <4>5. bars[bar(t)].time <= t /\ bars[bar(t)].time \in Nat
        BY <4>1, <1>1, <1>3
      <4>6. t \in Nat
        BY <4>1 DEF Classed
      <4> QED BY <4>4, <4>5, <4>6, <3>1
    <3>3. Min(F) \in F /\ Min(F) \in Nat /\ \A t \in F : Min(F) <= t
      BY <3>1, <1>7, FibersAre
    <3> HIDE DEF F
    <3>4. m <= Min(F) /\ Min(F) <= m
      BY <3>1, <3>2, <3>3
    <3> HIDE DEF m
    <3>5. m = Min(F)
      BY <3>1, <3>3, <3>4
    <3> QED BY <3>5, <2>3, <2>4 DEF F, m
  <2>6. out[n].sources = Cardinality(members(n))
    <3>1. IsFiniteSet(members(n)) /\ members(n) \in SUBSET (1..L)
      <4>1. IsFiniteSet(1..L)
        BY <1>1, FS_Interval
      <4>2. members(n) \in SUBSET (1..L)
        BY <2>2
      <4> QED BY <4>1, <4>2, FS_Subset
    <3>2. \A i \in members(n) : bars[i].sources = 1
      BY <3>1, <1>2
    <3>3. SourceCount(bars, members(n)) = Cardinality(members(n))
      BY <3>1, <3>2, SourcesAreCounted
    <3> QED BY <3>3, <1>21
  <2>7. {c[t] : t \in out[n].covers} = {at[i] : i \in members(n)}
    <3>1. ASSUME NEW t \in out[n].covers PROVE \E i \in members(n) : c[t] = at[i]
      <4>1. t \in T /\ d[t] = key(op[n]) /\ bar(t) \in 1..L /\ at[bar(t)] = c[t]
        BY <2>4, <1>1 DEF Fiber
      <4>2. bar(t) \in members(n)
        BY <4>1, <1>6, <2>2
      <4> QED BY <4>1, <4>2
    <3>2. ASSUME NEW i \in members(n) PROVE \E t \in out[n].covers : c[t] = at[i]
      <4>1. i \in 1..L /\ bars[i].time \in T /\ bar(bars[i].time) = i
        BY <2>2, <1>3
      <4>2. bars[i].time \in bars[i].covers
        BY <4>1, <1>3
      <4>3. bars[i].time \in out[n].covers
        BY <4>2, <2>3
      <4> QED BY <4>1, <4>3, <1>1
    <3> QED BY <3>1, <3>2
  <2>8. Cardinality({at[i] : i \in members(n)}) = Cardinality(members(n))
    <3>1. members(n) \in SUBSET (1..L)
      BY <2>2
    <3>2. IsFiniteSet(members(n))
      BY <3>1, <1>1, FS_Interval, FS_Subset
    <3>3. \A i, j \in members(n) : at[i] = at[j] => i = j
      <4>1. \A i, j \in 1..L : (i < j => at[i] < at[j]) /\ at[i] \in Nat
        BY <1>1
      <4>2. \A i, j \in 1..L : at[i] = at[j] => ~(i < j) /\ ~(j < i)
        BY <4>1
      <4>3. \A i, j \in 1..L : i < j \/ j < i \/ i = j
        BY <1>1
      <4> QED BY <3>1, <4>2, <4>3
    <3> QED BY <3>2, <3>3, ImagesAreAsMany
  <2> QED BY <2>1, <2>4, <2>5, <2>6, <2>7, <2>8
<1>23. DOMAIN out = 1..P /\ out = [n \in 1..P |-> out[n]]
  BY <1>21
<1>24. out \in Seq({out[n] : n \in DOMAIN out}) /\ Len(out) = Cardinality(D)
  BY <1>11, <1>17, <1>23
<1>25. IsSeriesOf(out, T, d)
  BY <1>22, <1>23, <1>24 DEF IsSeriesOf, D
<1> QED BY <1>7, <1>22, <1>23, <1>25 DEF d, out

LEMMA EndsOfPairs ==
  ASSUME NEW x \in Int, NEW y \in Int
  PROVE  /\ Max({x, y}) = IF x >= y THEN x ELSE y
         /\ Min({x, y}) = IF x <= y THEN x ELSE y
<1>1. Max({x, y}) \in {x, y} /\ Max({x, y}) >= x /\ Max({x, y}) >= y
  <2>1. \E k \in {x, y} : \A j \in {x, y} : k >= j
    OBVIOUS
  <2> QED BY <2>1 DEF Max
<1>2. Min({x, y}) \in {x, y} /\ Min({x, y}) <= x /\ Min({x, y}) <= y
  <2>1. \E k \in {x, y} : \A j \in {x, y} : k <= j
    OBVIOUS
  <2> QED BY <2>1 DEF Min
<1> QED BY <1>1, <1>2

\* The bars from one place to another.
IsSliceOf(kept, bars, a, b) ==
  /\ a \in Nat \ {0} /\ b \in 0..Len(bars)
  /\ Len(kept) = IF a <= b THEN b - a + 1 ELSE 0
  /\ DOMAIN kept = 1..Len(kept)
  /\ \A i \in DOMAIN kept : kept[i] = bars[a - 1 + i]

LEMMA SubSeqIs ==
  ASSUME NEW V, NEW bars \in Seq(V), NEW a \in Nat \ {0}, NEW b \in 0..Len(bars)
  PROVE  IsSliceOf(SubSeq(bars, a, b), bars, a, b)
BY DEF IsSliceOf

LEMMA AnchorsAre ==
  ASSUME NEW V, NEW bars \in Seq(V), \A i \in DOMAIN bars : bars[i].time \in Nat, NEW anchor \in Nat
  PROVE  /\ AnchorIndex(bars, anchor) \in Nat \ {0}
         /\ \A i \in DOMAIN bars : bars[i].time <= anchor => i <= AnchorIndex(bars, anchor)
         /\ \/ AnchorIndex(bars, anchor) = 1
            \/ /\ AnchorIndex(bars, anchor) \in DOMAIN bars
               /\ bars[AnchorIndex(bars, anchor)].time <= anchor
<1> DEFINE S == {1} \union {i \in DOMAIN bars : bars[i].time <= anchor}
<1>1. S \in SUBSET (1..(Len(bars) + 1)) /\ Len(bars) \in Nat /\ S # {}
  OBVIOUS
<1>2. IsFiniteSet(1..(Len(bars) + 1))
  BY <1>1, FS_Interval
<1>3. \A i \in S : i \in Nat \ {0} /\ i \in Int
  OBVIOUS
<1>4. \A i \in S : i = 1 \/ (i \in DOMAIN bars /\ bars[i].time <= anchor)
  OBVIOUS
<1>5. \A i \in DOMAIN bars : bars[i].time <= anchor => i \in S
  OBVIOUS
<1>6. AnchorIndex(bars, anchor) = Max(S)
  BY DEF AnchorIndex
<1> HIDE DEF S
<1>7. IsFiniteSet(S) /\ S \in SUBSET Int
  BY <1>1, <1>2, <1>3, FS_Subset
<1>8. Max(S) \in S /\ \A i \in S : i <= Max(S)
  BY <1>1, <1>7, EndsAre
<1> QED BY <1>3, <1>4, <1>5, <1>6, <1>8

\* What a request keeps of the bars.
SlicedFor(request, bars, a, b) ==
  /\ request.form \in {"explicit", "visible_range"} => a = 1 /\ b = Len(bars)
  /\ request.form = "last_n_bars" =>
       b = Len(bars) /\ a = IF Len(bars) - request.lastNBars >= 1 THEN Len(bars) - request.lastNBars + 1 ELSE 1
  /\ request.form = "anchored" =>
       /\ a <= AnchorIndex(bars, request.anchorTime)
       /\ Len(bars) # 0 => AnchorIndex(bars, request.anchorTime) <= b

LEMMA RequestsAre ==
  ASSUME NEW request \in Requests
  PROVE  /\ request.form \in {"visible_range", "explicit", "last_n_bars", "anchored"}
         /\ request.aggregateTo \in Timeframes \union {0}
         /\ request.form = "last_n_bars" => request.lastNBars \in Nat
         /\ request.form = "anchored" =>
              request.anchorTime \in Nat /\ request.barsBefore \in Nat /\ request.barsAfter \in Nat
<1>1. Counts \subseteq Nat /\ Times \subseteq Nat
  BY ChartReadAssumption DEF ChartReadAssumption, Times
<1>2. \/ request \in [form: {"visible_range"}, aggregateTo: Timeframes \union {0}]
      \/ request \in [form: {"explicit"}, start: Times, end: Times, aggregateTo: Timeframes \union {0}]
      \/ request \in [form: {"last_n_bars"}, lastNBars: Counts, aggregateTo: Timeframes \union {0}]
      \/ request \in [form: {"anchored"}, anchorTime: Times, barsBefore: Counts, barsAfter: Counts,
                      aggregateTo: Timeframes \union {0}]
  BY DEF Requests
<1> QED BY <1>1, <1>2

LEMMA SlicesAre ==
  ASSUME NEW V, NEW bars \in Seq(V), \A i \in DOMAIN bars : bars[i].time \in Nat, NEW request \in Requests
  PROVE  \E a \in Nat \ {0}, b \in 0..Len(bars) :
           IsSliceOf(SliceForWindow(bars, request), bars, a, b) /\ SlicedFor(request, bars, a, b)
<1>0. /\ request.form \in {"visible_range", "explicit", "last_n_bars", "anchored"}
      /\ request.form = "last_n_bars" => request.lastNBars \in Nat
      /\ request.form = "anchored" =>
           request.anchorTime \in Nat /\ request.barsBefore \in Nat /\ request.barsAfter \in Nat
  BY RequestsAre
<1>1. Len(bars) \in Nat
  OBVIOUS
<1>2. CASE request.form \in {"visible_range", "explicit"}
  <2>1. SliceForWindow(bars, request) = bars
    BY <1>2 DEF SliceForWindow
  <2>2. IsSliceOf(bars, bars, 1, Len(bars))
    BY <1>1 DEF IsSliceOf
  <2>3. SlicedFor(request, bars, 1, Len(bars))
    BY <1>2 DEF SlicedFor
  <2>4. 1 \in Nat \ {0} /\ Len(bars) \in 0..Len(bars)
    BY <1>1
  <2> QED BY <2>1, <2>2, <2>3, <2>4
<1>3. CASE request.form = "last_n_bars"
  <2> DEFINE n == request.lastNBars
             a == IF Len(bars) - n >= 1 THEN Len(bars) - n + 1 ELSE 1
  <2>1. Max({1, Len(bars) - n + 1}) = a
    <3>1. Len(bars) - n + 1 \in Int /\ 1 \in Int /\ n \in Nat
      BY <1>0, <1>1, <1>3
    <3>2. Max({1, Len(bars) - n + 1}) = IF 1 >= Len(bars) - n + 1 THEN 1 ELSE Len(bars) - n + 1
      BY <3>1, EndsOfPairs
    <3> HIDE DEF n
    <3> QED BY <3>1, <3>2, <1>1
  <2>2. SliceForWindow(bars, request) = SubSeq(bars, a, Len(bars))
    BY <2>1, <1>3 DEF SliceForWindow
  <2>3. a \in Nat \ {0} /\ Len(bars) \in 0..Len(bars)
    BY <1>0, <1>1, <1>3
  <2>4. SlicedFor(request, bars, a, Len(bars))
    BY <1>3 DEF SlicedFor
  <2>5. IsSliceOf(SubSeq(bars, a, Len(bars)), bars, a, Len(bars))
    BY <2>3, SubSeqIs
  <2> QED BY <2>2, <2>3, <2>4, <2>5
<1>4. CASE request.form = "anchored"
  <2> DEFINE at == AnchorIndex(bars, request.anchorTime)
             x == at - request.barsBefore
             y == at + request.barsAfter
             a == Max({1, x})
             b == Min({Len(bars), y})
  <2>1. /\ at \in Nat \ {0}
        /\ at = 1 \/ at \in DOMAIN bars
    BY <1>0, <1>4, AnchorsAre
  <2>2. x \in Int /\ y \in Int /\ x <= at /\ at <= y
    BY <1>0, <1>4, <2>1
  <2>3. SliceForWindow(bars, request) = SubSeq(bars, a, b)
    BY <1>4 DEF SliceForWindow
  <2> HIDE DEF at, x, y
  <2>4. a = IF 1 >= x THEN 1 ELSE x
    BY <2>2, EndsOfPairs
  <2>5. b = IF Len(bars) <= y THEN Len(bars) ELSE y
    <3> DEFINE c == Len(bars)
    <3>1. c \in Int /\ y \in Int
      BY <2>2, <1>1
    <3> HIDE DEF c
    <3>2. Min({c, y}) = IF c <= y THEN c ELSE y
      BY <3>1, EndsOfPairs
    <3> QED BY <3>2 DEF c
  <2> HIDE DEF a, b
  <2>6. a \in Nat \ {0} /\ b \in 0..Len(bars) /\ a <= at
    BY <1>1, <2>1, <2>2, <2>4, <2>5
  <2>7. Len(bars) # 0 => at <= b
    BY <1>1, <2>1, <2>2, <2>5
  <2>8. SlicedFor(request, bars, a, b)
    BY <1>4, <2>6, <2>7 DEF SlicedFor, at
  <2>9. IsSliceOf(SubSeq(bars, a, b), bars, a, b)
    BY <2>6, SubSeqIs
  <2> QED BY <2>3, <2>6, <2>8, <2>9
<1> QED BY <1>0, <1>2, <1>3, <1>4

-----------------------------------------------------------------------------
Coverage(kept) == UNION {bar.covers : bar \in ToSet(kept)}

TimesOfBars(T, d, a, b) == {t \in T : a <= BarOf(T, d, t) /\ BarOf(T, d, t) <= b}
IsWholeRun(kept, T, d) ==
  /\ \A i \in DOMAIN kept :
       /\ Cardinality(kept[i].covers) > 0
       /\ i > 1 => Max(kept[i - 1].covers) < Min(kept[i].covers)
  /\ kept # <<>> => Coverage(kept) = {t \in T : Min(Coverage(kept)) <= t /\ t <= Max(Coverage(kept))}
  /\ Len(kept) = Cardinality({d[t] : t \in Coverage(kept)})
IsSliceOfSeries(kept, bars, T, d, a, b) ==
  Classed(T, d) /\ IsSeriesOf(bars, T, d) /\ IsSliceOf(kept, bars, a, b)

LEMMA SlicesAreWhole ==
  ASSUME NEW T, NEW d, NEW bars, NEW kept, NEW a, NEW b, IsSliceOfSeries(kept, bars, T, d, a, b)
  PROVE  /\ Coverage(kept) = TimesOfBars(T, d, a, b)
         /\ IsWholeRun(kept, T, d)
         /\ Len(bars) = Cardinality(Classes(T, d))
<1> DEFINE K == Classes(T, d)
           at == Ascending(K)
           L == Cardinality(K)
           bar(t) == BarOf(T, d, t)
           cov == Coverage(kept)
<1>0. Classed(T, d) /\ IsSeriesOf(bars, T, d) /\ IsSliceOf(kept, bars, a, b)
  BY DEF IsSliceOfSeries
<1>1. /\ K \in SUBSET Nat /\ IsFiniteSet(K) /\ L \in Nat /\ at \in [1..L -> K]
      /\ \A m, n \in 1..L : m < n => at[m] < at[n]
      /\ \A n \in 1..L : Fiber(T, d, at[n]) # {} /\ Fiber(T, d, at[n]) \in SUBSET T
      /\ \A t \in T : bar(t) \in 1..L /\ at[bar(t)] = d[t]
      /\ \A t \in T, n \in 1..L : bar(t) = n <=> t \in Fiber(T, d, at[n])
      /\ \A t, u \in T : t <= u => bar(t) <= bar(u)
  BY <1>0, ClassesAre
<1>2. DOMAIN bars = 1..L /\ Len(bars) = L /\ \A n \in 1..L : bars[n].covers = Fiber(T, d, at[n])
  BY <1>0 DEF IsSeriesOf
<1>3. /\ a \in Nat \ {0} /\ b \in 0..L /\ Len(kept) = (IF a <= b THEN b - a + 1 ELSE 0)
      /\ DOMAIN kept = 1..Len(kept) /\ \A i \in DOMAIN kept : kept[i] = bars[a - 1 + i]
  BY <1>0, <1>2 DEF IsSliceOf
<1> HIDE DEF K, at, L, bar
<1>4. \A i \in DOMAIN kept : a - 1 + i \in 1..L /\ a <= a - 1 + i /\ a - 1 + i <= b
  BY <1>1, <1>3
<1>5. \A n \in 1..L : a <= n /\ n <= b => n - a + 1 \in DOMAIN kept /\ a - 1 + (n - a + 1) = n
  BY <1>1, <1>3
<1>6. \A i \in DOMAIN kept : kept[i].covers = Fiber(T, d, at[a - 1 + i])
  BY <1>2, <1>3, <1>4
<1>7. cov = {t \in T : a <= bar(t) /\ bar(t) <= b}
  <2>1. \A t : t \in cov <=> \E i \in DOMAIN kept : t \in kept[i].covers
    BY DEF Coverage, ToSet
  <2>2. ASSUME NEW i \in DOMAIN kept, NEW t \in kept[i].covers
        PROVE  t \in T /\ a <= bar(t) /\ bar(t) <= b
    <3>1. a - 1 + i \in 1..L /\ t \in Fiber(T, d, at[a - 1 + i])
      BY <1>4, <1>6
    <3>2. t \in T /\ bar(t) = a - 1 + i
      BY <3>1, <1>1
    <3> QED BY <3>2, <1>4
  <2>3. ASSUME NEW t \in T, a <= bar(t), bar(t) <= b
        PROVE  \E i \in DOMAIN kept : t \in kept[i].covers
    <3> DEFINE i == bar(t) - a + 1
    <3>1. bar(t) \in 1..L /\ i \in DOMAIN kept /\ a - 1 + i = bar(t)
      BY <2>3, <1>1, <1>5
    <3>2. t \in Fiber(T, d, at[bar(t)])
      BY <3>1, <1>1
    <3> QED BY <3>1, <3>2, <1>6
  <2> QED BY <2>1, <2>2, <2>3
<1>8. \A i \in DOMAIN kept : /\ kept[i].covers = Fiber(T, d, at[a - 1 + i])
                             /\ kept[i].covers # {} /\ IsFiniteSet(kept[i].covers)
                             /\ Min(kept[i].covers) \in kept[i].covers /\ Min(kept[i].covers) \in Nat
                             /\ Max(kept[i].covers) \in kept[i].covers /\ Max(kept[i].covers) \in Nat
  BY <1>0, <1>1, <1>4, <1>6, FibersAre
<1>9. ASSUME NEW i \in DOMAIN kept PROVE Cardinality(kept[i].covers) > 0
  <2>1. IsFiniteSet(kept[i].covers) /\ kept[i].covers # {}
    BY <1>8
  <2> QED BY <2>1, FS_CardinalityType, FS_EmptySet
<1>10. ASSUME NEW i \in DOMAIN kept, i > 1
       PROVE  Max(kept[i - 1].covers) < Min(kept[i].covers)
  <2> DEFINE t == Max(kept[i - 1].covers)
             u == Min(kept[i].covers)
  <2>1. i - 1 \in DOMAIN kept
    BY <1>10, <1>3
  <2>2. t \in kept[i - 1].covers /\ u \in kept[i].covers /\ t \in Nat /\ u \in Nat
    BY <2>1, <1>8
  <2> HIDE DEF t, u
  <2>3. t \in T /\ bar(t) = a - 1 + (i - 1)
    BY <2>1, <2>2, <1>1, <1>4, <1>8
  <2>4. u \in T /\ bar(u) = a - 1 + i
    BY <2>2, <1>1, <1>4, <1>8
  <2>5. u <= t => bar(u) <= bar(t)
    BY <2>3, <2>4, <1>1
  <2>6. ~(u <= t)
    BY <2>3, <2>4, <2>5, <1>3
  <2> QED BY <2>2, <2>6 DEF t, u
<1>11. cov \in SUBSET T /\ cov \in SUBSET Int /\ IsFiniteSet(cov)
  <2>1. cov \in SUBSET T
    BY <1>7
  <2>2. T \in SUBSET Int /\ IsFiniteSet(T)
    BY <1>0 DEF Classed
  <2> QED BY <2>1, <2>2, FS_Subset
<1> HIDE DEF cov
<1>12. ASSUME kept # <<>> PROVE cov = {t \in T : Min(cov) <= t /\ t <= Max(cov)}
  <2>1. Len(kept) # 0
    BY <1>12, <1>3
  <2>2. 1 \in DOMAIN kept
    BY <2>1, <1>3
  <2>3. PICK t \in T : t \in cov
    <3>1. PICK t \in T : t \in Fiber(T, d, at[a])
      BY <2>2, <1>1, <1>3, <1>4
    <3>2. a \in 1..L /\ a <= b
      BY <2>1, <1>3, <1>1
    <3>3. bar(t) = a
      BY <3>1, <3>2, <1>1
    <3> QED BY <3>1, <3>2, <3>3, <1>7, <1>3
  <2>4. /\ Min(cov) \in cov /\ Max(cov) \in cov
        /\ \A u \in cov : Min(cov) <= u /\ u <= Max(cov)
    BY <2>3, <1>11, EndsAre
  <2>5. ASSUME NEW u \in T, Min(cov) <= u, u <= Max(cov) PROVE u \in cov
    <3>1. Min(cov) \in T /\ Max(cov) \in T /\ a <= bar(Min(cov)) /\ bar(Max(cov)) <= b
      BY <2>4, <1>7
    <3>2. bar(Min(cov)) <= bar(u) /\ bar(u) <= bar(Max(cov))
      BY <2>5, <3>1, <1>1
    <3>3. bar(Min(cov)) \in 1..L /\ bar(u) \in 1..L /\ bar(Max(cov)) \in 1..L
      BY <3>1, <1>1
    <3>4. a <= bar(u) /\ bar(u) <= b
      BY <3>1, <3>2, <3>3, <1>3
    <3> QED BY <3>4, <1>7
  <2>6. \A u \in cov : u \in T /\ Min(cov) <= u /\ u <= Max(cov)
    BY <2>4, <1>11
  <2> QED BY <2>5, <2>6
<1>13. Len(kept) = Cardinality({d[t] : t \in cov})
  <2> DEFINE f == [i \in 1..Len(kept) |-> at[a - 1 + i]]
  <2>1. Len(kept) \in Nat
    BY <1>3, <1>1
  <2>2. {d[t] : t \in cov} = {f[i] : i \in 1..Len(kept)}
    <3>1. ASSUME NEW t \in cov PROVE \E i \in 1..Len(kept) : d[t] = f[i]
      <4>1. t \in T /\ a <= bar(t) /\ bar(t) <= b /\ bar(t) \in 1..L /\ at[bar(t)] = d[t]
        BY <1>1, <1>7
      <4>2. bar(t) - a + 1 \in 1..Len(kept) /\ a - 1 + (bar(t) - a + 1) = bar(t)
        BY <4>1, <1>3, <1>5
      <4> QED BY <4>1, <4>2
    <3>2. ASSUME NEW i \in 1..Len(kept) PROVE \E t \in cov : d[t] = f[i]
      <4>1. a - 1 + i \in 1..L /\ a <= a - 1 + i /\ a - 1 + i <= b
        BY <1>3, <1>4
      <4>2. PICK t \in T : t \in Fiber(T, d, at[a - 1 + i])
        BY <4>1, <1>1
      <4>3. bar(t) = a - 1 + i /\ d[t] = at[a - 1 + i]
        BY <4>1, <4>2, <1>1
      <4> QED BY <4>1, <4>3, <1>7
    <3> QED BY <3>1, <3>2
  <2>3. ASSUME NEW i \in 1..Len(kept), NEW j \in 1..Len(kept), f[i] = f[j] PROVE i = j
    <3>1. a - 1 + i \in 1..L /\ a - 1 + j \in 1..L
      BY <1>3, <1>4
    <3>2. at[a - 1 + i] \in Nat /\ at[a - 1 + i] = at[a - 1 + j]
      BY <2>3, <3>1, <1>1
    <3>3. ~(a - 1 + i < a - 1 + j) /\ ~(a - 1 + j < a - 1 + i)
      BY <3>1, <3>2, <1>1
    <3> QED BY <3>3, <2>1, <1>3
  <2>4. DOMAIN f = 1..Len(kept)
    OBVIOUS
  <2> HIDE DEF f
  <2>5. \A i, j \in 1..Len(kept) : f[i] = f[j] => i = j
    BY <2>3
  <2>6. Cardinality({f[i] : i \in 1..Len(kept)}) = Len(kept)
    BY <2>1, <2>4, <2>5, ImagesCount
  <2> QED BY <2>2, <2>6
<1>14. Len(bars) = Cardinality(Classes(T, d))
  BY <1>2 DEF L, K
<1> QED BY <1>7, <1>9, <1>10, <1>12, <1>13, <1>14 DEF cov, bar, TimesOfBars, IsWholeRun

\* The bars a read slices, the times they are made of and their classes.
Rolled(request, series) ==
  IF request.aggregateTo = 0 THEN series ELSE RollUp(series, request.aggregateTo)
ReadClass(request, state, window) ==
  IF request.aggregateTo = 0 THEN SourceClass(window, state.timeframe)
  ELSE RolledClass(Asked(window, state.timeframe), SourceClass(window, state.timeframe), request.aggregateTo)
AnswerTimeframe(request, state) ==
  IF request.aggregateTo = 0 THEN state.timeframe ELSE request.aggregateTo
\* The class of a time, as the property states it.
ClassAsked(window, timeframe, answered, t) ==
  BucketKey(Min({u \in Asked(window, timeframe) : BucketKey(u, timeframe) = BucketKey(t, timeframe)}),
            answered)

\* Bars that count the bars of the source they are made of.
CountsItsSources(bars, c) ==
  \A n \in DOMAIN bars : bars[n].sources = Cardinality({c[t] : t \in bars[n].covers})

LEMMA RolledIs ==
  ASSUME MarketOK, NEW request \in Requests, NEW state \in Configs, NEW window
  PROVE  LET T == Asked(window, state.timeframe)
             c == SourceClass(window, state.timeframe)
             d == ReadClass(request, state, window)
             bars == Rolled(request, FetchSeries(state.timeframe, window))
         IN  /\ Classed(T, c) /\ Classed(T, d) /\ IsSeriesOf(bars, T, d)
             /\ CountsItsSources(bars, c)
<1> DEFINE T == Asked(window, state.timeframe)
           c == SourceClass(window, state.timeframe)
           series == FetchSeries(state.timeframe, window)
<1>1. state.timeframe \in Timeframes
  BY DEF Configs
<1>2. /\ Classed(T, c) /\ IsSeriesOf(series, T, c)
      /\ \A n \in DOMAIN series : series[n].sources = 1
  BY <1>1, SeriesIs
<1>3. request.aggregateTo \in Timeframes \union {0}
  BY RequestsAre
<1>4. CASE request.aggregateTo = 0
  <2>1. /\ ReadClass(request, state, window) = c
        /\ Rolled(request, series) = series
    BY <1>4 DEF ReadClass, Rolled
  <2> HIDE DEF T, c, series
  <2>2. ASSUME NEW n \in DOMAIN series
        PROVE  series[n].sources = Cardinality({c[t] : t \in series[n].covers})
    <3> DEFINE at == Ascending(Classes(T, c))
    <3>1. DOMAIN series = 1..Cardinality(Classes(T, c))
      BY <1>2 DEF IsSeriesOf
    <3>2. series[n].covers = Fiber(T, c, at[n])
      BY <1>2 DEF IsSeriesOf
    <3>3. Fiber(T, c, at[n]) # {}
      BY <3>1, <1>2, ClassesAre
    <3> HIDE DEF at
    <3>4. {c[t] : t \in series[n].covers} = {at[n]}
      BY <3>2, <3>3 DEF Fiber
    <3>5. Cardinality({at[n]}) = 1
      BY FS_Singleton
    <3> QED BY <3>4, <3>5, <1>2
  <2> QED BY <2>1, <2>2, <1>2 DEF T, c, series, CountsItsSources
<1>5. CASE request.aggregateTo # 0
  <2>1. request.aggregateTo \in Timeframes
    BY <1>3, <1>5
  <2>2. /\ ReadClass(request, state, window) = RolledClass(T, c, request.aggregateTo)
        /\ Rolled(request, series) = RollUp(series, request.aggregateTo)
    BY <1>5 DEF ReadClass, Rolled
  <2> HIDE DEF T, c, series
  <2>3. /\ Classed(T, RolledClass(T, c, request.aggregateTo))
        /\ IsSeriesOf(RollUp(series, request.aggregateTo), T, RolledClass(T, c, request.aggregateTo))
        /\ \A n \in DOMAIN RollUp(series, request.aggregateTo) :
             RollUp(series, request.aggregateTo)[n].sources
               = Cardinality({c[t] : t \in RollUp(series, request.aggregateTo)[n].covers})
    BY <2>1, <1>2, RollIs
  <2> QED BY <2>2, <2>3, <1>2 DEF T, c, series, CountsItsSources
<1> QED BY <1>4, <1>5

LEMMA ClassesAsked ==
  ASSUME MarketOK, NEW request \in Requests, NEW state \in Configs, NEW window,
         NEW t \in Asked(window, state.timeframe)
  PROVE  ClassAsked(window, state.timeframe, AnswerTimeframe(request, state), t)
           = ReadClass(request, state, window)[t]
<1> DEFINE T == Asked(window, state.timeframe)
           c == SourceClass(window, state.timeframe)
           F == Fiber(T, c, c[t])
<1>1. state.timeframe \in Timeframes
  BY DEF Configs
<1>2. Classed(T, c)
  BY <1>1, SeriesIs
<1>3. {u \in T : BucketKey(u, state.timeframe) = BucketKey(t, state.timeframe)} = F
  BY DEF Fiber, SourceClass
<1>4. CASE request.aggregateTo = 0
  <2>1. F # {}
    BY DEF Fiber
  <2>2. Min(F) \in F
    <3> HIDE DEF T, c
    <3> QED BY <1>2, <2>1, FibersAre
  <2>3. BucketKey(Min(F), state.timeframe) = c[t]
    <3> DEFINE m == Min(F)
    <3>1. m \in T /\ c[m] = c[t]
      BY <2>2 DEF Fiber
    <3> HIDE DEF m
    <3>2. c[m] = BucketKey(m, state.timeframe)
      BY <3>1 DEF SourceClass
    <3> QED BY <3>1, <3>2 DEF m
  <2> QED BY <1>3, <1>4, <2>3 DEF ClassAsked, AnswerTimeframe, ReadClass
<1>5. CASE request.aggregateTo # 0
  <2>1. ReadClass(request, state, window)[t] = BucketKey(Min(F), request.aggregateTo)
    BY <1>5 DEF ReadClass, RolledClass
  <2> QED BY <1>3, <1>5, <2>1 DEF ClassAsked, AnswerTimeframe
<1> QED BY <1>4, <1>5

LEMMA TimesAreOfBars ==
  ASSUME NEW T, NEW d, Classed(T, d), NEW bars, IsSeriesOf(bars, T, d)
  PROVE  /\ \A n \in DOMAIN bars :
              /\ bars[n].time \in Nat /\ bars[n].time \in T /\ BarOf(T, d, bars[n].time) = n
         /\ \A t \in T : BarOf(T, d, t) \in DOMAIN bars /\ bars[BarOf(T, d, t)].time <= t
         /\ Len(bars) \in Nat /\ DOMAIN bars = 1..Len(bars)
<1> DEFINE K == Classes(T, d)
           at == Ascending(K)
           L == Cardinality(K)
<1>1. /\ L \in Nat
      /\ \A n \in 1..L : Fiber(T, d, at[n]) # {} /\ Fiber(T, d, at[n]) \in SUBSET T
      /\ \A t \in T, n \in 1..L : BarOf(T, d, t) = n <=> t \in Fiber(T, d, at[n])
      /\ \A t \in T : BarOf(T, d, t) \in 1..L
  BY ClassesAre
<1>2. /\ DOMAIN bars = 1..L /\ Len(bars) = L
      /\ \A n \in 1..L : bars[n].covers = Fiber(T, d, at[n]) /\ bars[n].time = Min(bars[n].covers)
  BY DEF IsSeriesOf
<1> HIDE DEF K, at, L
<1>3. \A n \in 1..L : /\ bars[n].time \in Fiber(T, d, at[n]) /\ bars[n].time \in Nat
                      /\ \A t \in Fiber(T, d, at[n]) : bars[n].time <= t
  BY <1>1, <1>2, FibersAre
<1> QED BY <1>1, <1>2, <1>3

\* The last n bars of a series: as many as there are, up to n, and the last time.
LEMMA LastBarsAre ==
  ASSUME NEW T, NEW d, Classed(T, d), NEW bars, IsSeriesOf(bars, T, d), NEW n \in Nat \ {0},
         NEW kept, NEW a, NEW b, IsSliceOf(kept, bars, a, b), b = Len(bars),
         a = IF Len(bars) - n >= 1 THEN Len(bars) - n + 1 ELSE 1
  PROVE  /\ Len(kept) = Min({n, Len(bars)})
         /\ T # {} => Max(T) \in Coverage(kept)
<1> DEFINE L == Len(bars)
<1>1. L \in Nat /\ DOMAIN bars = 1..L
  BY TimesAreOfBars
<1>2. Len(kept) = IF a <= L THEN L - a + 1 ELSE 0
  BY DEF IsSliceOf
<1>3. Min({n, L}) = IF n <= L THEN n ELSE L
  <2>1. n \in Int /\ L \in Int
    BY <1>1
  <2> HIDE DEF L
  <2> QED BY <2>1, EndsOfPairs
<1>4. a = IF L - n >= 1 THEN L - n + 1 ELSE 1
  OBVIOUS
<1> HIDE DEF L
<1>5. Len(kept) = Min({n, L})
  <2>1. CASE L - n >= 1
    <3>1. a = L - n + 1 /\ a <= L /\ L - a + 1 = n /\ n <= L
      BY <2>1, <1>1, <1>4
    <3> QED BY <3>1, <1>2, <1>3
  <2>2. CASE ~(L - n >= 1)
    <3>1. a = 1 /\ L <= n /\ n \in Nat /\ (n <= L => n = L)
      BY <2>2, <1>1, <1>4
    <3>2. Len(kept) = L
      BY <3>1, <1>1, <1>2
    <3> QED BY <3>1, <3>2, <1>3
  <2> QED BY <2>1, <2>2
<1>6. ASSUME T # {} PROVE Max(T) \in Coverage(kept)
  <2>1. T \in SUBSET Int /\ IsFiniteSet(T)
    BY DEF Classed
  <2> DEFINE m == Max(T)
  <2>2. m \in T /\ \A t \in T : t <= m
    BY <1>6, <2>1, EndsAre
  <2> HIDE DEF m
  <2>3. BarOf(T, d, m) \in 1..L
    BY <2>2, <1>1, TimesAreOfBars
  <2>4. L \in DOMAIN bars
    BY <2>3, <1>1
  <2>5. bars[L].time \in T /\ BarOf(T, d, bars[L].time) = L
    BY <2>4, TimesAreOfBars
  <2>6. BarOf(T, d, bars[L].time) <= BarOf(T, d, m)
    BY <2>2, <2>5, ClassesAre
  <2>7. a <= BarOf(T, d, m) /\ BarOf(T, d, m) <= b
    BY <2>3, <2>5, <2>6, <1>1, <1>4 DEF L
  <2>8. Coverage(kept) = TimesOfBars(T, d, a, b)
    <3>1. IsSliceOfSeries(kept, bars, T, d, a, b)
      BY DEF IsSliceOfSeries
    <3> QED BY <3>1, SlicesAreWhole
  <2> QED BY <2>2, <2>7, <2>8 DEF m, TimesOfBars
<1> QED BY <1>5, <1>6 DEF L

\* The last time up to an anchor is in the bar the anchor is found at.
LEMMA AnchorIsAt ==
  ASSUME NEW T, NEW d, Classed(T, d), NEW bars, IsSeriesOf(bars, T, d), NEW anchor \in Nat,
         NEW m \in T, m <= anchor, \A t \in T : t <= anchor => t <= m
  PROVE  BarOf(T, d, m) = AnchorIndex(bars, anchor)
<1> DEFINE at == AnchorIndex(bars, anchor)
           k == BarOf(T, d, m)
<1>1. /\ \A n \in DOMAIN bars :
           /\ bars[n].time \in Nat /\ bars[n].time \in T /\ BarOf(T, d, bars[n].time) = n
      /\ k \in DOMAIN bars /\ bars[k].time <= m
      /\ Len(bars) \in Nat /\ DOMAIN bars = 1..Len(bars)
  BY TimesAreOfBars
<1>2. bars \in Seq({bars[n] : n \in DOMAIN bars})
  BY DEF IsSeriesOf
<1>3. /\ at \in Nat \ {0}
      /\ \A i \in DOMAIN bars : bars[i].time <= anchor => i <= at
      /\ at = 1 \/ (at \in DOMAIN bars /\ bars[at].time <= anchor)
  BY <1>1, <1>2, AnchorsAre
<1>4. \A t, u \in T : t <= u => BarOf(T, d, t) <= BarOf(T, d, u)
  BY ClassesAre
<1>5. m \in Nat
  BY DEF Classed
<1> HIDE DEF at, k
<1>6. k \in Nat \ {0} /\ k <= at
  BY <1>1, <1>3, <1>5
<1>7. at <= k
  <2>1. CASE at = 1
    BY <2>1, <1>6
  <2>2. CASE at \in DOMAIN bars /\ bars[at].time <= anchor
    BY <2>2, <1>1, <1>4 DEF k
  <2> QED BY <2>1, <2>2, <1>3
<1> QED BY <1>3, <1>6, <1>7 DEF at, k

\* A read in flight asks for something a read may ask, of the configuration it
\* resolved; an answer is made of the market and of that read, whatever the
\* chart was configured to meanwhile.
Requested ==
  \E request \in Requests, state \in Configs :
    ~Malformed(request) /\ call = [request |-> request, state |-> state]
Assembled ==
  Assemble(call.request, call.state,
           FetchSeries(call.state.timeframe, FetchWindow(call.request, call.state.range)))
ReadInv ==
  /\ market \in Markets /\ config \in Configs
  /\ call = Idle \/ Requested
  /\ \/ answer \in {NoAnswer, Refusal("request"), Refusal("series_unavailable")}
     \/ Requested /\ answer = Assembled

LEMMA MarketsAreSets ==
  ASSUME market \in Markets
  PROVE  MarketOK
<1>1. market \in SUBSET (0..MaxTime) /\ MaxTime \in Nat
  BY ChartReadAssumption DEF ChartReadAssumption, Times
<1>2. IsFiniteSet(0..MaxTime)
  BY <1>1, FS_Interval
<1>3. market \in SUBSET Nat
  BY <1>1
<1> QED BY <1>1, <1>2, <1>3, FS_Subset DEF MarketOK

LEMMA ReadInvHolds == ReadSpec => []ReadInv
<1>1. ReadInit => ReadInv
  BY DEF ReadInit, ReadInv
<1>2. ReadInv /\ [ReadNext]_readVars => ReadInv'
  <2> SUFFICES ASSUME ReadInv, [ReadNext]_readVars PROVE ReadInv'
    OBVIOUS
  <2>1. ASSUME NEW request \in Requests, StartRead(request) PROVE ReadInv'
    <3>1. market' \in Markets /\ config' \in Configs
      BY <2>1 DEF StartRead, ReadInv
    <3>2. CASE Refused(request, config)
      BY <2>1, <3>1, <3>2 DEF StartRead, ReadInv
    <3>3. CASE ~Refused(request, config)
      <4>1. call' = [request |-> request, state |-> config] /\ answer' = NoAnswer
        BY <2>1, <3>3 DEF StartRead
      <4>2. config \in Configs /\ ~Malformed(request)
        BY <3>3 DEF ReadInv, Refused
      <4>3. Requested'
        BY <4>1, <4>2 DEF Requested
      <4> QED BY <3>1, <4>1, <4>3 DEF ReadInv
    <3> QED BY <3>2, <3>3
  <2>2. CASE FinishRead
    <3>1. Requested
      BY <2>2 DEF FinishRead, ReadInv
    <3>2. market' = market /\ config' = config /\ call' = call
      BY <2>2 DEF FinishRead
    <3>3. answer' = Assembled \/ answer' = Refusal("series_unavailable")
      BY <2>2 DEF FinishRead, Assembled
    <3>4. Requested' /\ Assembled' = Assembled
      BY <3>1, <3>2 DEF Requested, Assembled, FetchSeries
    <3> QED BY <3>2, <3>3, <3>4 DEF ReadInv
  <2>3. ASSUME NEW next \in Configs, Configure(next) PROVE ReadInv'
    <3>1. market' = market /\ config' \in Configs /\ call' = call /\ answer' = answer
      BY <2>3 DEF Configure
    <3>2. Assembled' = Assembled /\ (Requested' <=> Requested)
      BY <3>1 DEF Requested, Assembled, FetchSeries
    <3> QED BY <3>1, <3>2 DEF ReadInv
  <2>4. CASE UNCHANGED readVars
    <3>1. market' = market /\ config' = config /\ call' = call /\ answer' = answer
      BY <2>4 DEF readVars
    <3>2. Assembled' = Assembled /\ (Requested' <=> Requested)
      BY <3>1 DEF Requested, Assembled, FetchSeries
    <3> QED BY <3>1, <3>2 DEF ReadInv
  <2> QED BY <2>1, <2>2, <2>3, <2>4 DEF ReadNext
<1> QED BY <1>1, <1>2, PTL DEF ReadSpec

\* What an answer was made of.
LEMMA AnswersAre ==
  ASSUME ReadInv, answer.status \in {"ok", "over_cap"}
  PROVE  \E request \in Requests, state \in Configs :
           /\ ~Malformed(request)
           /\ call.request = request /\ call.state = state
           /\ answer = Assemble(request, state,
                                FetchSeries(state.timeframe, FetchWindow(request, state.range)))
<1>1. Requested /\ answer = Assembled
  BY DEF ReadInv, NoAnswer, Refusal
<1>2. PICK request \in Requests, state \in Configs :
        ~Malformed(request) /\ call = [request |-> request, state |-> state]
  BY <1>1 DEF Requested
<1>3. call.request = request /\ call.state = state
  BY <1>2
<1> QED BY <1>1, <1>2, <1>3 DEF Assembled

LEMMA OkIs ==
  ASSUME NEW request, NEW state, NEW series, Assemble(request, state, series).status = "ok"
  PROVE  LET out == Assemble(request, state, series)
         IN  /\ out.bars = SliceForWindow(Rolled(request, series), request)
             /\ out.timeframe = AnswerTimeframe(request, state)
             /\ ~(Len(out.bars) > Cap)
BY DEF Assemble, Rolled, AnswerTimeframe

\* An answer is a slice of the rolled bars of what was asked for.
AnswerIs(request, T, c, d, rolled, kept, a, b) ==
  /\ IsSliceOfSeries(kept, rolled, T, d, a, b)
  /\ SlicedFor(request, rolled, a, b)
  /\ CountsItsSources(rolled, c)

LEMMA AnswersAreSlices ==
  ASSUME MarketOK, NEW request \in Requests, NEW state \in Configs, NEW window
  PROVE  LET rolled == Rolled(request, FetchSeries(state.timeframe, window))
         IN  \E a \in Nat \ {0}, b \in 0..Len(rolled) :
               AnswerIs(request, Asked(window, state.timeframe), SourceClass(window, state.timeframe),
                        ReadClass(request, state, window), rolled, SliceForWindow(rolled, request), a, b)
<1> DEFINE T == Asked(window, state.timeframe)
           c == SourceClass(window, state.timeframe)
           d == ReadClass(request, state, window)
           rolled == Rolled(request, FetchSeries(state.timeframe, window))
<1>1. /\ Classed(T, d) /\ IsSeriesOf(rolled, T, d)
      /\ CountsItsSources(rolled, c)
  BY RolledIs
<1> HIDE DEF T, c, d, rolled
<1>2. rolled \in Seq({rolled[n] : n \in DOMAIN rolled})
  BY <1>1 DEF IsSeriesOf
<1>3. \A n \in DOMAIN rolled : rolled[n].time \in Nat
  BY <1>1, TimesAreOfBars
<1>4. \E a \in Nat \ {0}, b \in 0..Len(rolled) :
        IsSliceOf(SliceForWindow(rolled, request), rolled, a, b) /\ SlicedFor(request, rolled, a, b)
  BY <1>2, <1>3, SlicesAre
<1> QED BY <1>1, <1>4 DEF AnswerIs, IsSliceOfSeries, T, c, d, rolled

\* The classes of some times, as the property states them.
KeysOf(window, timeframe, answered, S) == {ClassAsked(window, timeframe, answered, t) : t \in S}

LEMMA KeysAre ==
  ASSUME MarketOK, NEW request \in Requests, NEW state \in Configs, NEW window,
         NEW S \in SUBSET Asked(window, state.timeframe)
  PROVE  KeysOf(window, state.timeframe, AnswerTimeframe(request, state), S)
           = Classes(S, ReadClass(request, state, window))
<1>1. \A t \in S : ClassAsked(window, state.timeframe, AnswerTimeframe(request, state), t)
                     = ReadClass(request, state, window)[t]
  BY ClassesAsked
<1> QED BY <1>1 DEF KeysOf, Classes

LEMMA SlicesCoverOf ==
  ASSUME NEW T, NEW d, NEW bars, NEW kept, NEW a, NEW b, IsSliceOfSeries(kept, bars, T, d, a, b)
  PROVE  Coverage(kept) \in SUBSET T
<1>1. Coverage(kept) = TimesOfBars(T, d, a, b)
  BY SlicesAreWhole
<1> QED BY <1>1 DEF TimesOfBars

\* All the bars cover all the times.
LEMMA AllIsCovered ==
  ASSUME NEW T, NEW d, NEW bars, NEW kept, NEW a, NEW b, IsSliceOfSeries(kept, bars, T, d, a, b),
         a = 1, b = Len(bars)
  PROVE  Coverage(kept) = T
<1>1. Coverage(kept) = TimesOfBars(T, d, a, b)
  BY SlicesAreWhole
<1>2. \A t \in T : BarOf(T, d, t) \in 1..Len(bars)
  BY TimesAreOfBars DEF IsSliceOfSeries
<1>3. Len(bars) \in Nat
  BY TimesAreOfBars DEF IsSliceOfSeries
<1> QED BY <1>1, <1>2, <1>3 DEF TimesOfBars

LEMMA WholeHolds == ReadInv => ReadsAreWhole
<1> SUFFICES ASSUME ReadInv, answer.status = "ok" PROVE ReadsAreWhole
  BY DEF ReadsAreWhole, Answered
<1>1. PICK request \in Requests, state \in Configs :
        /\ ~Malformed(request)
        /\ call.request = request /\ call.state = state
        /\ answer = Assemble(request, state,
                             FetchSeries(state.timeframe, FetchWindow(request, state.range)))
  BY AnswersAre
<1> DEFINE W == FetchWindow(request, state.range)
           tf == state.timeframe
           T == Asked(W, tf)
           c == SourceClass(W, tf)
           d == ReadClass(request, state, W)
           rolled == Rolled(request, FetchSeries(tf, W))
           kept == answer.bars
<1>2. MarketOK
  BY MarketsAreSets DEF ReadInv
<1>3. kept = SliceForWindow(rolled, request) /\ answer.timeframe = AnswerTimeframe(request, state)
      /\ ~(Len(kept) > Cap)
  <2>1. Assemble(request, state, FetchSeries(tf, W)).status = "ok"
    BY <1>1
  <2> QED BY <1>1, <2>1, OkIs
<1>4. PICK a \in Nat \ {0}, b \in 0..Len(rolled) : AnswerIs(request, T, c, d, rolled, kept, a, b)
  BY <1>2, <1>3, AnswersAreSlices
<1>5. TimesOpeningIn(FetchWindow(call.request, call.state.range)) = T
  BY <1>1 DEF TimesOpeningIn, Asked
<1>6. Covered = Coverage(kept)
  BY DEF Covered, Coverage
<1>7. \A S \in SUBSET T : KeysOf(W, tf, answer.timeframe, S) = Classes(S, d)
  BY <1>2, <1>3, KeysAre
<1>8. /\ IsSliceOfSeries(kept, rolled, T, d, a, b) /\ SlicedFor(request, rolled, a, b)
      /\ CountsItsSources(rolled, c)
  BY <1>4 DEF AnswerIs
<1>9. \A t \in T : c[t] = BucketKey(t, tf)
  BY DEF SourceClass
<1> HIDE DEF W, T, c, d, rolled, kept
<1>10. /\ Coverage(kept) = TimesOfBars(T, d, a, b) /\ IsWholeRun(kept, T, d)
       /\ Len(rolled) = Cardinality(Classes(T, d))
  BY <1>8, SlicesAreWhole
<1>11. Coverage(kept) \in SUBSET T
  BY <1>8, SlicesCoverOf
<1>12. /\ Classed(T, d) /\ IsSeriesOf(rolled, T, d) /\ IsSliceOf(kept, rolled, a, b)
  BY <1>8 DEF IsSliceOfSeries
<1>13. ASSUME NEW i \in DOMAIN kept
       PROVE  kept[i].sources = Cardinality({BucketKey(t, call.state.timeframe) : t \in kept[i].covers})
  <2>1. Len(rolled) \in Nat /\ DOMAIN rolled = 1..Len(rolled)
    BY <1>12, TimesAreOfBars
  <2>2. a - 1 + i \in DOMAIN rolled /\ kept[i] = rolled[a - 1 + i]
    BY <1>12, <2>1 DEF IsSliceOf
  <2>3. kept[i].sources = Cardinality({c[t] : t \in kept[i].covers})
    BY <1>8, <2>2 DEF CountsItsSources
  <2>4. kept[i].covers \in SUBSET T
    BY <1>11 DEF Coverage, ToSet
  <2>5. {c[t] : t \in kept[i].covers} = {BucketKey(t, tf) : t \in kept[i].covers}
    BY <1>9, <2>4
  <2> QED BY <2>3, <2>5, <1>1
<1>14. call.request.form \in {"explicit", "visible_range"} => Coverage(kept) = T
  <2>1. ASSUME request.form \in {"explicit", "visible_range"} PROVE Coverage(kept) = T
    <3>1. a = 1 /\ b = Len(rolled)
      BY <1>8, <2>1 DEF SlicedFor
    <3> QED BY <3>1, <1>8, AllIsCovered
  <2> QED BY <2>1, <1>1
<1>15. ASSUME request.form = "last_n_bars"
       PROVE  /\ Len(kept) = Min({request.lastNBars, Cardinality({d[t] : t \in T})})
              /\ T # {} => Max(T) \in Coverage(kept)
  <2>1. request.lastNBars \in Nat \ {0}
    BY <1>1, <1>15, RequestsAre DEF Malformed
  <2>2. b = Len(rolled) /\ a = IF Len(rolled) - request.lastNBars >= 1
                               THEN Len(rolled) - request.lastNBars + 1 ELSE 1
    BY <1>8, <1>15 DEF SlicedFor
  <2>3. Len(kept) = Min({request.lastNBars, Len(rolled)}) /\ (T # {} => Max(T) \in Coverage(kept))
    BY <1>12, <2>1, <2>2, LastBarsAre
  <2> QED BY <2>3, <1>10 DEF Classes
<1>16. Len(kept) <= Cap
  <2>1. Cap \in Nat /\ Len(kept) \in Int
    <3>1. Len(rolled) \in Nat
      BY <1>12, TimesAreOfBars
    <3> QED BY <3>1, <1>12, ChartReadAssumption DEF ChartReadAssumption, IsSliceOf
  <2> QED BY <2>1, <1>3
<1> DEFINE keys(times) == {BucketKey(Min({u \in T : BucketKey(u, call.state.timeframe)
                                                      = BucketKey(t, call.state.timeframe)}),
                                     answer.timeframe) : t \in times}
<1>17. keys(Coverage(kept)) = Classes(Coverage(kept), d) /\ keys(T) = Classes(T, d)
  <2>1. \A S : keys(S) = KeysOf(W, tf, answer.timeframe, S)
    BY <1>1 DEF KeysOf, ClassAsked, T
  <2> QED BY <2>1, <1>7, <1>11
<1> HIDE DEF keys
<1>18. Len(kept) = Cardinality(keys(Coverage(kept)))
  BY <1>10, <1>17 DEF IsWholeRun, Classes
<1>19. call.request.form = "last_n_bars" =>
         /\ Len(kept) = Min({call.request.lastNBars, Cardinality(keys(T))})
         /\ T # {} => Max(T) \in Coverage(kept)
  BY <1>1, <1>15, <1>17 DEF Classes
<1>20. \A i \in DOMAIN kept :
         /\ Cardinality(kept[i].covers) > 0
         /\ i > 1 => Max(kept[i - 1].covers) < Min(kept[i].covers)
  BY <1>10 DEF IsWholeRun
<1>21. kept # <<>> => Coverage(kept) = {t \in T : Min(Coverage(kept)) <= t /\ t <= Max(Coverage(kept))}
  BY <1>10 DEF IsWholeRun
<1>22. kept = answer.bars
  BY DEF kept
<1> QED
  <2> DEFINE asked == TimesOpeningIn(FetchWindow(call.request, call.state.range))
             keysOf(times) == {BucketKey(Min({u \in asked : BucketKey(u, call.state.timeframe)
                                                            = BucketKey(t, call.state.timeframe)}),
                                        answer.timeframe) : t \in times}
  <2>1. asked = T /\ Covered = Coverage(kept)
    BY <1>5, <1>6
  <2>2. \A S : keysOf(S) = keys(S)
    BY <2>1 DEF keys
  <2> HIDE DEF asked, keysOf
  <2>3. /\ Len(answer.bars) <= Cap
        /\ \A i \in DOMAIN answer.bars :
             /\ Cardinality(answer.bars[i].covers) > 0
             /\ i > 1 => Max(answer.bars[i - 1].covers) < Min(answer.bars[i].covers)
             /\ answer.bars[i].sources =
                  Cardinality({BucketKey(t, call.state.timeframe) : t \in answer.bars[i].covers})
    BY <1>13, <1>16, <1>20, <1>22
  <2>4. answer.bars # <<>> => Covered = {t \in asked : Min(Covered) <= t /\ t <= Max(Covered)}
    BY <1>21, <1>22, <2>1
  <2>5. Len(answer.bars) = Cardinality(keysOf(Covered))
    BY <1>18, <1>22, <2>1, <2>2
  <2>6. call.request.form \in {"explicit", "visible_range"} => Covered = asked
    BY <1>14, <2>1
  <2>7. call.request.form = "last_n_bars" =>
          Len(answer.bars) = Min({call.request.lastNBars, Cardinality(keysOf(asked))})
          /\ (asked # {} => Max(asked) \in Covered)
    BY <1>19, <1>22, <2>1, <2>2
  <2> HIDE DEF kept
  <2> QED BY <2>3, <2>4, <2>5, <2>6, <2>7 DEF ReadsAreWhole, asked, keysOf

LEMMA AnchorHolds == ReadInv => AnchorInAnswer
<1> SUFFICES ASSUME ReadInv, answer.status = "ok", call.request.form = "anchored" PROVE AnchorInAnswer
  BY DEF AnchorInAnswer, Answered
<1>1. PICK request \in Requests, state \in Configs :
        /\ ~Malformed(request)
        /\ call.request = request /\ call.state = state
        /\ answer = Assemble(request, state,
                             FetchSeries(state.timeframe, FetchWindow(request, state.range)))
  BY AnswersAre
<1> DEFINE W == state.range
           tf == state.timeframe
           T == Asked(W, tf)
           c == SourceClass(W, tf)
           d == ReadClass(request, state, W)
           rolled == Rolled(request, FetchSeries(tf, W))
           kept == answer.bars
           anchor == request.anchorTime
           upto == {t \in T : t <= anchor}
<1>2. MarketOK
  BY MarketsAreSets DEF ReadInv
<1>3. FetchWindow(request, state.range) = W
  BY <1>1 DEF FetchWindow
<1>4. kept = SliceForWindow(rolled, request)
  <2>1. answer = Assemble(request, state, FetchSeries(tf, W))
    BY <1>1, <1>3
  <2>2. Assemble(request, state, FetchSeries(tf, W)).status = "ok"
    BY <2>1
  <2> QED BY <2>1, <2>2, OkIs
<1>5. PICK a \in Nat \ {0}, b \in 0..Len(rolled) : AnswerIs(request, T, c, d, rolled, kept, a, b)
  BY <1>2, <1>4, AnswersAreSlices
<1>6. /\ IsSliceOfSeries(kept, rolled, T, d, a, b) /\ SlicedFor(request, rolled, a, b)
  BY <1>5 DEF AnswerIs
<1>7. TimesOpeningIn(call.state.range) = T
  BY <1>1 DEF TimesOpeningIn, Asked
<1>8. anchor \in Nat /\ request.form = "anchored"
  BY <1>1, RequestsAre
<1>9. Covered = Coverage(kept)
  BY DEF Covered, Coverage
<1> HIDE DEF W, T, c, d, rolled, kept, anchor
<1>10. /\ Classed(T, d) /\ IsSeriesOf(rolled, T, d) /\ IsSliceOf(kept, rolled, a, b)
  BY <1>6 DEF IsSliceOfSeries
<1>11. ASSUME upto # {} PROVE Max(upto) \in Coverage(kept)
  <2> DEFINE m == Max(upto)
  <2>1. upto \in SUBSET T
    OBVIOUS
  <2>2. T \in SUBSET Int /\ IsFiniteSet(T)
    BY <1>10 DEF Classed
  <2>3. upto \in SUBSET Int /\ IsFiniteSet(upto)
    BY <2>1, <2>2, FS_Subset
  <2>4. \A t : t \in upto <=> t \in T /\ t <= anchor
    OBVIOUS
  <2> HIDE DEF upto
  <2>5. m \in upto /\ \A t \in upto : t <= m
    BY <1>11, <2>3, EndsAre
  <2> HIDE DEF m
  <2>6. m \in T /\ m <= anchor /\ \A t \in T : t <= anchor => t <= m
    BY <2>4, <2>5
  <2>7. BarOf(T, d, m) = AnchorIndex(rolled, anchor)
    BY <2>6, <1>8, <1>10, AnchorIsAt
  <2>8. BarOf(T, d, m) \in DOMAIN rolled /\ Len(rolled) \in Nat /\ DOMAIN rolled = 1..Len(rolled)
    BY <2>6, <1>10, TimesAreOfBars
  <2>9. Len(rolled) # 0
    BY <2>8
  <2>10. a <= BarOf(T, d, m) /\ BarOf(T, d, m) <= b
    BY <1>6, <1>8, <2>7, <2>9 DEF SlicedFor, anchor
  <2>11. Coverage(kept) = TimesOfBars(T, d, a, b)
    BY <1>6, SlicesAreWhole
  <2> QED BY <2>6, <2>10, <2>11 DEF TimesOfBars, m
<1> QED BY <1>1, <1>7, <1>9, <1>11 DEF AnchorInAnswer, anchor

LEMMA RemediesHold == ReadInv => RemedyFits
<1> SUFFICES ASSUME ReadInv, answer.status = "over_cap", call.request.aggregateTo = 0,
                    call.request.form \in {"explicit", "visible_range"},
                    NEW o \in answer.options
             PROVE  LET retry == Assemble([call.request EXCEPT !.aggregateTo = o.timeframe], call.state,
                                          FetchSeries(call.state.timeframe,
                                                      FetchWindow(call.request, call.state.range)))
                    IN  retry.status = "ok" /\ Len(retry.bars) = o.barCount
  BY DEF RemedyFits
<1>1. PICK request \in Requests, state \in Configs :
        /\ ~Malformed(request)
        /\ call.request = request /\ call.state = state
        /\ answer = Assemble(request, state,
                             FetchSeries(state.timeframe, FetchWindow(request, state.range)))
  BY AnswersAre
<1> DEFINE series == FetchSeries(state.timeframe, FetchWindow(request, state.range))
           again == [request EXCEPT !.aggregateTo = o.timeframe]
<1>2. SliceForWindow(series, request) = series
  BY <1>1 DEF SliceForWindow
<1>3. answer.options = CoarserOptions(series, state.timeframe)
  <2> HIDE DEF series
  <2>1. answer = Assemble(request, state, series)
    BY <1>1 DEF series
  <2> QED BY <1>1, <1>2, <2>1 DEF Assemble
<1> HIDE DEF series
<1>4. o.timeframe \in Timeframes /\ o.barCount \in 1..Cap /\ o.barCount = Len(RollUp(series, o.timeframe))
  BY <1>3 DEF CoarserOptions
<1>5. o.timeframe # 0
  <2>1. Widths \in Seq(Nat \ {0})
    BY ChartReadAssumption DEF ChartReadAssumption
  <2> QED BY <2>1, <1>4 DEF Timeframes
<1>6. again.aggregateTo = o.timeframe /\ again.form = request.form
  <2>1. \/ request \in [form: {"visible_range"}, aggregateTo: Timeframes \union {0}]
        \/ request \in [form: {"explicit"}, start: Times, end: Times, aggregateTo: Timeframes \union {0}]
    BY <1>1 DEF Requests
  <2> QED BY <2>1
<1> HIDE DEF again
<1> DEFINE out == RollUp(series, o.timeframe)
<1>7. SliceForWindow(out, again) = out
  BY <1>1, <1>6 DEF SliceForWindow
<1> HIDE DEF out
<1>8. ~(Len(out) > Cap)
  <2>1. Cap \in Nat
    BY ChartReadAssumption DEF ChartReadAssumption
  <2> QED BY <2>1, <1>4 DEF out
<1>9. Assemble(again, state, series) = [status |-> "ok", timeframe |-> o.timeframe, bars |-> out]
  BY <1>5, <1>6, <1>7, <1>8 DEF Assemble, out
<1>10. Assemble(again, state, series).status = "ok" /\ Len(Assemble(again, state, series).bars) = o.barCount
  BY <1>4, <1>9 DEF out
<1> QED BY <1>1, <1>10 DEF again, series

\* Every read of a chart, of every market, under every cap: what is answered
\* is whole, in order and within the cap, holds its anchor, and what is refused
\* as too long names aggregations that are answered.
THEOREM ReadsAlwaysHold == ReadSpec => []ReadsHold
<1>1. ReadInv => ReadsHold
  BY WholeHolds, AnchorHolds, RemediesHold DEF ReadsHold
<1> QED BY <1>1, ReadInvHolds, PTL

-----------------------------------------------------------------------------
(* CapturedSetups.  The ids of a document are behind the counters of the   *)
(* page, so a new record takes none that is there or that undo could bring *)
(* back; and a document and the one before it agree on what an id names.   *)

DraftRecord(draft) ==
  draft = [source |-> draft.source, tree |-> draft.tree, provenance |-> draft.provenance,
           accepted |-> draft.accepted, edits |-> draft.edits]

OfOneChart(setup) ==
  setup.guarded => setup.window.of = setup.instrument /\ setup.window.timeframe = setup.timeframe

LabOK(doc, ids) ==
  /\ doc = [panel |-> doc.panel, chart |-> doc.chart, setups |-> doc.setups, drafts |-> doc.drafts,
            screener |-> doc.screener]
  /\ doc.drafts = [id \in DOMAIN doc.drafts |-> doc.drafts[id]]
  /\ DOMAIN doc.setups \subseteq 1..ids.setup /\ DOMAIN doc.drafts \subseteq 1..ids.draft
  /\ \A id \in DOMAIN doc.setups : OfOneChart(doc.setups[id])
  /\ \A id \in DOMAIN doc.drafts : DraftRecord(doc.drafts[id]) /\ doc.drafts[id].source \in DOMAIN doc.setups

Agree(a, b) ==
  /\ \A id \in DOMAIN a.setups \intersect DOMAIN b.setups : a.setups[id] = b.setups[id]
  /\ \A id \in DOMAIN a.drafts \intersect DOMAIN b.drafts : a.drafts[id].source = b.drafts[id].source

CaptureOK(doc, held) ==
  /\ held = NoCapture \/ held = [waiting |-> TRUE, state |-> held.state, anchor |-> held.anchor,
                                 guarded |-> held.guarded, moved |-> held.moved]
  /\ held.waiting /\ ~held.moved => held.state = doc.chart

MintedOK(ids) ==
  /\ ids = [setup |-> ids.setup, draft |-> ids.draft, filter |-> ids.filter,
               behind |-> ids.behind]
  /\ ids.setup \in Nat /\ ids.draft \in Nat

SetupsInv ==
  /\ MintedOK(mintedIds) /\ LabOK(lab, mintedIds) /\ CaptureOK(lab, capture)
  /\ labBefore = NoLab \/ (LabOK(labBefore, mintedIds) /\ Agree(labBefore, lab))

LEMMA LabsStayOK ==
  ASSUME NEW doc, NEW ids, NEW next, LabOK(doc, ids), MintedOK(ids), MintedOK(next),
         ids.setup <= next.setup, ids.draft <= next.draft
  PROVE  LabOK(doc, next)
BY DEF LabOK, MintedOK

\* A change to a document that is right, and agrees with the one it replaces.
LEMMA ChangesHold ==
  ASSUME SetupsInv, NEW doc, ChangeLab(doc), MintedOK(mintedIds'),
         mintedIds.setup <= mintedIds'.setup, mintedIds.draft <= mintedIds'.draft,
         LabOK(doc, mintedIds'), Agree(lab, doc), CaptureOK(doc, capture')
  PROVE  SetupsInv' /\ CapturesAreWhole' /\ SetupsAreFrozen
<1>1. lab' = doc /\ labBefore' = lab
  BY DEF ChangeLab
<1>2. LabOK(lab, mintedIds')
  BY LabsStayOK DEF SetupsInv
<1>3. SetupsInv'
  BY <1>1, <1>2 DEF SetupsInv
<1>4. CapturesAreWhole'
  BY <1>1 DEF CapturesAreWhole, LabOK, OfOneChart
<1>5. SetupsAreFrozen
  <2>1. \A id \in DOMAIN lab.setups \intersect DOMAIN doc.setups : doc.setups[id] = lab.setups[id]
    BY DEF Agree
  <2>2. ASSUME NEW id \in DOMAIN lab.drafts, id \in DOMAIN doc.drafts
        PROVE  lab.drafts[id].source \in DOMAIN doc.setups
    <3>1. lab.drafts[id].source = doc.drafts[id].source
      BY <2>2 DEF Agree
    <3> QED BY <2>2, <3>1 DEF LabOK
  <2> QED BY <1>1, <2>1, <2>2 DEF SetupsAreFrozen
<1> QED BY <1>3, <1>4, <1>5

LEMMA NothingChanges ==
  ASSUME SetupsInv, UNCHANGED <<lab, labBefore, mintedIds>>, CaptureOK(lab, capture')
  PROVE  SetupsInv' /\ CapturesAreWhole' /\ SetupsAreFrozen
<1>1. SetupsInv'
  BY DEF SetupsInv
<1>2. CapturesAreWhole'
  BY DEF SetupsInv, CapturesAreWhole, LabOK, OfOneChart
<1>3. SetupsAreFrozen
  BY DEF SetupsInv, SetupsAreFrozen, LabOK
<1> QED BY <1>1, <1>2, <1>3

\* Whatever changes the document moves its revision on.
LEMMA MovedIsOK ==
  ASSUME SetupsInv, Moves, NEW doc
  PROVE  CaptureOK(doc, capture')
<1>1. capture = NoCapture \/ capture = [waiting |-> TRUE, state |-> capture.state, anchor |-> capture.anchor,
                                       guarded |-> capture.guarded, moved |-> capture.moved]
  BY DEF SetupsInv, CaptureOK
<1>2. CASE capture = NoCapture
  BY <1>2 DEF Moves, CaptureOK, NoCapture
<1>3. CASE capture = [waiting |-> TRUE, state |-> capture.state, anchor |-> capture.anchor,
                     guarded |-> capture.guarded, moved |-> capture.moved]
  <2> DEFINE yes == TRUE
  <2>0. capture.waiting = yes
    BY <1>3
  <2>1. capture.waiting = yes /\ capture' = [capture EXCEPT !.moved = yes]
    BY <2>0 DEF Moves
  <2>2. capture = [waiting |-> yes, state |-> capture.state, anchor |-> capture.anchor,
                   guarded |-> capture.guarded, moved |-> capture.moved]
    BY <1>3
  <2> HIDE DEF yes
  <2>3. capture' = [waiting |-> yes, state |-> capture.state, anchor |-> capture.anchor,
                    guarded |-> capture.guarded, moved |-> yes]
    BY <2>1, <2>2
  <2> QED BY <2>3 DEF CaptureOK, yes
<1> QED BY <1>1, <1>2, <1>3

Preserved == SetupsInv' /\ CapturesAreWhole' /\ SetupsAreFrozen

LEMMA ChartChangeHolds ==
  ASSUME SetupsInv, NEW state, ConfigureChart(state)
  PROVE  Preserved
<1> DEFINE doc == [lab EXCEPT !.chart = state]
<1>1. ChangeLab(doc) /\ mintedIds' = mintedIds /\ Moves
  BY DEF ConfigureChart
<1>2. MintedOK(mintedIds) /\ LabOK(lab, mintedIds)
  BY DEF SetupsInv
<1>3. LabOK(doc, mintedIds) /\ Agree(lab, doc)
  <2>1. /\ doc = [panel |-> lab.panel, chart |-> state, setups |-> lab.setups, drafts |-> lab.drafts,
                  screener |-> lab.screener]
        /\ doc.setups = lab.setups /\ doc.drafts = lab.drafts
    BY <1>2 DEF LabOK
  <2> HIDE DEF doc
  <2> QED BY <1>2, <2>1 DEF LabOK, Agree
<1>4. CaptureOK(doc, capture')
  BY <1>1, MovedIsOK
<1> HIDE DEF doc
<1> QED BY <1>1, <1>2, <1>3, <1>4, ChangesHold DEF Preserved, MintedOK

LEMMA PanelRemovalHolds ==
  ASSUME SetupsInv, RemoveChartPanel
  PROVE  Preserved
<1> DEFINE doc == [lab EXCEPT !.panel = FALSE]
<1>1. ChangeLab(doc) /\ mintedIds' = mintedIds /\ Moves
  BY DEF RemoveChartPanel
<1>2. MintedOK(mintedIds) /\ LabOK(lab, mintedIds)
  BY DEF SetupsInv
<1>3. LabOK(doc, mintedIds) /\ Agree(lab, doc)
  <2> DEFINE no == FALSE
  <2>1. /\ doc = [panel |-> no, chart |-> lab.chart, setups |-> lab.setups, drafts |-> lab.drafts,
                  screener |-> lab.screener]
        /\ doc.setups = lab.setups /\ doc.drafts = lab.drafts
    <3>1. doc = [lab EXCEPT !.panel = no]
      OBVIOUS
    <3>2. lab = [panel |-> lab.panel, chart |-> lab.chart, setups |-> lab.setups, drafts |-> lab.drafts,
                 screener |-> lab.screener]
      BY <1>2 DEF LabOK
    <3> HIDE DEF doc, no
    <3> QED BY <3>1, <3>2
  <2> HIDE DEF no
  <2> HIDE DEF doc
  <2> QED BY <1>2, <2>1 DEF LabOK, Agree
<1>4. CaptureOK(doc, capture')
  BY <1>1, MovedIsOK
<1> HIDE DEF doc
<1> QED BY <1>1, <1>2, <1>3, <1>4, ChangesHold DEF Preserved, MintedOK

LEMMA StartHolds ==
  ASSUME SetupsInv, NEW anchor, NEW guarded, StartCapture(anchor, guarded)
  PROVE  Preserved
<1>1. CaptureOK(lab, capture')
  BY DEF StartCapture, CaptureOK
<1> QED BY <1>1, NothingChanges DEF StartCapture, Preserved

\* A guarded capture that commits found the chart it was prepared of.
LEMMA FinishHolds ==
  ASSUME SetupsInv, FinishCapture
  PROVE  Preserved
<1>1. CaptureOK(lab, capture') /\ \A doc : CaptureOK(doc, capture')
  BY DEF FinishCapture, CaptureOK, NoCapture
<1>2. CASE UNCHANGED <<lab, labBefore, mintedIds>>
  BY <1>1, <1>2, NothingChanges DEF Preserved
<1>3. CASE ~UNCHANGED <<lab, labBefore, mintedIds>>
  <2> DEFINE id == mintedIds.setup + 1
             setup == BuildCapturedSetup(lab)
             doc == [lab EXCEPT !.setups = Put(lab.setups, id, setup)]
  <2>1. /\ StillExpected /\ capture.waiting
        /\ mintedIds' = [mintedIds EXCEPT !.setup = @ + 1]
        /\ ChangeLab([lab EXCEPT !.setups = Put(@, mintedIds'.setup, setup)])
    BY <1>3 DEF FinishCapture
  <2>2. /\ MintedOK(mintedIds) /\ LabOK(lab, mintedIds)
        /\ capture = [waiting |-> TRUE, state |-> capture.state, anchor |-> capture.anchor,
                      guarded |-> capture.guarded, moved |-> capture.moved]
        /\ ~capture.moved => capture.state = lab.chart
    BY <2>1 DEF SetupsInv, CaptureOK, NoCapture
  <2>3. mintedIds' = [setup |-> id, draft |-> mintedIds.draft, filter |-> mintedIds.filter,
                      behind |-> mintedIds.behind]
    BY <2>1, <2>2 DEF MintedOK
  <2>4. mintedIds'.setup = id /\ mintedIds'.draft = mintedIds.draft
    BY <2>3
  <2>5. ChangeLab(doc)
    BY <2>1, <2>4
  <2>6. MintedOK(mintedIds') /\ id \in Nat /\ mintedIds.setup \in Nat
    BY <2>2, <2>3 DEF MintedOK
  <2>7. OfOneChart(setup)
    <3>1. /\ setup.guarded = capture.guarded
          /\ setup.instrument = lab.chart.instrument /\ setup.timeframe = lab.chart.timeframe
          /\ setup.window.of = capture.state.instrument
          /\ setup.window.timeframe = capture.state.timeframe
      BY DEF BuildCapturedSetup, SetupWindow
    <3>2. capture.guarded => capture.state = lab.chart
      BY <2>1, <2>2 DEF StillExpected
    <3> QED BY <3>1, <3>2 DEF OfOneChart
  <2> HIDE DEF setup
  <2>8. /\ DOMAIN Put(lab.setups, id, setup) = DOMAIN lab.setups \union {id}
        /\ Put(lab.setups, id, setup)[id] = setup
        /\ \A i \in DOMAIN lab.setups : i # id => Put(lab.setups, id, setup)[i] = lab.setups[i]
    BY DEF Put
  <2>9. id \notin DOMAIN lab.setups /\ DOMAIN lab.setups \subseteq 1..mintedIds.setup
    BY <2>2, <2>6 DEF LabOK
  <2>10. /\ doc = [panel |-> lab.panel, chart |-> lab.chart, setups |-> Put(lab.setups, id, setup),
                   drafts |-> lab.drafts, screener |-> lab.screener]
         /\ doc.setups = Put(lab.setups, id, setup) /\ doc.drafts = lab.drafts
    BY <2>2 DEF LabOK
  <2>11. DOMAIN doc.setups \subseteq 1..id
    BY <2>6, <2>8, <2>9, <2>10
  <2> HIDE DEF doc, id
  <2>12. LabOK(doc, mintedIds')
    BY <2>2, <2>4, <2>7, <2>8, <2>9, <2>10, <2>11 DEF LabOK
  <2>13. Agree(lab, doc)
    BY <2>8, <2>9, <2>10 DEF Agree
  <2> QED BY <1>1, <2>4, <2>5, <2>6, <2>12, <2>13, ChangesHold DEF Preserved, MintedOK, id
<1> QED BY <1>2, <1>3

LEMMA DeriveHolds ==
  ASSUME SetupsInv, NEW setupId, DeriveDraft(setupId)
  PROVE  Preserved
<1> DEFINE derived == DeriveConditions(lab.setups[setupId], mintedIds.filter)
           id == mintedIds.draft + 1
           draft == [source |-> setupId, tree |-> derived.tree, provenance |-> derived.provenance,
                     accepted |-> FALSE, edits |-> 0]
           doc == [lab EXCEPT !.drafts = Put(lab.drafts, id, draft)]
<1>1. /\ setupId \in DOMAIN lab.setups
      /\ mintedIds' = [mintedIds EXCEPT !.draft = @ + 1, !.filter = derived.last]
      /\ ChangeLab([lab EXCEPT !.drafts = Put(@, mintedIds'.draft, draft)])
      /\ Moves
  BY DEF DeriveDraft
<1>2. MintedOK(mintedIds) /\ LabOK(lab, mintedIds)
  BY DEF SetupsInv
<1>3. draft.source = setupId /\ DraftRecord(draft)
  BY DEF DraftRecord
<1> HIDE DEF derived, draft
<1>4. mintedIds' = [setup |-> mintedIds.setup, draft |-> id, filter |-> derived.last,
                    behind |-> mintedIds.behind]
  BY <1>1, <1>2 DEF MintedOK
<1>5. mintedIds'.draft = id /\ mintedIds'.setup = mintedIds.setup
  BY <1>4
<1>6. ChangeLab(doc)
  BY <1>1, <1>5
<1>7. MintedOK(mintedIds') /\ id \in Nat /\ mintedIds.draft \in Nat
  BY <1>2, <1>4 DEF MintedOK
<1>8. /\ DOMAIN Put(lab.drafts, id, draft) = DOMAIN lab.drafts \union {id}
      /\ Put(lab.drafts, id, draft)[id] = draft
      /\ \A i \in DOMAIN lab.drafts : i # id => Put(lab.drafts, id, draft)[i] = lab.drafts[i]
      /\ Put(lab.drafts, id, draft) = [i \in DOMAIN Put(lab.drafts, id, draft) |-> Put(lab.drafts, id, draft)[i]]
  BY DEF Put
<1>9. id \notin DOMAIN lab.drafts /\ DOMAIN lab.drafts \subseteq 1..mintedIds.draft
  BY <1>2, <1>7 DEF LabOK
<1>10. /\ doc = [panel |-> lab.panel, chart |-> lab.chart, setups |-> lab.setups,
                 drafts |-> Put(lab.drafts, id, draft), screener |-> lab.screener]
       /\ doc.drafts = Put(lab.drafts, id, draft) /\ doc.setups = lab.setups
  BY <1>2 DEF LabOK
<1>11. DOMAIN doc.drafts \subseteq 1..id
  BY <1>7, <1>8, <1>9, <1>10
<1>12. CaptureOK(doc, capture')
  BY <1>1, MovedIsOK
<1> HIDE DEF doc, id
<1>13. \A i \in DOMAIN doc.drafts : DraftRecord(doc.drafts[i]) /\ doc.drafts[i].source \in DOMAIN doc.setups
  BY <1>1, <1>2, <1>3, <1>8, <1>10 DEF LabOK
<1>14. LabOK(doc, mintedIds')
  BY <1>2, <1>5, <1>8, <1>10, <1>11, <1>13 DEF LabOK
<1>15. Agree(lab, doc)
  BY <1>8, <1>9, <1>10 DEF Agree
<1> QED BY <1>5, <1>6, <1>7, <1>12, <1>14, <1>15, ChangesHold DEF Preserved, MintedOK, id

\* A draft that is changed keeps its setup.
LEMMA DraftChanges ==
  ASSUME NEW doc, NEW ids, LabOK(doc, ids), NEW next, NEW id \in DOMAIN doc.drafts, NEW draft,
         DraftRecord(draft), draft.source = doc.drafts[id].source,
         next.setups = doc.setups, next.drafts = [doc.drafts EXCEPT ![id] = draft],
         next = [panel |-> next.panel, chart |-> next.chart, setups |-> next.setups, drafts |-> next.drafts,
                 screener |-> next.screener]
  PROVE  LabOK(next, ids) /\ Agree(doc, next)
<1>1. /\ DOMAIN next.drafts = DOMAIN doc.drafts
      /\ \A i \in DOMAIN doc.drafts : next.drafts[i] = IF i = id THEN draft ELSE doc.drafts[i]
      /\ next.drafts = [i \in DOMAIN next.drafts |-> next.drafts[i]]
  OBVIOUS
<1> QED BY <1>1 DEF LabOK, Agree

WithEdit(old, e, t, p) == [old EXCEPT !.edits = e, !.tree = t, !.provenance = p]

LEMMA DraftFieldsChange ==
  ASSUME NEW old, DraftRecord(old), NEW e, NEW t, NEW p
  PROVE  DraftRecord(WithEdit(old, e, t, p)) /\ WithEdit(old, e, t, p).source = old.source
<1>1. PICK s, t0, p0, a, e0 :
        old = [source |-> s, tree |-> t0, provenance |-> p0, accepted |-> a, edits |-> e0]
  BY DEF DraftRecord
<1> DEFINE one == [old EXCEPT !.edits = e]
           two == [one EXCEPT !.tree = t]
           draft == [two EXCEPT !.provenance = p]
<1>2. one = [source |-> s, tree |-> t0, provenance |-> p0, accepted |-> a, edits |-> e]
  BY <1>1
<1> HIDE DEF one
<1>3. two = [source |-> s, tree |-> t, provenance |-> p0, accepted |-> a, edits |-> e]
  BY <1>2
<1> HIDE DEF two
<1>4. draft = [source |-> s, tree |-> t, provenance |-> p, accepted |-> a, edits |-> e]
  BY <1>3
<1>5. draft = WithEdit(old, e, t, p)
  BY DEF one, two, WithEdit
<1> HIDE DEF draft
<1> QED BY <1>1, <1>4, <1>5 DEF DraftRecord

\* A draft of a document is replaced, and maybe its screener.
LEMMA LabDraftChanges ==
  ASSUME NEW doc, doc = [panel |-> doc.panel, chart |-> doc.chart, setups |-> doc.setups,
                         drafts |-> doc.drafts, screener |-> doc.screener],
         NEW id, NEW draft, NEW tree
  PROVE  /\ [doc EXCEPT !.drafts[id] = draft]
              = [panel |-> doc.panel, chart |-> doc.chart, setups |-> doc.setups,
                 drafts |-> [doc.drafts EXCEPT ![id] = draft], screener |-> doc.screener]
         /\ [doc EXCEPT !.screener = tree, !.drafts[id] = draft]
              = [panel |-> doc.panel, chart |-> doc.chart, setups |-> doc.setups,
                 drafts |-> [doc.drafts EXCEPT ![id] = draft], screener |-> tree]
<1>1. PICK p, c, s, d, t : doc = [panel |-> p, chart |-> c, setups |-> s, drafts |-> d, screener |-> t]
  OBVIOUS
<1>2. [doc EXCEPT !.drafts[id] = draft]
        = [panel |-> p, chart |-> c, setups |-> s, drafts |-> [d EXCEPT ![id] = draft], screener |-> t]
  BY <1>1
<1> DEFINE one == [doc EXCEPT !.screener = tree]
           two == [one EXCEPT !.drafts[id] = draft]
<1>3. one = [panel |-> p, chart |-> c, setups |-> s, drafts |-> d, screener |-> tree]
  BY <1>1
<1> HIDE DEF one
<1>4. two = [panel |-> p, chart |-> c, setups |-> s, drafts |-> [d EXCEPT ![id] = draft], screener |-> tree]
  BY <1>3
<1>5. two = [doc EXCEPT !.screener = tree, !.drafts[id] = draft]
  BY DEF one
<1> HIDE DEF two
<1> QED BY <1>1, <1>2, <1>4, <1>5

LEMMA EditHolds ==
  ASSUME SetupsInv, NEW draftId \in DOMAIN lab.drafts, NEW edited, EditDraft(draftId, edited)
  PROVE  Preserved
<1> DEFINE old == lab.drafts[draftId]
           draft == [old EXCEPT !.edits = @ + 1, !.tree = edited.tree, !.provenance = edited.provenance]
           doc == [lab EXCEPT !.drafts[draftId] = draft]
<1>1. ChangeLab(doc) /\ mintedIds' = [mintedIds EXCEPT !.filter = @ + edited.ids] /\ Moves
  BY DEF EditDraft
<1>2. MintedOK(mintedIds) /\ LabOK(lab, mintedIds)
  BY DEF SetupsInv
<1>3. MintedOK(mintedIds') /\ mintedIds'.setup = mintedIds.setup /\ mintedIds'.draft = mintedIds.draft
  BY <1>1, <1>2 DEF MintedOK
<1>4. DraftRecord(draft) /\ draft.source = old.source
  <2>1. DraftRecord(old)
    BY <1>2 DEF LabOK
  <2> DEFINE e == old.edits + 1
             t == edited.tree
             p == edited.provenance
  <2>2. draft = WithEdit(old, e, t, p)
    BY DEF WithEdit
  <2> HIDE DEF old, e, t, p, draft
  <2> QED BY <2>1, <2>2, DraftFieldsChange
<1>5. /\ doc = [panel |-> doc.panel, chart |-> doc.chart, setups |-> doc.setups, drafts |-> doc.drafts,
                screener |-> doc.screener]
      /\ doc.setups = lab.setups /\ doc.drafts = [lab.drafts EXCEPT ![draftId] = draft]
  <2>1. doc = [lab EXCEPT !.drafts[draftId] = draft]
    OBVIOUS
  <2>2. lab = [panel |-> lab.panel, chart |-> lab.chart, setups |-> lab.setups, drafts |-> lab.drafts,
               screener |-> lab.screener]
    BY <1>2 DEF LabOK
  <2> HIDE DEF doc, draft
  <2>3. doc = [panel |-> lab.panel, chart |-> lab.chart, setups |-> lab.setups,
               drafts |-> [lab.drafts EXCEPT ![draftId] = draft], screener |-> lab.screener]
    BY <2>1, <2>2, LabDraftChanges
  <2> QED BY <2>3
<1> HIDE DEF draft
<1>6. CaptureOK(doc, capture')
  BY <1>1, MovedIsOK
<1> HIDE DEF doc
<1>7. LabOK(doc, mintedIds) /\ Agree(lab, doc)
  BY <1>2, <1>4, <1>5, DraftChanges
<1>8. LabOK(doc, mintedIds')
  BY <1>2, <1>3, <1>7, LabsStayOK DEF MintedOK
<1> QED BY <1>1, <1>2, <1>3, <1>6, <1>7, <1>8, ChangesHold DEF Preserved, MintedOK

LEMMA AcceptHolds ==
  ASSUME SetupsInv, NEW draftId, AcceptDraft(draftId)
  PROVE  Preserved
<1> DEFINE old == lab.drafts[draftId]
           draft == [old EXCEPT !.accepted = TRUE]
           doc == [lab EXCEPT !.screener = lab.drafts[draftId].tree, !.drafts[draftId].accepted = TRUE]
<1>1. ChangeLab(doc) /\ mintedIds' = mintedIds /\ Moves /\ draftId \in DOMAIN lab.drafts
  BY DEF AcceptDraft
<1>2. MintedOK(mintedIds) /\ LabOK(lab, mintedIds)
  BY DEF SetupsInv
<1>3. DraftRecord(draft) /\ draft.source = old.source
  <2> DEFINE yes == TRUE
  <2>1. DraftRecord(old) /\ draft = [old EXCEPT !.accepted = yes]
    BY <1>1, <1>2 DEF LabOK
  <2> HIDE DEF old, draft, yes
  <2> QED BY <2>1 DEF DraftRecord
<1>4. /\ doc = [panel |-> doc.panel, chart |-> doc.chart, setups |-> doc.setups, drafts |-> doc.drafts,
                screener |-> doc.screener]
      /\ doc.setups = lab.setups /\ doc.drafts = [lab.drafts EXCEPT ![draftId] = draft]
  <2> DEFINE tree == lab.drafts[draftId].tree
  <2>1. doc = [lab EXCEPT !.screener = tree, !.drafts[draftId] = draft]
    OBVIOUS
  <2>2. lab = [panel |-> lab.panel, chart |-> lab.chart, setups |-> lab.setups, drafts |-> lab.drafts,
               screener |-> lab.screener]
    BY <1>2 DEF LabOK
  <2> HIDE DEF doc, draft, tree
  <2>3. doc = [panel |-> lab.panel, chart |-> lab.chart, setups |-> lab.setups,
               drafts |-> [lab.drafts EXCEPT ![draftId] = draft], screener |-> tree]
    BY <2>1, <2>2, LabDraftChanges
  <2> QED BY <2>3
<1>5. CaptureOK(doc, capture')
  BY <1>1, MovedIsOK
<1> HIDE DEF doc, draft
<1>6. LabOK(doc, mintedIds) /\ Agree(lab, doc)
  BY <1>1, <1>2, <1>3, <1>4, DraftChanges
<1> QED BY <1>1, <1>2, <1>5, <1>6, ChangesHold DEF Preserved, MintedOK

LEMMA UndoHolds ==
  ASSUME SetupsInv, UndoSetup
  PROVE  Preserved
<1>1. ChangeLab(labBefore) /\ mintedIds' = mintedIds /\ Moves
  BY DEF UndoSetup
<1>2. MintedOK(mintedIds) /\ LabOK(labBefore, mintedIds) /\ Agree(labBefore, lab)
  BY DEF SetupsInv, UndoSetup
<1>3. Agree(lab, labBefore)
  BY <1>2 DEF Agree
<1>4. CaptureOK(labBefore, capture')
  BY <1>1, MovedIsOK
<1> QED BY <1>1, <1>2, <1>3, <1>4, ChangesHold DEF Preserved, MintedOK

\* The counters of a page that is loaded are ahead of what is stored.
LEMMA SeedsAre ==
  ASSUME NEW n \in Nat, NEW S \in SUBSET (1..n)
  PROVE  Max(S \union {0}) \in Nat /\ S \subseteq 1..Max(S \union {0})
<1>1. IsFiniteSet(S \union {0})
  <2>1. IsFiniteSet(1..n)
    BY FS_Interval
  <2>2. IsFiniteSet(S) /\ IsFiniteSet({0})
    BY <2>1, FS_Subset, FS_Singleton
  <2> QED BY <2>2, FS_Union
<1>2. S \union {0} \in SUBSET Int /\ S \union {0} # {}
  OBVIOUS
<1> DEFINE m == Max(S \union {0})
<1>3. m \in S \union {0} /\ \A k \in S \union {0} : k <= m
  BY <1>1, <1>2, EndsAre
<1> HIDE DEF m
<1>4. m \in Nat
  BY <1>3
<1>5. \A k \in S : k \in 1..m
  BY <1>3, <1>4
<1> QED BY <1>4, <1>5 DEF m

LEMMA ReloadHolds ==
  ASSUME SetupsInv, ReloadSetups
  PROVE  Preserved
<1>1. /\ mintedIds' = [setup |-> SetupSeed(lab), draft |-> DraftSeed(lab), filter |-> 0,
                       behind |-> DOMAIN lab.drafts # {}]
      /\ labBefore' = NoLab /\ capture' = NoCapture /\ lab' = lab
  BY DEF ReloadSetups
<1>2. MintedOK(mintedIds) /\ LabOK(lab, mintedIds)
  BY DEF SetupsInv
<1>3. /\ SetupSeed(lab) \in Nat /\ DOMAIN lab.setups \subseteq 1..SetupSeed(lab)
      /\ DraftSeed(lab) \in Nat /\ DOMAIN lab.drafts \subseteq 1..DraftSeed(lab)
  BY <1>2, SeedsAre DEF LabOK, MintedOK, SetupSeed, DraftSeed
<1>4. MintedOK(mintedIds')
  BY <1>1, <1>3 DEF MintedOK
<1>5. LabOK(lab, mintedIds')
  BY <1>1, <1>2, <1>3 DEF LabOK
<1>6. CaptureOK(lab, capture')
  BY <1>1 DEF CaptureOK, NoCapture
<1>7. SetupsInv'
  BY <1>1, <1>4, <1>5, <1>6 DEF SetupsInv
<1>8. CapturesAreWhole'
  BY <1>1, <1>2 DEF CapturesAreWhole, LabOK, OfOneChart
<1>9. SetupsAreFrozen
  BY <1>1, <1>2 DEF SetupsAreFrozen, LabOK
<1> QED BY <1>7, <1>8, <1>9 DEF Preserved

LEMMA SetupsInvInit == SetupsInit => SetupsInv
<1> SUFFICES ASSUME SetupsInit PROVE SetupsInv
  OBVIOUS
<1>1. PICK state \in ChartStates :
        lab = [panel |-> TRUE, chart |-> state, setups |-> Empty, drafts |-> Empty, screener |-> NoTree]
  BY DEF SetupsInit
<1>2. labBefore = NoLab /\ mintedIds = [setup |-> 0, draft |-> 0, filter |-> 0, behind |-> FALSE]
      /\ capture = NoCapture
  BY DEF SetupsInit
<1>3. DOMAIN Empty = {} /\ Empty = [id \in DOMAIN Empty |-> Empty[id]]
  BY DEF Empty
<1>4. LabOK(lab, mintedIds)
  BY <1>1, <1>3 DEF LabOK
<1>5. MintedOK(mintedIds) /\ CaptureOK(lab, capture)
  BY <1>2 DEF MintedOK, CaptureOK, NoCapture
<1> QED BY <1>2, <1>4, <1>5 DEF SetupsInv

LEMMA SetupsStep == SetupsInv /\ [SetupsNext]_setupVars => Preserved
<1> SUFFICES ASSUME SetupsInv, [SetupsNext]_setupVars PROVE Preserved
  OBVIOUS
<1>1. CASE \E state \in ChartStates : ConfigureChart(state)
  BY <1>1, ChartChangeHolds
<1>2. CASE RemoveChartPanel
  BY <1>2, PanelRemovalHolds
<1>3. CASE \E anchor \in Anchors \union {NoAnchor}, guarded \in BOOLEAN : StartCapture(anchor, guarded)
  BY <1>3, StartHolds
<1>4. CASE FinishCapture
  BY <1>4, FinishHolds
<1>5. CASE FailCapture
  <2>1. UNCHANGED <<lab, labBefore, mintedIds>> /\ CaptureOK(lab, capture')
    BY <1>5 DEF FailCapture, CaptureOK, NoCapture
  <2> QED BY <2>1, NothingChanges DEF Preserved
<1>6. CASE \E id \in 1..MaxSetups : DeriveDraft(id)
  BY <1>6, DeriveHolds
<1>7. CASE \E id \in DOMAIN lab.drafts :
             Editable(id) /\ \E edited \in EditsOfDraft(lab.drafts[id], mintedIds.filter) : EditDraft(id, edited)
  BY <1>7, EditHolds
<1>8. CASE \E id \in DOMAIN lab.drafts : AcceptDraft(id)
  BY <1>8, AcceptHolds
<1>9. CASE UndoSetup
  BY <1>9, UndoHolds
<1>10. CASE ReloadSetups
  BY <1>10, ReloadHolds
<1>11. CASE UNCHANGED setupVars
  <2>1. UNCHANGED <<lab, labBefore, mintedIds>> /\ CaptureOK(lab, capture')
    BY <1>11 DEF setupVars, SetupsInv
  <2> QED BY <2>1, NothingChanges DEF Preserved
<1> QED BY <1>1, <1>2, <1>3, <1>4, <1>5, <1>6, <1>7, <1>8, <1>9, <1>10, <1>11 DEF SetupsNext

\* Whatever is captured, derived, edited, accepted, undone and reloaded, over
\* any trees and edits of the drafts: a guarded capture is of one chart, an id
\* never names another setup, and no setup goes from under a draft that stays.
THEOREM SetupsAlwaysHold == SetupsSpec => SetupsHold
<1>1. SetupsInv /\ [SetupsNext]_setupVars => SetupsInv' /\ [CapturesAreWhole' /\ SetupsAreFrozen]_setupVars
  BY SetupsStep DEF Preserved
<1> QED BY <1>1, SetupsInvInit, PTL DEF SetupsHold, SetupsSpec

-----------------------------------------------------------------------------
(* Lists: what is picked from one, put into one, and joined to another.    *)

IsList(s) == s \in Seq(ToSet(s))

LEMMA ListsAre ==
  ASSUME NEW n \in Nat, NEW s, s = [i \in 1..n |-> s[i]]
  PROVE  IsList(s) /\ Len(s) = n /\ DOMAIN s = 1..n
<1>1. DOMAIN s = 1..n
  OBVIOUS
<1>2. \A i \in 1..n : s[i] \in ToSet(s)
  BY <1>1 DEF ToSet
<1>3. s \in [1..n -> ToSet(s)]
  BY <1>2
<1>4. s \in Seq(ToSet(s)) /\ Len(s) = n
  BY <1>3
<1> QED BY <1>1, <1>4 DEF IsList

LEMMA ListHas ==
  ASSUME NEW s, IsList(s)
  PROVE  Len(s) \in Nat /\ DOMAIN s = 1..Len(s) /\ s = [i \in 1..Len(s) |-> s[i]]
BY DEF IsList

LEMMA SequencesAreLists ==
  ASSUME NEW S, NEW s \in Seq(S)
  PROVE  IsList(s)
<1> DEFINE n == Len(s)
<1>1. n \in Nat /\ s = [i \in 1..n |-> s[i]]
  OBVIOUS
<1> HIDE DEF n
<1> QED BY <1>1, ListsAre

\* All the entries, in their order, are the list itself.
LEMMA AllPicked ==
  ASSUME NEW s, IsList(s)
  PROVE  Picked(s, DOMAIN s) = s
<1> DEFINE n == Len(s)
           P == 1..n
           c == Cardinality(P)
           r == Picked(s, P)
<1>1. n \in Nat /\ DOMAIN s = P
  BY ListHas
<1> HIDE DEF n
<1>2. P \in SUBSET (1..n)
  OBVIOUS
<1>3. /\ r = [m \in 1..c |-> r[m]]
      /\ \A i \in P : r[Rank(P, i) + 1] = s[i]
  <2> HIDE DEF P
  <2> QED BY <1>1, <1>2, PickedIs
<1>4. c = n /\ \A i \in 1..n : Rank(P, i) = i - 1
  BY <1>1, IntervalRanks
<1> HIDE DEF c, r
<1>5. ASSUME NEW i \in 1..n PROVE r[i] = s[i]
  <2>1. Rank(P, i) + 1 = i
    BY <1>4
  <2> QED BY <1>3, <2>1
<1>6. DOMAIN r = 1..n /\ r = [m \in 1..n |-> r[m]]
  BY <1>3, <1>4
<1>7. s = [m \in 1..n |-> s[m]]
  BY ListHas DEF n
<1>8. r = s
  BY <1>5, <1>6, <1>7
<1> QED BY <1>1, <1>8 DEF r

\* The entries of s at the places P appear in t, in their order.
Carries(s, P, t) ==
  /\ \A i \in P : \E m \in DOMAIN t : t[m] = s[i]
  /\ \A i, j \in P : i < j => \E m, k \in DOMAIN t : m < k /\ t[m] = s[i] /\ t[k] = s[j]
UniqueIds(s) == \A i, j \in DOMAIN s : s[i].id = s[j].id => i = j

LEMMA PickedCarries ==
  ASSUME NEW s, IsList(s), NEW P \in SUBSET DOMAIN s
  PROVE  LET r == Picked(s, P)
         IN  /\ IsList(r) /\ Carries(s, P, r)
             /\ \A m \in DOMAIN r : \E i \in P : r[m] = s[i]
             /\ UniqueIds(s) => UniqueIds(r)
<1> DEFINE n == Len(s)
           r == Picked(s, P)
           c == Cardinality(P)
           at == Ascending(P)
<1>1. n \in Nat /\ DOMAIN s = 1..n /\ P \in SUBSET (1..n)
  BY ListHas
<1>2. /\ c \in Nat /\ r = [m \in 1..c |-> r[m]]
      /\ \A m \in 1..c : at[m] \in P /\ r[m] = s[at[m]]
      /\ \A m, k \in 1..c : m < k => at[m] < at[k]
      /\ \A i \in P : Rank(P, i) + 1 \in 1..c /\ r[Rank(P, i) + 1] = s[i]
      /\ \A i, j \in P : i < j => Rank(P, i) + 1 < Rank(P, j) + 1
  <2> HIDE DEF n
  <2> QED BY <1>1, PickedIs
<1> HIDE DEF r, c, at
<1>3. IsList(r) /\ DOMAIN r = 1..c
  BY <1>2, ListsAre
<1>4. Carries(s, P, r)
  BY <1>2, <1>3 DEF Carries
<1>5. \A m \in DOMAIN r : \E i \in P : r[m] = s[i]
  BY <1>2, <1>3
<1>6. ASSUME UniqueIds(s) PROVE UniqueIds(r)
  <2>1. \A i \in P : i \in Int /\ i \in DOMAIN s
    BY <1>1
  <2>2. ASSUME NEW m \in 1..c, NEW k \in 1..c, r[m].id = r[k].id PROVE m = k
    <3>1. at[m] \in P /\ at[k] \in P /\ s[at[m]].id = s[at[k]].id
      BY <1>2, <2>2
    <3>2. at[m] = at[k] /\ at[m] \in Int
      BY <1>6, <2>1, <3>1 DEF UniqueIds
    <3>3. ~(at[m] < at[k]) /\ ~(at[k] < at[m])
      BY <3>2
    <3>4. ~(m < k) /\ ~(k < m)
      BY <1>2, <3>3
    <3> QED BY <1>2, <3>4
  <2> QED BY <2>2, <1>3 DEF UniqueIds
<1> QED BY <1>3, <1>4, <1>5, <1>6 DEF r

LEMMA JoinedIs ==
  ASSUME NEW u, IsList(u), NEW v, IsList(v)
  PROVE  LET t == u \o v
         IN  /\ IsList(t) /\ DOMAIN t = 1..(Len(u) + Len(v))
             /\ \A m \in DOMAIN u : m \in DOMAIN t /\ t[m] = u[m]
             /\ \A m \in DOMAIN v : Len(u) + m \in DOMAIN t /\ t[Len(u) + m] = v[m]
             /\ \A m \in DOMAIN t : m \notin DOMAIN u => m - Len(u) \in DOMAIN v /\ t[m] = v[m - Len(u)]
<1> DEFINE S == ToSet(u) \union ToSet(v)
           t == u \o v
           a == Len(u)
           b == Len(v)
<1>1. u \in Seq(S) /\ v \in Seq(S)
  BY DEF IsList
<1>2. a \in Nat /\ b \in Nat /\ DOMAIN u = 1..a /\ DOMAIN v = 1..b
  BY ListHas
<1>3. t \in Seq(S) /\ Len(t) = a + b /\ \A m \in 1..(a + b) : t[m] = IF m <= a THEN u[m] ELSE v[m - a]
  BY <1>1, <1>2
<1> HIDE DEF S, t, a, b
<1>4. t = [m \in 1..(a + b) |-> t[m]] /\ a + b \in Nat
  BY <1>2, <1>3
<1>5. IsList(t) /\ DOMAIN t = 1..(a + b)
  BY <1>4, ListsAre
<1>6. \A m \in 1..a : m \in 1..(a + b) /\ t[m] = u[m]
  BY <1>2, <1>3
<1>7. \A m \in 1..b : a + m \in 1..(a + b) /\ t[a + m] = v[m]
  <2>1. ASSUME NEW m \in 1..b PROVE a + m \in 1..(a + b) /\ t[a + m] = v[m]
    <3>1. a + m \in 1..(a + b) /\ ~(a + m <= a) /\ (a + m) - a = m
      BY <1>2
    <3> QED BY <3>1, <1>3
  <2> QED BY <2>1
<1>8. \A m \in 1..(a + b) : m \notin 1..a => m - a \in 1..b /\ t[m] = v[m - a]
  <2>1. ASSUME NEW m \in 1..(a + b), m \notin 1..a PROVE m - a \in 1..b /\ t[m] = v[m - a]
    <3>1. ~(m <= a) /\ m - a \in 1..b
      BY <1>2, <2>1
    <3> QED BY <3>1, <1>3
  <2> QED BY <2>1
<1> QED BY <1>2, <1>5, <1>6, <1>7, <1>8 DEF a, b, t

LEMMA JoinedCarries ==
  ASSUME NEW s, NEW A, NEW B, NEW u, IsList(u), NEW v, IsList(v), Carries(s, A, u), Carries(s, B, v)
  PROVE  LET t == u \o v
         IN  /\ IsList(t) /\ Carries(s, A, t) /\ Carries(s, B, t)
             /\ \A m \in DOMAIN t : (\E i \in DOMAIN u : t[m] = u[i]) \/ (\E i \in DOMAIN v : t[m] = v[i])
             /\ (UniqueIds(u) /\ UniqueIds(v) /\ \A i \in DOMAIN u, j \in DOMAIN v : u[i].id # v[j].id)
                  => UniqueIds(t)
<1> DEFINE t == u \o v
           a == Len(u)
           b == Len(v)
<1>1. a \in Nat /\ b \in Nat /\ DOMAIN u = 1..a /\ DOMAIN v = 1..b
  BY ListHas
<1>2. /\ IsList(t) /\ DOMAIN t = 1..(a + b)
      /\ \A m \in DOMAIN u : m \in DOMAIN t /\ t[m] = u[m]
      /\ \A m \in DOMAIN v : a + m \in DOMAIN t /\ t[a + m] = v[m]
      /\ \A m \in DOMAIN t : m \notin DOMAIN u => m - a \in DOMAIN v /\ t[m] = v[m - a]
  BY JoinedIs
<1> HIDE DEF t, a, b
<1>3. Carries(s, A, t)
  <2>1. ASSUME NEW i \in A PROVE \E m \in DOMAIN t : t[m] = s[i]
    BY <1>2 DEF Carries
  <2>2. ASSUME NEW i \in A, NEW j \in A, i < j
        PROVE  \E m, k \in DOMAIN t : m < k /\ t[m] = s[i] /\ t[k] = s[j]
    <3>1. PICK m \in DOMAIN u, k \in DOMAIN u : m < k /\ u[m] = s[i] /\ u[k] = s[j]
      BY <2>2 DEF Carries
    <3> QED BY <3>1, <1>2
  <2> QED BY <2>1, <2>2 DEF Carries
<1>4. Carries(s, B, t)
  <2>1. ASSUME NEW i \in B PROVE \E m \in DOMAIN t : t[m] = s[i]
    <3>1. PICK m \in DOMAIN v : v[m] = s[i]
      BY DEF Carries
    <3> QED BY <3>1, <1>2
  <2>2. ASSUME NEW i \in B, NEW j \in B, i < j
        PROVE  \E m, k \in DOMAIN t : m < k /\ t[m] = s[i] /\ t[k] = s[j]
    <3>1. PICK m \in DOMAIN v, k \in DOMAIN v : m < k /\ v[m] = s[i] /\ v[k] = s[j]
      BY <2>2 DEF Carries
    <3>2. a + m < a + k
      BY <1>1, <3>1
    <3> QED BY <3>1, <3>2, <1>2
  <2> QED BY <2>1, <2>2 DEF Carries
<1>5. \A m \in DOMAIN t : (\E i \in DOMAIN u : t[m] = u[i]) \/ (\E i \in DOMAIN v : t[m] = v[i])
  BY <1>2
<1>6. ASSUME UniqueIds(u), UniqueIds(v), \A i \in DOMAIN u, j \in DOMAIN v : u[i].id # v[j].id
      PROVE  UniqueIds(t)
  <2>1. ASSUME NEW m \in DOMAIN t, NEW k \in DOMAIN t, t[m].id = t[k].id PROVE m = k
    <3>1. CASE m \in DOMAIN u /\ k \in DOMAIN u
      BY <3>1, <2>1, <1>2, <1>6 DEF UniqueIds
    <3>2. CASE m \in DOMAIN u /\ k \notin DOMAIN u
      BY <3>2, <2>1, <1>2, <1>6
    <3>3. CASE m \notin DOMAIN u /\ k \in DOMAIN u
      BY <3>3, <2>1, <1>2, <1>6
    <3>4. CASE m \notin DOMAIN u /\ k \notin DOMAIN u
      <4>1. m - a = k - a
        BY <3>4, <2>1, <1>2, <1>6 DEF UniqueIds
      <4>2. m \in Int /\ k \in Int
        BY <1>1, <1>2
      <4> QED BY <4>1, <4>2, <1>1
    <3> QED BY <3>1, <3>2, <3>3, <3>4
  <2> QED BY <2>1 DEF UniqueIds
<1> QED BY <1>2, <1>3, <1>4, <1>5, <1>6 DEF t

LEMMA InsertedIs ==
  ASSUME NEW s, IsList(s), NEW p \in 1..(Len(s) + 1), NEW x
  PROVE  LET t == InsertAt(s, p, x)
         IN  /\ IsList(t) /\ DOMAIN t = 1..(Len(s) + 1)
             /\ \A m \in DOMAIN t : t[m] = IF m < p THEN s[m] ELSE IF m = p THEN x ELSE s[m - 1]
<1> DEFINE n == Len(s)
           S == ToSet(s) \union {x}
           u == SubSeq(s, 1, p - 1)
           w == <<x>>
           v == SubSeq(s, p, n)
           uw == u \o w
           t == InsertAt(s, p, x)
<1>0. p \in 1..(n + 1) /\ n \in Nat
  BY ListHas
<1>1. s \in Seq(S) /\ x \in S /\ DOMAIN s = 1..n
  BY ListHas DEF IsList
<1>2. u \in Seq(S) /\ Len(u) = p - 1 /\ \A m \in 1..(p - 1) : u[m] = s[m]
  BY <1>0, <1>1
<1>3. v \in Seq(S) /\ Len(v) = n - p + 1 /\ \A m \in 1..(n - p + 1) : v[m] = s[p + m - 1]
  BY <1>0, <1>1
<1>4. w \in Seq(S) /\ Len(w) = 1 /\ w[1] = x
  BY <1>1
<1>5. t = uw \o v
  BY DEF InsertAt
<1> HIDE DEF n, S, u, v, w, t
<1>6. IsList(u) /\ IsList(v) /\ IsList(w)
  BY <1>2, <1>3, <1>4, SequencesAreLists
<1>7. DOMAIN u = 1..(p - 1) /\ DOMAIN v = 1..(n - p + 1) /\ DOMAIN w = 1..1
  <2>1. DOMAIN u = 1..Len(u) /\ DOMAIN v = 1..Len(v) /\ DOMAIN w = 1..Len(w)
    BY <1>6, ListHas
  <2> QED BY <2>1, <1>2, <1>3, <1>4
<1>8. /\ IsList(uw) /\ DOMAIN uw = 1..(Len(u) + Len(w))
      /\ \A m \in DOMAIN u : m \in DOMAIN uw /\ uw[m] = u[m]
      /\ \A m \in DOMAIN w : Len(u) + m \in DOMAIN uw /\ uw[Len(u) + m] = w[m]
  BY <1>6, JoinedIs
<1> HIDE DEF uw
<1>9. DOMAIN uw = 1..p /\ Len(uw) = p /\ uw[p] = x /\ \A m \in 1..(p - 1) : uw[m] = s[m]
  <2>1. Len(u) + Len(w) = p /\ Len(u) + 1 = p
    BY <1>0, <1>2, <1>4
  <2>2. DOMAIN uw = 1..p
    BY <1>8, <2>1
  <2>3. uw[p] = x
    <3>1. 1 \in DOMAIN w
      BY <1>7
    <3> QED BY <3>1, <2>1, <1>4, <1>8
  <2>4. \A m \in 1..(p - 1) : uw[m] = s[m]
    BY <1>2, <1>7, <1>8
  <2>5. Len(uw) = p
    <3>1. Len(uw) \in Nat /\ 1..Len(uw) = 1..p
      BY <1>8, <2>2, ListHas
    <3>2. uw \in Seq(ToSet(uw))
      BY <1>8 DEF IsList
    <3> QED BY <3>2, <2>2, <1>0
  <2> QED BY <2>2, <2>3, <2>4, <2>5
<1>10. /\ IsList(t) /\ DOMAIN t = 1..(Len(uw) + Len(v))
       /\ \A m \in DOMAIN uw : m \in DOMAIN t /\ t[m] = uw[m]
       /\ \A m \in DOMAIN t : m \notin DOMAIN uw => m - Len(uw) \in DOMAIN v /\ t[m] = v[m - Len(uw)]
  <2>1. /\ IsList(uw \o v) /\ DOMAIN (uw \o v) = 1..(Len(uw) + Len(v))
        /\ \A m \in DOMAIN uw : m \in DOMAIN (uw \o v) /\ (uw \o v)[m] = uw[m]
        /\ \A m \in DOMAIN v : Len(uw) + m \in DOMAIN (uw \o v) /\ (uw \o v)[Len(uw) + m] = v[m]
        /\ \A m \in DOMAIN (uw \o v) :
             m \notin DOMAIN uw => m - Len(uw) \in DOMAIN v /\ (uw \o v)[m] = v[m - Len(uw)]
    BY <1>6, <1>8, JoinedIs
  <2> QED BY <2>1, <1>5
<1>11. DOMAIN t = 1..(n + 1)
  <2>1. Len(uw) + Len(v) = n + 1
    BY <1>0, <1>3, <1>9
  <2> QED BY <2>1, <1>10
<1>12. ASSUME NEW m \in 1..(n + 1) PROVE t[m] = IF m < p THEN s[m] ELSE IF m = p THEN x ELSE s[m - 1]
  <2>1. CASE m <= p
    <3>1. m \in DOMAIN uw /\ t[m] = uw[m]
      BY <2>1, <1>0, <1>9, <1>10
    <3>2. m = p \/ m \in 1..(p - 1)
      BY <2>1, <1>0
    <3> QED BY <3>1, <3>2, <1>0, <1>9
  <2>2. CASE ~(m <= p)
    <3>1. m \notin DOMAIN uw /\ m \in DOMAIN t /\ m - p \in 1..(n - p + 1)
      BY <2>2, <1>0, <1>9, <1>11
    <3>2. t[m] = v[m - p]
      BY <3>1, <1>9, <1>10
    <3>3. v[m - p] = s[p + (m - p) - 1]
      BY <3>1, <1>3
    <3>4. p + (m - p) - 1 = m - 1
      BY <1>0
    <3> QED BY <3>2, <3>3, <3>4, <2>2, <1>0
  <2> QED BY <2>1, <2>2
<1> QED BY <1>10, <1>11, <1>12 DEF t, n

LEMMA InsertedCarries ==
  ASSUME NEW s, NEW P, NEW u, IsList(u), Carries(s, P, u), NEW p \in 1..(Len(u) + 1), NEW x
  PROVE  LET t == InsertAt(u, p, x)
         IN  /\ IsList(t) /\ Carries(s, P, t)
             /\ \A m \in DOMAIN t : t[m] = x \/ \E i \in DOMAIN u : t[m] = u[i]
             /\ (UniqueIds(u) /\ \A i \in DOMAIN u : u[i].id # x.id) => UniqueIds(t)
<1> DEFINE n == Len(u)
           t == InsertAt(u, p, x)
           to(m) == IF m < p THEN m ELSE m + 1
<1>1. n \in Nat /\ DOMAIN u = 1..n
  BY ListHas
<1>2. /\ IsList(t) /\ DOMAIN t = 1..(n + 1)
      /\ \A m \in DOMAIN t : t[m] = IF m < p THEN u[m] ELSE IF m = p THEN x ELSE u[m - 1]
  BY InsertedIs
<1> HIDE DEF t, n
<1>3. \A m \in 1..n : to(m) \in 1..(n + 1) /\ t[to(m)] = u[m]
  <2>1. ASSUME NEW m \in 1..n PROVE to(m) \in 1..(n + 1) /\ t[to(m)] = u[m]
    <3>1. CASE m < p
      BY <3>1, <1>1, <1>2
    <3>2. CASE ~(m < p)
      <4>1. m + 1 \in 1..(n + 1) /\ ~(m + 1 < p) /\ m + 1 # p /\ (m + 1) - 1 = m
        BY <3>2, <1>1
      <4> QED BY <4>1, <3>2, <1>2
    <3> QED BY <3>1, <3>2
  <2> QED BY <2>1
<1>4. \A m, k \in 1..n : m < k => to(m) < to(k)
  BY <1>1
<1>5. \A m \in 1..(n + 1) : m # p => \E i \in 1..n : m = to(i) /\ t[m] = u[i]
  <2>1. ASSUME NEW m \in 1..(n + 1), m # p PROVE \E i \in 1..n : m = to(i) /\ t[m] = u[i]
    <3>1. CASE m < p
      <4>1. m \in 1..n
        BY <3>1, <1>1, n = Len(u) DEF n
      <4> QED BY <4>1, <3>1, <1>2
    <3>2. CASE ~(m < p)
      <4>1. m - 1 \in 1..n /\ ~(m - 1 < p) /\ (m - 1) + 1 = m
        BY <3>2, <2>1, <1>1
      <4> QED BY <4>1, <3>2, <2>1, <1>2
    <3> QED BY <3>1, <3>2
  <2> QED BY <2>1
<1>6. p \in 1..(n + 1) /\ t[p] = x
  BY <1>1, <1>2 DEF n
<1> HIDE DEF to
<1>7. Carries(s, P, t)
  <2>1. ASSUME NEW i \in P PROVE \E m \in DOMAIN t : t[m] = s[i]
    <3>1. PICK m \in DOMAIN u : u[m] = s[i]
      BY DEF Carries
    <3> QED BY <3>1, <1>1, <1>2, <1>3
  <2>2. ASSUME NEW i \in P, NEW j \in P, i < j
        PROVE  \E m, k \in DOMAIN t : m < k /\ t[m] = s[i] /\ t[k] = s[j]
    <3>1. PICK m \in DOMAIN u, k \in DOMAIN u : m < k /\ u[m] = s[i] /\ u[k] = s[j]
      BY <2>2 DEF Carries
    <3> QED BY <3>1, <1>1, <1>2, <1>3, <1>4
  <2> QED BY <2>1, <2>2 DEF Carries
<1>8. \A m \in DOMAIN t : t[m] = x \/ \E i \in DOMAIN u : t[m] = u[i]
  BY <1>1, <1>2, <1>5, <1>6
<1>9. ASSUME UniqueIds(u), \A i \in DOMAIN u : u[i].id # x.id PROVE UniqueIds(t)
  <2>1. ASSUME NEW m \in 1..(n + 1), NEW k \in 1..(n + 1), t[m].id = t[k].id PROVE m = k
    <3>1. CASE m = p /\ k # p
      BY <3>1, <2>1, <1>1, <1>5, <1>6, <1>9
    <3>2. CASE m # p /\ k = p
      BY <3>2, <2>1, <1>1, <1>5, <1>6, <1>9
    <3>3. CASE m # p /\ k # p
      <4>1. PICK i \in 1..n : m = to(i) /\ t[m] = u[i]
        BY <3>3, <1>5
      <4>2. PICK j \in 1..n : k = to(j) /\ t[k] = u[j]
        BY <3>3, <1>5
      <4>3. i = j
        BY <4>1, <4>2, <2>1, <1>1, <1>9 DEF UniqueIds
      <4> QED BY <4>1, <4>2, <4>3
    <3> QED BY <3>1, <3>2, <3>3
  <2> QED BY <2>1, <1>2 DEF UniqueIds
<1> QED BY <1>2, <1>7, <1>8, <1>9 DEF t

-----------------------------------------------------------------------------
(* ChartSources.  A chart of the document has every field, and compares with *)
(* no instrument twice.                                                      *)

ChartFields == DOMAIN DefaultChart \union {"instrument", "comparisons"}
ChartOK(chart) ==
  /\ chart = [f \in ChartFields |-> chart[f]]
  /\ IsList(chart.comparisons) /\ IsInjective(chart.comparisons)
DocOK(doc) ==
  /\ doc = [panels |-> doc.panels, extension |-> doc.extension]
  /\ \A p \in DOMAIN doc.extension : ChartOK(doc.extension[p])
SourcesInv == DocOK(charts) /\ DocOK(chartsBefore)

LEMMA RemainingIs ==
  ASSUME NEW s, NEW id, IsList(s), IsInjective(s)
  PROVE  IsList(Remaining(s, id)) /\ IsInjective(Remaining(s, id))
<1> DEFINE P == {i \in DOMAIN s : s[i] # id}
           at == Ascending(P)
           c == Cardinality(P)
           r == Remaining(s, id)
<1>1. DOMAIN s = 1..Len(s) /\ Len(s) \in Nat
  BY DEF IsList
<1>2. P \in SUBSET (1..Len(s))
  BY <1>1
<1>3. P \in SUBSET Int /\ IsFiniteSet(P)
  <2>1. IsFiniteSet(1..Len(s)) /\ 1..Len(s) \in SUBSET Int
    BY <1>1, FS_Interval
  <2> HIDE DEF P
  <2>2. P \in SUBSET Int
    BY <2>1, <1>2
  <2> QED BY <2>1, <2>2, <1>2, FS_Subset
<1>4. r = [n \in 1..c |-> s[at[n]]]
  BY DEF Remaining, Picked
<1> HIDE DEF P, at, c, r
<1>5. /\ c \in Nat /\ at \in [1..c -> P]
      /\ \A m, n \in 1..c : m < n => at[m] < at[n]
  BY <1>3, AscendingEnumerates DEF at, c
<1>6. r = [n \in 1..c |-> s[at[n]]]
  BY <1>4
<1>7. IsList(r)
  <2>1. r = [n \in 1..c |-> r[n]]
    BY <1>6
  <2> QED BY <2>1, <1>5, ListsAre
<1>8. ASSUME NEW m \in 1..c, NEW n \in 1..c, r[m] = r[n] PROVE m = n
  <2>0. at[m] \in P /\ at[n] \in P
    BY <1>5
  <2>1. at[m] \in DOMAIN s /\ at[n] \in DOMAIN s /\ at[m] \in Int /\ at[n] \in Int
    <3>1. \A i \in P : i \in 1..Len(s)
      BY <1>2
    <3>2. \A i \in P : i \in DOMAIN s /\ i \in Int
      BY <3>1, <1>1
    <3> QED BY <2>0, <3>2
  <2>2. at[m] = at[n]
    BY <2>1, <1>6, <1>8 DEF IsInjective
  <2>3. ~(m < n) /\ ~(n < m)
    BY <2>1, <2>2, <1>5
  <2> QED BY <2>3, <1>5
<1>9. DOMAIN r = 1..c
  BY <1>6
<1> QED BY <1>7, <1>8, <1>9 DEF IsInjective, r

LEMMA AppendIs ==
  ASSUME NEW s, NEW id, IsList(s), IsInjective(s), id \notin ToSet(s)
  PROVE  /\ IsList(Append(s, id)) /\ IsInjective(Append(s, id))
         /\ ToSet(Append(s, id)) = ToSet(s) \union {id}
<1> DEFINE n == Len(s)
           t == Append(s, id)
<1>1. n \in Nat /\ DOMAIN s = 1..n /\ s \in Seq(ToSet(s))
  BY DEF IsList
<1>2. /\ DOMAIN t = 1..(n + 1) /\ t[n + 1] = id /\ \A i \in 1..n : t[i] = s[i]
      /\ t = [i \in 1..(n + 1) |-> t[i]]
  <2>1. s \in Seq(ToSet(s) \union {id}) /\ id \in ToSet(s) \union {id}
    BY <1>1
  <2>2. t \in Seq(ToSet(s) \union {id}) /\ Len(t) = n + 1 /\ t[n + 1] = id /\ \A i \in 1..n : t[i] = s[i]
    BY <2>1
  <2> HIDE DEF t
  <2> QED BY <2>2
<1> HIDE DEF n, t
<1>3. IsList(t)
  BY <1>1, <1>2, ListsAre
<1>4. \A i \in 1..n : s[i] \in ToSet(s) /\ s[i] # id
  BY <1>1 DEF ToSet
<1>5. IsInjective(t)
  <2>1. ASSUME NEW i \in 1..(n + 1), NEW j \in 1..(n + 1), t[i] = t[j] PROVE i = j
    <3>1. CASE i = n + 1 /\ j # n + 1
      <4>1. j \in 1..n
        BY <3>1, <1>1
      <4> QED BY <4>1, <3>1, <2>1, <1>2, <1>4
    <3>2. CASE i # n + 1 /\ j = n + 1
      <4>1. i \in 1..n
        BY <3>2, <1>1
      <4> QED BY <4>1, <3>2, <2>1, <1>2, <1>4
    <3>3. CASE i # n + 1 /\ j # n + 1
      <4>1. i \in 1..n /\ j \in 1..n
        BY <3>3, <1>1
      <4>2. s[i] = s[j]
        BY <4>1, <2>1, <1>2
      <4> QED BY <4>1, <4>2, <1>1 DEF IsInjective
    <3> QED BY <3>1, <3>2, <3>3
  <2> QED BY <2>1, <1>2 DEF IsInjective
<1>6. ToSet(t) = ToSet(s) \union {id}
  <2>1. \A x : x \in ToSet(t) <=> \E i \in 1..(n + 1) : x = t[i]
    BY <1>2 DEF ToSet
  <2>2. \A x : x \in ToSet(s) <=> \E i \in 1..n : x = s[i]
    BY <1>1 DEF ToSet
  <2>3. \A i : i \in 1..(n + 1) <=> i \in 1..n \/ i = n + 1
    BY <1>1
  <2>4. \A x : x \in ToSet(t) <=> x \in ToSet(s) \/ x = id
    <3>1. ASSUME NEW x, x \in ToSet(t) PROVE x \in ToSet(s) \/ x = id
      <4>1. PICK i \in 1..(n + 1) : x = t[i]
        BY <3>1, <2>1
      <4> QED BY <4>1, <2>2, <2>3, <1>2
    <3>2. ASSUME NEW x, x \in ToSet(s) \/ x = id PROVE x \in ToSet(t)
      <4>1. CASE x \in ToSet(s)
        <5>1. PICK i \in 1..n : x = s[i]
          BY <4>1, <2>2
        <5>2. i \in 1..(n + 1) /\ x = t[i]
          BY <5>1, <2>3, <1>2
        <5> QED BY <5>2, <2>1
      <4>2. CASE x = id
        <5>1. n + 1 \in 1..(n + 1) /\ x = t[n + 1]
          BY <4>2, <2>3, <1>2
        <5> QED BY <5>1, <2>1
      <4> QED BY <3>2, <4>1, <4>2
    <3> QED BY <3>1, <3>2
  <2> QED BY <2>4
<1> QED BY <1>3, <1>5, <1>6 DEF t

\* A patch of some fields.
LEMMA PatchIs ==
  ASSUME NEW chart, ChartOK(chart), NEW patch, DOMAIN patch \subseteq ChartFields
  PROVE  LET next == ApplyPatch(chart, patch)
         IN  /\ next.ok
             /\ next.config = [f \in ChartFields |-> next.config[f]]
             /\ \A f \in ChartFields : next.config[f] = IF f \in DOMAIN patch THEN patch[f] ELSE chart[f]
             /\ next.changes = {f \in DOMAIN patch : patch[f] # chart[f]}
BY DEF ApplyPatch, Step, ChartOK

LEMMA CommonPatchIs ==
  ASSUME NEW chart, ChartOK(chart), NEW patch, DOMAIN patch \subseteq ChartFields \ {"comparisons"}
  PROVE  /\ ApplyPatch(chart, patch).ok
         /\ ChartOK(ApplyPatch(chart, patch).config)
         /\ ApplyPatch(chart, patch).config.comparisons = chart.comparisons
<1> DEFINE next == ApplyPatch(chart, patch)
<1>1. /\ next.ok
      /\ next.config = [f \in ChartFields |-> next.config[f]]
      /\ \A f \in ChartFields : next.config[f] = IF f \in DOMAIN patch THEN patch[f] ELSE chart[f]
  BY PatchIs
<1> HIDE DEF next
<1>2. next.config.comparisons = chart.comparisons
  BY <1>1 DEF ChartFields
<1> QED BY <1>1, <1>2 DEF ChartOK, next

\* One edit of the comparisons: the other fields stay as they are.
LEMMA ComparisonsEdit ==
  ASSUME NEW chart, ChartOK(chart), NEW list, IsList(list), IsInjective(list)
  PROVE  LET next == ApplyPatch(chart, [comparisons |-> list])
         IN  /\ next.ok /\ ChartOK(next.config) /\ next.config.comparisons = list
             /\ \A f \in ChartFields \ {"comparisons"} : next.config[f] = chart[f]
             /\ next.changes \subseteq {"comparisons"}
<1> DEFINE patch == [comparisons |-> list]
           next == ApplyPatch(chart, patch)
<1>1. DOMAIN patch = {"comparisons"} /\ patch["comparisons"] = list
  OBVIOUS
<1> HIDE DEF patch
<1>2. /\ next.ok
      /\ next.config = [f \in ChartFields |-> next.config[f]]
      /\ \A f \in ChartFields : next.config[f] = IF f \in DOMAIN patch THEN patch[f] ELSE chart[f]
      /\ next.changes = {f \in DOMAIN patch : patch[f] # chart[f]}
  BY <1>1, PatchIs DEF ChartFields
<1> HIDE DEF next
<1>3. next.config.comparisons = list /\ \A f \in ChartFields \ {"comparisons"} : next.config[f] = chart[f]
  BY <1>1, <1>2 DEF ChartFields
<1>4. ChartOK(next.config)
  BY <1>2, <1>3 DEF ChartOK
<1>5. next.changes \subseteq {"comparisons"}
  BY <1>1, <1>2
<1> QED BY <1>2, <1>3, <1>4, <1>5 DEF next, patch

\* What the edits up to the n-th leave: the fields as the patch says, and the
\* comparisons that were there with those that were added.
EditsOK(chart, input, acc, n) ==
  acc.ok =>
    /\ ChartOK(acc.config)
    /\ \A f \in ChartFields \ {"comparisons"} :
         acc.config[f] = IF f \in DOMAIN input.set THEN input.set[f] ELSE chart[f]
    /\ acc.changes \ {"comparisons"} = {f \in DOMAIN input.set : input.set[f] # chart[f]}
    /\ Len(input.remove) = 0 =>
         ToSet(acc.config.comparisons) = ToSet(chart.comparisons) \union {input.add[i] : i \in 1..n}

InputOK(input) ==
  /\ DOMAIN input.set \subseteq ChartFields \ {"comparisons"}
  /\ Len(input.remove) \in Nat /\ Len(input.add) \in Nat

LEMMA PatchEditsOK ==
  ASSUME NEW chart, ChartOK(chart), NEW input, InputOK(input)
  PROVE  EditsOK(chart, input, ApplyPatch(chart, input.set), 0)
<1> DEFINE patch == input.set
           next == ApplyPatch(chart, patch)
<1>1. DOMAIN patch \subseteq ChartFields \ {"comparisons"}
  BY DEF InputOK
<1>2. ChartOK(next.config) /\ next.config.comparisons = chart.comparisons
  BY <1>1, CommonPatchIs
<1>3. DOMAIN patch \subseteq ChartFields
  BY <1>1
<1>4. /\ \A f \in ChartFields : next.config[f] = IF f \in DOMAIN patch THEN patch[f] ELSE chart[f]
      /\ next.changes = {f \in DOMAIN patch : patch[f] # chart[f]}
  BY <1>3, PatchIs
<1>5. next.changes \ {"comparisons"} = {f \in DOMAIN patch : patch[f] # chart[f]}
  BY <1>1, <1>4
<1>6. {input.add[i] : i \in 1..0} = {}
  OBVIOUS
<1> HIDE DEF next
<1> QED BY <1>2, <1>4, <1>5, <1>6 DEF EditsOK, next

LEMMA EditKeepsOK ==
  ASSUME NEW chart, NEW input, InputOK(input), NEW n \in 1..(Len(input.remove) + Len(input.add)),
         NEW acc, EditsOK(chart, input, acc, n - 1)
  PROVE  EditsOK(chart, input, EditComparisons(acc, input, n), n)
<1> DEFINE out == EditComparisons(acc, input, n)
           id == IF n <= Len(input.remove) THEN input.remove[n] ELSE input.add[n - Len(input.remove)]
           list == IF n <= Len(input.remove) THEN Remaining(acc.config.comparisons, id)
                   ELSE Append(acc.config.comparisons, id)
           next == ApplyPatch(acc.config, [comparisons |-> list])
<1> SUFFICES ASSUME out.ok PROVE EditsOK(chart, input, out, n)
  BY DEF EditsOK
<1>0. Len(input.remove) \in Nat /\ Len(input.add) \in Nat
  BY DEF InputOK
<1>1. acc.ok
  BY DEF EditComparisons, NoStep
<1>2. /\ ChartOK(acc.config)
      /\ \A f \in ChartFields \ {"comparisons"} :
           acc.config[f] = IF f \in DOMAIN input.set THEN input.set[f] ELSE chart[f]
      /\ acc.changes \ {"comparisons"} = {f \in DOMAIN input.set : input.set[f] # chart[f]}
      /\ Len(input.remove) = 0 =>
           ToSet(acc.config.comparisons) = ToSet(chart.comparisons) \union {input.add[i] : i \in 1..(n - 1)}
  BY <1>1 DEF EditsOK
<1>3. IsList(acc.config.comparisons) /\ IsInjective(acc.config.comparisons)
  BY <1>2 DEF ChartOK
<1>4. out = Step(next.config, acc.changes \union next.changes)
      /\ (~(n <= Len(input.remove)) => id \notin ToSet(acc.config.comparisons))
  <2>1. CASE n <= Len(input.remove)
    <3>1. out = Then(acc, RemoveComparison(acc.config, input.remove[n]))
      BY <2>1, <1>1 DEF EditComparisons
    <3>2. RemoveComparison(acc.config, input.remove[n]).ok
      BY <3>1 DEF Then, NoStep
    <3>3. RemoveComparison(acc.config, input.remove[n]) = next
      BY <2>1, <3>2 DEF RemoveComparison, NoStep
    <3> QED BY <2>1, <3>1, <3>2, <3>3 DEF Then
  <2>2. CASE ~(n <= Len(input.remove))
    <3>1. out = Then(acc, AddComparison(acc.config, input.add[n - Len(input.remove)]))
      BY <2>2, <1>1 DEF EditComparisons
    <3>2. AddComparison(acc.config, input.add[n - Len(input.remove)]).ok
      BY <3>1 DEF Then, NoStep
    <3>3. /\ AddComparison(acc.config, input.add[n - Len(input.remove)]) = next
          /\ id \notin ToSet(acc.config.comparisons)
      BY <2>2, <3>2 DEF AddComparison, NoStep
    <3> QED BY <3>1, <3>2, <3>3 DEF Then
  <2> QED BY <2>1, <2>2
<1> HIDE DEF out, id
<1>5. IsList(list) /\ IsInjective(list)
  <2>1. CASE n <= Len(input.remove)
    BY <2>1, <1>3, RemainingIs
  <2>2. CASE ~(n <= Len(input.remove))
    BY <2>2, <1>3, <1>4, AppendIs
  <2> QED BY <2>1, <2>2
<1>6. /\ ChartOK(next.config) /\ next.config.comparisons = list
      /\ \A f \in ChartFields \ {"comparisons"} : next.config[f] = acc.config[f]
      /\ next.changes \subseteq {"comparisons"}
  <2> HIDE DEF list
  <2> QED BY <1>2, <1>5, ComparisonsEdit
<1>7. out.config = next.config /\ out.changes = acc.changes \union next.changes
  BY <1>4 DEF Step
<1>8. Len(input.remove) = 0 =>
        ToSet(list) = ToSet(chart.comparisons) \union {input.add[i] : i \in 1..n}
  <2> SUFFICES ASSUME Len(input.remove) = 0
               PROVE ToSet(list) = ToSet(chart.comparisons) \union {input.add[i] : i \in 1..n}
    OBVIOUS
  <2>1. n \in Nat \ {0} /\ ~(n <= Len(input.remove)) /\ n - Len(input.remove) = n
    BY <1>0
  <2>2. ToSet(list) = ToSet(acc.config.comparisons) \union {id} /\ id = input.add[n]
    BY <2>1, <1>3, <1>4, AppendIs DEF id
  <2>3. 1..n = (1..(n - 1)) \union {n}
    BY <2>1
  <2>4. {input.add[i] : i \in 1..n} = {input.add[i] : i \in 1..(n - 1)} \union {input.add[n]}
    BY <2>3
  <2> QED BY <2>2, <2>4, <1>2
<1> HIDE DEF next, list
<1>9. out.changes \ {"comparisons"} = {f \in DOMAIN input.set : input.set[f] # chart[f]}
  BY <1>2, <1>6, <1>7
<1> QED BY <1>2, <1>6, <1>7, <1>8, <1>9 DEF EditsOK

\* A smallest number of edits that had no outcome would have one: that of the
\* edits before, and one more.
LEMMA TransitionIs ==
  ASSUME NEW chart, ChartOK(chart), NEW input, InputOK(input)
  PROVE  EditsOK(chart, input, BuildSourceTransition(chart, input), Len(input.remove) + Len(input.add))
<1>0. Len(input.remove) + Len(input.add) \in Nat
  <2>1. PICK a \in Nat, b \in Nat : a = Len(input.remove) /\ b = Len(input.add)
    BY DEF InputOK
  <2>2. a + b \in Nat
    OBVIOUS
  <2> QED BY <2>1, <2>2
<1> DEFINE edits == Len(input.remove) + Len(input.add)
           next(f, n) == IF n = 0 THEN ApplyPatch(chart, input.set) ELSE EditComparisons(f[n - 1], input, n)
           Is(f, m) == f = [n \in 0..m |-> next(f, n)]
           after == CHOOSE f : Is(f, edits)
           lost == {m \in 0..edits : ~\E f : Is(f, m)}
           wrong == {m \in 0..edits : ~EditsOK(chart, input, after[m], m)}
<1>1. BuildSourceTransition(chart, input) = after[edits]
  BY DEF BuildSourceTransition
<1>2. edits \in Nat
  BY <1>0
<1> HIDE DEF edits
<1>3. \A S \in SUBSET (0..edits) : S # {} => Min(S) \in S /\ \A k \in S : Min(S) <= k
  <2>1. IsFiniteSet(0..edits) /\ 0..edits \in SUBSET Int
    BY <1>2, FS_Interval
  <2>2. ASSUME NEW S \in SUBSET (0..edits), S # {} PROVE Min(S) \in S /\ \A k \in S : Min(S) <= k
    <3>1. S \in SUBSET Int /\ IsFiniteSet(S)
      BY <2>1, FS_Subset
    <3> QED BY <3>1, <2>2, EndsAre
  <2> QED BY <2>2
<1>4. ASSUME lost # {} PROVE FALSE
  <2> DEFINE m == Min(lost)
  <2>1. lost \in SUBSET (0..edits)
    OBVIOUS
  <2>2. m \in lost /\ \A k \in lost : m <= k
    <3> HIDE DEF lost
    <3> QED BY <1>3, <1>4, <2>1
  <2> HIDE DEF m
  <2>3. m \in 0..edits /\ ~\E f : Is(f, m)
    BY <2>2
  <2>4. CASE m = 0
    <3> DEFINE g == [n \in 0..m |-> ApplyPatch(chart, input.set)]
    <3>1. Is(g, m)
      BY <2>4
    <3> QED BY <3>1, <2>3
  <2>5. CASE m # 0
    <3>1. m - 1 \in 0..edits /\ ~(m <= m - 1) /\ m \in Nat
      BY <2>3, <2>5, <1>2
    <3>2. PICK f : Is(f, m - 1)
      BY <3>1, <2>2
    <3> DEFINE g == [n \in 0..m |-> IF n = m THEN EditComparisons(f[m - 1], input, m) ELSE f[n]]
    <3>3. ASSUME NEW n \in 0..m PROVE g[n] = next(g, n)
      <4>1. CASE n = m
        <5>1. m - 1 \in 0..m /\ m - 1 # m
          BY <3>1, <2>5
        <5>2. g[n - 1] = f[m - 1] /\ g[n] = EditComparisons(f[m - 1], input, m)
          BY <4>1, <5>1
        <5> QED BY <4>1, <5>2, <2>5
      <4>2. CASE n # m /\ n # 0
        <5>1. n \in 0..(m - 1) /\ n - 1 \in 0..m /\ n - 1 # m
          BY <4>2, <3>1
        <5>2. g[n] = f[n] /\ g[n - 1] = f[n - 1]
          BY <4>2, <5>1
        <5>3. f[n] = EditComparisons(f[n - 1], input, n)
          BY <5>1, <3>2, <4>2
        <5> QED BY <5>2, <5>3, <4>2
      <4>3. CASE n = 0 /\ n # m
        <5>1. n \in 0..(m - 1)
          BY <4>3, <3>1
        <5> QED BY <5>1, <4>3, <3>2
      <4> QED BY <4>1, <4>2, <4>3
    <3>4. Is(g, m)
      <4>1. g = [n \in 0..m |-> g[n]]
        OBVIOUS
      <4> HIDE DEF g
      <4> QED BY <3>3, <4>1
    <3> QED BY <3>4, <2>3
  <2> QED BY <2>4, <2>5
<1>5. Is(after, edits)
  <2>1. edits \in 0..edits
    BY <1>2
  <2>2. \E f : Is(f, edits)
    BY <2>1, <1>4
  <2> HIDE DEF Is
  <2> QED BY <2>2
<1>6. \A n \in 0..edits : after[n] = next(after, n)
  <2> HIDE DEF after
  <2> QED BY <1>5
<1> HIDE DEF after, Is
<1>7. ASSUME wrong # {} PROVE FALSE
  <2> DEFINE m == Min(wrong)
  <2>1. wrong \in SUBSET (0..edits)
    OBVIOUS
  <2>2. m \in wrong /\ \A k \in wrong : m <= k
    <3> HIDE DEF wrong
    <3> QED BY <1>3, <1>7, <2>1
  <2> HIDE DEF m
  <2>3. m \in 0..edits /\ ~EditsOK(chart, input, after[m], m)
    BY <2>2
  <2>4. CASE m = 0
    <3>1. after[m] = ApplyPatch(chart, input.set)
      BY <2>3, <2>4, <1>6
    <3> QED BY <3>1, <2>3, <2>4, PatchEditsOK
  <2>5. CASE m # 0
    <3>1. m - 1 \in 0..edits /\ ~(m <= m - 1) /\ m \in 1..edits
      BY <2>3, <2>5, <1>2
    <3>2. EditsOK(chart, input, after[m - 1], m - 1)
      BY <3>1, <2>2
    <3>3. after[m] = EditComparisons(after[m - 1], input, m)
      BY <2>3, <2>5, <1>6
    <3> QED BY <3>1, <3>2, <3>3, <2>3, EditKeepsOK DEF edits
  <2> QED BY <2>4, <2>5
<1>8. edits \in 0..edits
  BY <1>2
<1>9. EditsOK(chart, input, after[edits], edits)
  BY <1>7, <1>8
<1> QED BY <1>1, <1>9 DEF edits

\* What a binding or a patch leaves, without the count of its edits.
LEMMA TransitionLeaves ==
  ASSUME NEW chart, ChartOK(chart), NEW input, InputOK(input), BuildSourceTransition(chart, input).ok
  PROVE  LET next == BuildSourceTransition(chart, input)
         IN  /\ ChartOK(next.config)
             /\ \A f \in ChartFields \ {"comparisons"} :
                  next.config[f] = IF f \in DOMAIN input.set THEN input.set[f] ELSE chart[f]
             /\ next.changes \ {"comparisons"} = {f \in DOMAIN input.set : input.set[f] # chart[f]}
BY TransitionIs DEF EditsOK

LEMMA ReferenceIsInput ==
  ASSUME NEW reference \in References
  PROVE  LET input == AsInput(reference)
         IN  /\ InputOK(input) /\ Len(input.remove) = 0
             /\ {input.add[i] : i \in 1..Len(input.add)} = ToSet(input.add)
             /\ DOMAIN input.set = DOMAIN reference \ {"comparisons"}
             /\ \A f \in DOMAIN input.set : input.set[f] = reference[f]
<1> DEFINE set == [f \in DOMAIN reference \ {"comparisons"} |-> reference[f]]
           add == IF "comparisons" \in DOMAIN reference THEN reference.comparisons ELSE <<>>
           input == AsInput(reference)
<1>1. input = [set |-> set, remove |-> <<>>, add |-> add]
  BY DEF AsInput
<1>2. add \in Seq(ToSet(add))
  <2>1. <<>> \in Seq(ToSet(<<>>))
    OBVIOUS
  <2>2. "comparisons" \in DOMAIN reference => reference.comparisons \in Seq(ToSet(reference.comparisons))
    BY ChartSourcesAssumption
  <2> QED BY <2>1, <2>2
<1>3. /\ DOMAIN set = DOMAIN reference \ {"comparisons"}
      /\ \A f \in DOMAIN set : set[f] = reference[f]
  OBVIOUS
<1>4. DOMAIN reference \subseteq {"instrument", "timeframe", "range", "comparisons"}
  BY ChartSourcesAssumption
<1>5. {"timeframe", "range"} \subseteq DOMAIN DefaultChart
  BY ChartSourcesAssumption
<1> HIDE DEF set, add, input
<1>6. input.set = set /\ input.remove = <<>> /\ input.add = add
  BY <1>1
<1>7. DOMAIN input.set \subseteq ChartFields \ {"comparisons"}
  BY <1>3, <1>4, <1>5, <1>6 DEF ChartFields
<1>8. Len(add) \in Nat /\ DOMAIN add = 1..Len(add)
  BY <1>2
<1>9. {add[i] : i \in 1..Len(add)} = ToSet(add)
  BY <1>8 DEF ToSet
<1>10. Len(<<>>) = 0
  OBVIOUS
<1>11. InputOK(input)
  BY <1>6, <1>7, <1>8, <1>10 DEF InputOK
<1> QED BY <1>3, <1>6, <1>9, <1>10, <1>11 DEF input

\* A binding: what it names is shown, and what it compares with is added.
LEMMA BindingLeaves ==
  ASSUME NEW chart, ChartOK(chart), NEW reference \in References,
         BuildSourceTransition(chart, AsInput(reference)).ok
  PROVE  LET settings == BuildSourceTransition(chart, AsInput(reference)).config
         IN  /\ ChartOK(settings)
             /\ \A f \in ChartFields \ {"comparisons"} :
                  settings[f] = IF f \in DOMAIN reference THEN reference[f] ELSE chart[f]
             /\ ToSet(settings.comparisons) = ToSet(chart.comparisons) \union ToSet(AsInput(reference).add)
<1> DEFINE input == AsInput(reference)
           next == BuildSourceTransition(chart, input)
<1>1. /\ InputOK(input) /\ Len(input.remove) = 0
      /\ {input.add[i] : i \in 1..Len(input.add)} = ToSet(input.add)
      /\ DOMAIN input.set = DOMAIN reference \ {"comparisons"}
      /\ \A f \in DOMAIN input.set : input.set[f] = reference[f]
  BY ReferenceIsInput
<1>2. next.ok
  OBVIOUS
<1> HIDE DEF input, next
<1>3. EditsOK(chart, input, next, Len(input.remove) + Len(input.add))
  BY <1>1, TransitionIs DEF next
<1>4. Len(input.remove) + Len(input.add) = Len(input.add)
  BY <1>1 DEF InputOK
<1>5. EditsOK(chart, input, next, Len(input.add))
  BY <1>3, <1>4
<1>6. /\ ChartOK(next.config)
      /\ \A f \in ChartFields \ {"comparisons"} :
           next.config[f] = IF f \in DOMAIN input.set THEN input.set[f] ELSE chart[f]
      /\ ToSet(next.config.comparisons) =
           ToSet(chart.comparisons) \union {input.add[i] : i \in 1..Len(input.add)}
  BY <1>1, <1>2, <1>5 DEF EditsOK
<1>7. \A f \in ChartFields \ {"comparisons"} :
        next.config[f] = IF f \in DOMAIN reference THEN reference[f] ELSE chart[f]
  BY <1>1, <1>6
<1>8. ToSet(next.config.comparisons) = ToSet(chart.comparisons) \union ToSet(input.add)
  BY <1>1, <1>6
<1> QED BY <1>6, <1>7, <1>8 DEF next, input

LEMMA BlankChartOK == ChartOK(BlankChart)
<1>1. BlankChart = [f \in ChartFields |-> BlankChart[f]]
  BY DEF BlankChart, ChartFields
<1>2. BlankChart.comparisons = <<>>
  BY DEF BlankChart
<1>3. IsList(<<>>) /\ IsInjective(<<>>)
  BY DEF IsList, IsInjective
<1> QED BY <1>1, <1>2, <1>3 DEF ChartOK

LEMMA ReadIsOK ==
  ASSUME NEW doc, DocOK(doc), NEW p
  PROVE  ChartOK(ReadChartState(doc, p))
BY BlankChartOK DEF ReadChartState, DocOK

\* What is written for a panel is read there, and nothing else changes.
LEMMA WriteReads ==
  ASSUME NEW doc, DocOK(doc), NEW p, NEW chart, ChartOK(chart)
  PROVE  LET new == WriteChartState(doc, p, chart)
         IN  /\ DocOK(new) /\ new.panels = doc.panels
             /\ ReadChartState(new, p) = chart
             /\ \A q : q # p => ReadChartState(new, q) = ReadChartState(doc, q)
<1> DEFINE old == doc.extension
           e == [q \in DOMAIN old \union {p} |-> IF q = p THEN chart ELSE old[q]]
           new == WriteChartState(doc, p, chart)
<1>1. new = [panels |-> doc.panels, extension |-> e]
  <2>1. new = [doc EXCEPT !.extension = e]
    BY DEF WriteChartState
  <2>2. doc = [panels |-> doc.panels, extension |-> doc.extension]
    BY DEF DocOK
  <2> HIDE DEF e, new
  <2> QED BY <2>1, <2>2
<1>2. DOMAIN e = DOMAIN old \union {p} /\ e[p] = chart /\ \A q \in DOMAIN old : q # p => e[q] = old[q]
  OBVIOUS
<1>3. \A q \in DOMAIN old : ChartOK(old[q])
  BY DEF DocOK
<1> HIDE DEF e, old, new
<1>4. new.panels = doc.panels /\ new.extension = e
  BY <1>1
<1>5. DocOK(new)
  BY <1>1, <1>2, <1>3, <1>4 DEF DocOK
<1>6. ReadChartState(new, p) = chart
  BY <1>2, <1>4 DEF ReadChartState
<1>7. ASSUME NEW q, q # p PROVE ReadChartState(new, q) = ReadChartState(doc, q)
  BY <1>2, <1>4, <1>7 DEF ReadChartState, old
<1> QED BY <1>4, <1>5, <1>6, <1>7 DEF new

LEMMA PanelReads ==
  ASSUME NEW doc, DocOK(doc), NEW p, NEW reference
  PROVE  LET new == WithPanel(doc, p, reference)
         IN  /\ DocOK(new) /\ new.panels[p] = reference
             /\ \A q : ReadChartState(new, q) = ReadChartState(doc, q)
<1> DEFINE old == doc.panels
           panels == [q \in DOMAIN old \union {p} |-> IF q = p THEN reference ELSE old[q]]
           new == WithPanel(doc, p, reference)
<1>1. new = [panels |-> panels, extension |-> doc.extension]
  <2>1. new = [doc EXCEPT !.panels = panels]
    BY DEF WithPanel
  <2>2. doc = [panels |-> doc.panels, extension |-> doc.extension]
    BY DEF DocOK
  <2> HIDE DEF panels, new
  <2> QED BY <2>1, <2>2
<1>2. panels[p] = reference
  OBVIOUS
<1> HIDE DEF panels, old, new
<1>3. new.panels = panels /\ new.extension = doc.extension
  BY <1>1
<1>4. DocOK(new)
  BY <1>1, <1>3 DEF DocOK
<1>5. \A q : ReadChartState(new, q) = ReadChartState(doc, q)
  BY <1>3 DEF ReadChartState
<1> QED BY <1>2, <1>3, <1>4, <1>5 DEF new

Promised == BoundIsShown /\ ToldWhenStale

\* An operation with no outcome promises nothing.
LEMMA NothingPromised == outcome' = NoOutcome => Promised
<1> SUFFICES ASSUME outcome' = NoOutcome PROVE Promised
  OBVIOUS
<1>1. outcome'.op = "none"
  BY DEF NoOutcome
<1> QED BY <1>1 DEF Promised, BoundIsShown, ToldWhenStale

\* A binding through the panel tools.
LEMMA BindStep ==
  ASSUME SourcesInv, NEW op \in {"create_panel", "bind_panel_source"}, NEW p, NEW reference \in References,
         Bind(op, p, reference)
  PROVE  SourcesInv' /\ Promised
<1> DEFINE old == ReadChartState(charts, p)
           bound == BuildSourceTransition(old, AsInput(reference))
           doc == WithPanel(charts, p, reference)
           settings == bound.config
           new == WriteChartState(doc, p, settings)
<1>1. ChartOK(old)
  BY ReadIsOK DEF SourcesInv
<1>2. CASE ~bound.ok
  <2>1. outcome' = [op |-> op, panel |-> p, reference |-> reference, applied |-> FALSE]
        /\ charts' = charts /\ chartsBefore' = chartsBefore
    BY <1>2 DEF Bind, Rejects
  <2>2. outcome'.op = op /\ outcome'.applied = FALSE
    BY <2>1
  <2>3. BoundIsShown
    BY <2>1, <2>2 DEF BoundIsShown
  <2>4. ToldWhenStale
    BY <2>2 DEF ToldWhenStale
  <2> QED BY <2>1, <2>3, <2>4 DEF SourcesInv, Promised
<1>3. CASE bound.ok
  <2>1. /\ charts' = new /\ chartsBefore' = charts
        /\ outcome' = [op |-> op, panel |-> p, reference |-> reference, applied |-> TRUE]
    BY <1>3 DEF Bind, ChangeCharts
  <2>2. /\ ChartOK(settings)
        /\ \A f \in ChartFields \ {"comparisons"} :
             settings[f] = IF f \in DOMAIN reference THEN reference[f] ELSE old[f]
        /\ ToSet(settings.comparisons) = ToSet(old.comparisons) \union ToSet(AsInput(reference).add)
    <3> HIDE DEF old
    <3> QED BY <1>1, <1>3, BindingLeaves
  <2>3. DocOK(doc) /\ doc.panels[p] = reference /\ \A q : ReadChartState(doc, q) = ReadChartState(charts, q)
    BY PanelReads DEF SourcesInv
  <2>4. /\ DocOK(new) /\ new.panels = doc.panels
        /\ ReadChartState(new, p) = settings
        /\ \A q : q # p => ReadChartState(new, q) = ReadChartState(doc, q)
    <3> HIDE DEF doc, settings
    <3> QED BY <2>2, <2>3, WriteReads
  <2>5. DOMAIN settings = ChartFields /\ IsInjective(settings.comparisons)
    <3> HIDE DEF settings
    <3> QED BY <2>2 DEF ChartOK
  <2> HIDE DEF old, bound, doc, settings, new
  <2>6. /\ outcome'.op = op /\ outcome'.panel = p /\ outcome'.reference = reference /\ outcome'.applied = TRUE
    BY <2>1
  <2>7. BoundIsShown
    <3>1. charts'.panels[p] = reference
      BY <2>1, <2>3, <2>4
    <3>2. ReadChartState(charts', p) = settings
      BY <2>1, <2>4
    <3>3. \A q \in PanelIds \ {p} : ReadChartState(charts', q) = ReadChartState(charts, q)
      BY <2>1, <2>3, <2>4
    <3>4. /\ IsInjective(ReadChartState(charts', p).comparisons)
          /\ \A f \in DOMAIN ReadChartState(charts', p) \ {"comparisons"} :
               ReadChartState(charts', p)[f] =
                 IF f \in DOMAIN reference THEN reference[f] ELSE ReadChartState(charts, p)[f]
          /\ ToSet(ReadChartState(charts', p).comparisons) =
               ToSet(ReadChartState(charts, p).comparisons) \union ToSet(AsInput(reference).add)
      BY <2>2, <2>5, <3>2 DEF old
    <3> QED BY <2>6, <3>1, <3>3, <3>4 DEF BoundIsShown
  <2>8. ToldWhenStale
    BY <2>6 DEF ToldWhenStale
  <2> QED BY <2>1, <2>4, <2>7, <2>8 DEF SourcesInv, Promised
<1> QED BY <1>2, <1>3

\* A patch: the caller is told exactly when an invalidating field changed.
LEMMA ReconfigureStep ==
  ASSUME SourcesInv, NEW op \in {"bind_source", "configure_view"}, NEW p, NEW next, ChartOK(next.config),
         NEW set, DOMAIN set \subseteq ChartFields,
         \A f \in ChartFields \ {"comparisons"} :
           next.config[f] = IF f \in DOMAIN set THEN set[f] ELSE ReadChartState(charts, p)[f],
         next.changes \ {"comparisons"} =
           {f \in DOMAIN set \ {"comparisons"} : set[f] # ReadChartState(charts, p)[f]},
         Reconfigure(op, p, next)
  PROVE  SourcesInv' /\ Promised
<1> DEFINE old == ReadChartState(charts, p)
           new == WriteChartState(charts, p, next.config)
           told == next.changes \intersect Invalidating # {}
<1>1. /\ charts' = new /\ chartsBefore' = charts
      /\ outcome' = [op |-> op, panel |-> p, told |-> told]
  BY DEF Reconfigure, ChangeCharts
<1>2. DocOK(new) /\ ReadChartState(new, p) = next.config
  BY WriteReads DEF SourcesInv
<1>3. Invalidating \subseteq ChartFields \ {"comparisons"}
  BY ChartSourcesAssumption DEF Invalidating, ChartFields
<1>4. told <=> \E f \in Invalidating : next.config[f] # old[f]
  <2>1. ASSUME NEW f \in Invalidating PROVE f \in next.changes <=> next.config[f] # old[f]
    <3>1. f \in ChartFields \ {"comparisons"}
      BY <1>3
    <3>2. f \in next.changes <=> f \in DOMAIN set /\ set[f] # old[f]
      BY <3>1
    <3>3. next.config[f] = IF f \in DOMAIN set THEN set[f] ELSE old[f]
      BY <3>1
    <3> QED BY <3>2, <3>3
  <2> QED BY <2>1
<1> HIDE DEF told, new, old
<1>5. outcome'.op = op /\ outcome'.panel = p /\ outcome'.told = told
  BY <1>1
<1>6. BoundIsShown
  BY <1>5 DEF BoundIsShown
<1>7. ToldWhenStale
  <2>1. ReadChartState(charts', p) = next.config
    BY <1>1, <1>2
  <2>2. told <=> \E f \in Invalidating : ReadChartState(charts', p)[f] # ReadChartState(charts, p)[f]
    BY <1>4, <2>1 DEF old
  <2> QED BY <1>5, <2>2 DEF ToldWhenStale
<1> QED BY <1>1, <1>2, <1>6, <1>7 DEF SourcesInv, Promised

LEMMA BindSourceStep ==
  ASSUME SourcesInv, NEW p, NEW input \in Patches, BindSource(p, input)
  PROVE  SourcesInv' /\ Promised
<1> DEFINE old == ReadChartState(charts, p)
           next == BuildSourceTransition(old, input)
<1>1. next.ok /\ Reconfigure("bind_source", p, next)
  BY DEF BindSource
<1>2. ChartOK(old)
  BY ReadIsOK DEF SourcesInv
<1>3. DOMAIN input.set \subseteq ChartFields \ {"comparisons"}
  BY ChartSourcesAssumption DEF ChartFields
<1>4. InputOK(input)
  <2>1. input.remove \in Seq(ToSet(input.remove)) /\ input.add \in Seq(ToSet(input.add))
    BY ChartSourcesAssumption
  <2>2. Len(input.remove) \in Nat /\ Len(input.add) \in Nat
    BY <2>1
  <2> QED BY <1>3, <2>2 DEF InputOK
<1> HIDE DEF old
<1>5. /\ ChartOK(next.config)
      /\ \A f \in ChartFields \ {"comparisons"} :
           next.config[f] = IF f \in DOMAIN input.set THEN input.set[f] ELSE old[f]
      /\ next.changes \ {"comparisons"} = {f \in DOMAIN input.set : input.set[f] # old[f]}
  BY <1>1, <1>2, <1>4, TransitionLeaves
<1> HIDE DEF next
<1>6. next.changes \ {"comparisons"} = {f \in DOMAIN input.set \ {"comparisons"} : input.set[f] # old[f]}
  BY <1>3, <1>5
<1> QED BY <1>1, <1>3, <1>5, <1>6, ReconfigureStep DEF old

LEMMA ConfigureViewStep ==
  ASSUME SourcesInv, NEW p, NEW patch \in ViewPatches, ConfigureView(p, patch)
  PROVE  SourcesInv' /\ Promised
<1> DEFINE old == ReadChartState(charts, p)
           next == ApplyPatch(old, patch)
<1>1. Reconfigure("configure_view", p, next)
  BY DEF ConfigureView
<1>2. ChartOK(old)
  BY ReadIsOK DEF SourcesInv
<1>3. DOMAIN patch \subseteq ChartFields \ {"comparisons"}
  BY ChartSourcesAssumption DEF ChartFields
<1>4. DOMAIN patch \subseteq ChartFields
  BY <1>3
<1> HIDE DEF old
<1>5. ChartOK(next.config)
  BY <1>2, <1>3, CommonPatchIs
<1>6. /\ \A f \in ChartFields : next.config[f] = IF f \in DOMAIN patch THEN patch[f] ELSE old[f]
      /\ next.changes = {f \in DOMAIN patch : patch[f] # old[f]}
  BY <1>2, <1>4, PatchIs
<1> HIDE DEF next
<1>7. next.changes \ {"comparisons"} = {f \in DOMAIN patch \ {"comparisons"} : patch[f] # old[f]}
  BY <1>6
<1> QED BY <1>1, <1>4, <1>5, <1>6, <1>7, ReconfigureStep DEF old

\* The document's extension is as it was, and nothing is promised.
LEMMA ExtensionKept ==
  ASSUME SourcesInv, NEW panels, charts' = [panels |-> panels, extension |-> charts.extension],
         chartsBefore' = charts, outcome' = NoOutcome
  PROVE  SourcesInv' /\ Promised
<1>1. charts'.panels = panels /\ charts'.extension = charts.extension
  OBVIOUS
<1>2. DocOK(charts')
  BY <1>1 DEF SourcesInv, DocOK
<1> QED BY <1>2, NothingPromised DEF SourcesInv

LEMMA SourcesStep ==
  ASSUME SourcesInv, SourcesNext
  PROVE  SourcesInv' /\ Promised
<1>0. charts = [panels |-> charts.panels, extension |-> charts.extension]
  BY DEF SourcesInv, DocOK
<1>1. ASSUME NEW reference \in References \union {NoReference}, CreateChart(reference)
      PROVE  SourcesInv' /\ Promised
  <2>1. CASE reference = NoReference
    <3>1. charts' = WithPanel(charts, lastPanel + 1, reference) /\ chartsBefore' = charts /\ outcome' = NoOutcome
      BY <1>1, <2>1 DEF CreateChart, ChangeCharts
    <3>2. DocOK(WithPanel(charts, lastPanel + 1, reference))
      BY PanelReads DEF SourcesInv
    <3> QED BY <3>1, <3>2, NothingPromised DEF SourcesInv
  <2>2. CASE reference # NoReference
    <3>1. reference \in References /\ Bind("create_panel", lastPanel + 1, reference)
      BY <1>1, <2>2 DEF CreateChart
    <3> QED BY <3>1, BindStep
  <2> QED BY <2>1, <2>2
<1>2. ASSUME NEW p \in PanelIds, NEW reference \in References, BindChartPanel(p, reference)
      PROVE  SourcesInv' /\ Promised
  <2>1. Bind("bind_panel_source", p, reference)
    BY <1>2 DEF BindChartPanel
  <2> QED BY <2>1, BindStep
<1>3. ASSUME NEW p \in PanelIds, CopyChart(p) PROVE SourcesInv' /\ Promised
  <2>1. /\ charts' = WithPanel(charts, lastPanel + 1, charts.panels[p])
        /\ chartsBefore' = charts /\ outcome' = NoOutcome
    BY <1>3 DEF CopyChart, ChangeCharts
  <2>2. DocOK(WithPanel(charts, lastPanel + 1, charts.panels[p]))
    BY PanelReads DEF SourcesInv
  <2> QED BY <2>1, <2>2, NothingPromised DEF SourcesInv
<1>4. ASSUME NEW p \in PanelIds, RemoveChart(p) PROVE SourcesInv' /\ Promised
  <2> DEFINE panels == [q \in DOMAIN charts.panels \ {p} |-> charts.panels[q]]
  <2>1. charts' = [charts EXCEPT !.panels = panels] /\ chartsBefore' = charts /\ outcome' = NoOutcome
    BY <1>4 DEF RemoveChart, ChangeCharts
  <2> HIDE DEF panels
  <2>2. charts' = [panels |-> panels, extension |-> charts.extension]
    BY <1>0, <2>1
  <2> QED BY <2>1, <2>2, ExtensionKept
<1>5. ASSUME NEW p \in PanelIds, NEW input \in Patches, BindSource(p, input) PROVE SourcesInv' /\ Promised
  BY <1>5, BindSourceStep
<1>6. ASSUME NEW p \in PanelIds, NEW patch \in ViewPatches, ConfigureView(p, patch)
      PROVE  SourcesInv' /\ Promised
  BY <1>6, ConfigureViewStep
<1>7. CASE UndoChart
  BY <1>7, NothingPromised DEF UndoChart, SourcesInv
<1>8. CASE ReloadCharts
  <2>1. DocOK(NoCharts)
    BY DEF DocOK, NoCharts
  <2> QED BY <1>8, <2>1, NothingPromised DEF ReloadCharts, SourcesInv
<1> QED BY <1>1, <1>2, <1>3, <1>4, <1>5, <1>6, <1>7, <1>8 DEF SourcesNext

\* Every reachable document keeps a whole configuration for each chart it has
\* an entry of, so a binding shows what it names there and nowhere else, and
\* an agent is told exactly when its earlier reads are stale.
THEOREM BindingsAlwaysHold == SourcesSpec => BindingsHold
<1>1. SourcesInit => SourcesInv
  <2>1. DocOK(NoCharts)
    BY DEF DocOK, NoCharts
  <2> QED BY <2>1 DEF SourcesInit, SourcesInv
<1>2. SourcesInv /\ [SourcesNext]_sourceVars => SourcesInv'
  BY SourcesStep DEF SourcesInv, sourceVars
<1>3. SourcesInv /\ [SourcesNext]_sourceVars => [BoundIsShown /\ ToldWhenStale]_sourceVars
  BY SourcesStep DEF Promised
<1> QED BY <1>1, <1>2, <1>3, PTL DEF SourcesSpec, BindingsHold

-----------------------------------------------------------------------------
(* ChartEdits.  What is drawn on a chart has ids that are all different and *)
(* below the next one its sequencer gives.                                  *)

SamePane(x, y) == PaneOf(x.item) = PaneOf(y.item)

EntriesOK(s, last) ==
  /\ IsList(s) /\ UniqueIds(s)
  /\ \A i \in DOMAIN s : s[i].id \in 1..last

\* Studies of one pane that are still there follow each other as before.
Keeps(s, t) ==
  \A i, j \in DOMAIN s :
    (i < j /\ SamePane(s[i], s[j]) /\ s[i].id \in IdsOf(t) /\ s[j].id \in IdsOf(t)) =>
      \E m, k \in DOMAIN t : m < k /\ t[m] = s[i] /\ t[k] = s[j]

LEMMA IdsAre ==
  ASSUME NEW s, NEW x
  PROVE  x \in IdsOf(s) <=> \E i \in DOMAIN s : s[i].id = x
BY DEF IdsOf, ToSet

LEMMA KeepsItself == \A s : Keeps(s, s)
BY DEF Keeps

LEMMA KeepsOn ==
  ASSUME NEW s, NEW t, NEW u, Keeps(s, t), Keeps(t, u),
         \A x \in IdsOf(s) : x \in IdsOf(u) => x \in IdsOf(t)
  PROVE  Keeps(s, u)
<1> SUFFICES ASSUME NEW i \in DOMAIN s, NEW j \in DOMAIN s, i < j, SamePane(s[i], s[j]),
                    s[i].id \in IdsOf(u), s[j].id \in IdsOf(u)
             PROVE  \E m, k \in DOMAIN u : m < k /\ u[m] = s[i] /\ u[k] = s[j]
  BY DEF Keeps
<1>1. s[i].id \in IdsOf(t) /\ s[j].id \in IdsOf(t)
  BY IdsAre
<1>2. PICK a \in DOMAIN t, b \in DOMAIN t : a < b /\ t[a] = s[i] /\ t[b] = s[j]
  BY <1>1 DEF Keeps
<1> QED BY <1>2 DEF Keeps

\* Two groups of a list that share no pane, taken out of it.
LEMMA GroupsApart ==
  ASSUME NEW s, IsList(s), UniqueIds(s), NEW A \in SUBSET DOMAIN s, NEW B \in SUBSET DOMAIN s,
         \A i \in A, j \in B : ~SamePane(s[i], s[j]), NEW u, u = Picked(s, A), NEW v, v = Picked(s, B)
  PROVE  /\ IsList(u) /\ UniqueIds(u) /\ Carries(s, A, u) /\ \A m \in DOMAIN u : \E i \in A : u[m] = s[i]
         /\ IsList(v) /\ UniqueIds(v) /\ Carries(s, B, v) /\ \A m \in DOMAIN v : \E i \in B : v[m] = s[i]
         /\ \A m \in DOMAIN u, k \in DOMAIN v : u[m].id # v[k].id
<1>1. IsList(u) /\ UniqueIds(u) /\ Carries(s, A, u) /\ \A m \in DOMAIN u : \E i \in A : u[m] = s[i]
  BY PickedCarries
<1>2. IsList(v) /\ UniqueIds(v) /\ Carries(s, B, v) /\ \A m \in DOMAIN v : \E i \in B : v[m] = s[i]
  BY PickedCarries
<1>3. ASSUME NEW m \in DOMAIN u, NEW k \in DOMAIN v, u[m].id = v[k].id PROVE FALSE
  <2>1. PICK i \in A : u[m] = s[i]
    BY <1>1
  <2>2. PICK j \in B : v[k] = s[j]
    BY <1>2
  <2>3. i = j
    BY <2>1, <2>2, <1>3 DEF UniqueIds
  <2> QED BY <2>3 DEF SamePane
<1> QED BY <1>1, <1>2, <1>3

\* A list that carries both groups, which together are everything, keeps all.
LEMMA GroupsKeep ==
  ASSUME NEW s, NEW A, NEW B, DOMAIN s = A \union B, \A i \in A, j \in B : ~SamePane(s[i], s[j]),
         NEW t, Carries(s, A, t), Carries(s, B, t)
  PROVE  Keeps(s, t) /\ IdsOf(s) \subseteq IdsOf(t)
<1>1. ASSUME NEW i \in DOMAIN s, NEW j \in DOMAIN s, i < j, SamePane(s[i], s[j])
      PROVE  \E m, k \in DOMAIN t : m < k /\ t[m] = s[i] /\ t[k] = s[j]
  <2>1. (i \in A /\ j \in A) \/ (i \in B /\ j \in B)
    BY <1>1 DEF SamePane
  <2> QED BY <2>1, <1>1 DEF Carries
<1>2. ASSUME NEW x \in IdsOf(s) PROVE x \in IdsOf(t)
  <2>1. PICK i \in DOMAIN s : s[i].id = x
    BY IdsAre
  <2>2. PICK m \in DOMAIN t : t[m] = s[i]
    BY DEF Carries
  <2> QED BY <2>1, <2>2, IdsAre
<1> QED BY <1>1, <1>2 DEF Keeps

LEMMA NormalizedIs ==
  ASSUME NEW last, NEW s, EntriesOK(s, last)
  PROVE  LET t == NormalizeStudies(s)
         IN  EntriesOK(t, last) /\ IdsOf(t) = IdsOf(s) /\ Keeps(s, t)
<1> DEFINE A == {i \in DOMAIN s : PaneOf(s[i].item) = "price_overlay"}
           B == {i \in DOMAIN s : PaneOf(s[i].item) = "sub_pane"}
           u == Picked(s, A)
           v == Picked(s, B)
           t == NormalizeStudies(s)
<1>1. t = u \o v
  BY DEF NormalizeStudies, InPane
<1>2. A \in SUBSET DOMAIN s /\ B \in SUBSET DOMAIN s /\ DOMAIN s = A \union B
      /\ \A i \in A, j \in B : ~SamePane(s[i], s[j])
  BY DEF SamePane, PaneOf
<1> HIDE DEF A, B, u, v, t
<1>3. IsList(s) /\ UniqueIds(s)
  BY DEF EntriesOK
<1>4. /\ IsList(u) /\ UniqueIds(u) /\ Carries(s, A, u) /\ \A m \in DOMAIN u : \E i \in A : u[m] = s[i]
      /\ IsList(v) /\ UniqueIds(v) /\ Carries(s, B, v) /\ \A m \in DOMAIN v : \E i \in B : v[m] = s[i]
      /\ \A m \in DOMAIN u, k \in DOMAIN v : u[m].id # v[k].id
  <2>1. u = Picked(s, A) /\ v = Picked(s, B)
    BY DEF u, v
  <2> QED BY <2>1, <1>2, <1>3, GroupsApart
<1>5. /\ IsList(u \o v) /\ Carries(s, A, u \o v) /\ Carries(s, B, u \o v)
      /\ \A m \in DOMAIN (u \o v) :
           (\E i \in DOMAIN u : (u \o v)[m] = u[i]) \/ (\E i \in DOMAIN v : (u \o v)[m] = v[i])
      /\ (UniqueIds(u) /\ UniqueIds(v) /\ \A i \in DOMAIN u, j \in DOMAIN v : u[i].id # v[j].id)
           => UniqueIds(u \o v)
  BY <1>4, JoinedCarries
<1>6. \A m \in DOMAIN t : \E i \in DOMAIN s : t[m] = s[i]
  BY <1>1, <1>2, <1>4, <1>5
<1>7. Keeps(s, t) /\ IdsOf(s) \subseteq IdsOf(t)
  BY <1>1, <1>2, <1>5, GroupsKeep
<1>8. IdsOf(t) \subseteq IdsOf(s)
  <2>1. ASSUME NEW x \in IdsOf(t) PROVE x \in IdsOf(s)
    <3>1. PICK m \in DOMAIN t : t[m].id = x
      BY IdsAre
    <3> QED BY <3>1, <1>6, IdsAre
  <2> QED BY <2>1
<1>9. EntriesOK(t, last)
  BY <1>1, <1>4, <1>5, <1>6 DEF EntriesOK
<1> QED BY <1>7, <1>8, <1>9 DEF t

\* One operation, and the studies before and after it.
Runs(before, after, op) ==
  /\ after.last \in Nat /\ before.last <= after.last
  /\ after.ok =>
       /\ EntriesOK(after.studies, after.last)
       /\ \A x \in IdsOf(after.studies) : x \in IdsOf(before.studies) \/ x > before.last
       /\ \A x \in IdsOf(before.studies) :
            x \in IdsOf(after.studies) \/ (op.op = "remove" /\ op.studyId = x)
       /\ op.op # "reorder" => Keeps(before.studies, after.studies)

\* What an edit of the studies has done so far.
Runner(acc) ==
  /\ acc = [ok |-> acc.ok, studies |-> acc.studies, last |-> acc.last]
  /\ acc.last \in Nat

LEMMA FailedRuns ==
  ASSUME NEW acc, Runner(acc), NEW op
  PROVE  Runner(Failed(acc)) /\ Runs(acc, Failed(acc), op)
<1> DEFINE no == FALSE
           out == Failed(acc)
<1>1. out = [acc EXCEPT !.ok = no]
  BY DEF Failed
<1>2. ~no
  OBVIOUS
<1> HIDE DEF no, out
<1>3. PICK yes, s, last : acc = [ok |-> yes, studies |-> s, last |-> last]
  BY DEF Runner
<1>4. out = [ok |-> no, studies |-> s, last |-> last]
  BY <1>1, <1>3
<1>5. out.ok = no /\ out.studies = s /\ out.last = last
  BY <1>4
<1>6. acc.last = last /\ last \in Nat
  BY <1>3 DEF Runner
<1>7. Runner(out)
  BY <1>4, <1>5, <1>6 DEF Runner
<1>8. out.last \in Nat /\ acc.last <= out.last
  BY <1>5, <1>6
<1>9. ~out.ok
  BY <1>2, <1>5
<1>10. Runs(acc, out, op)
  BY <1>8, <1>9 DEF Runs
<1> QED BY <1>7, <1>10 DEF out

LEMMA AddRuns ==
  ASSUME NEW acc, Runner(acc), acc.ok, EntriesOK(acc.studies, acc.last),
         NEW op, op.op = "add", op.order \in 0..1
  PROVE  Runner(RunAdd(acc, op)) /\ Runs(acc, RunAdd(acc, op), op)
<1> DEFINE s == acc.studies
           last == acc.last
           yes == acc.ok
           pane == PaneOf(op.item)
           B == {i \in DOMAIN s : PaneOf(s[i].item) = pane}
           A == {i \in DOMAIN s : PaneOf(s[i].item) # pane}
           target == Picked(s, B)
           others == Picked(s, A)
           place == IF op.order = 0 THEN Len(target) + 1 ELSE op.order
           study == [id |-> last + 1, item |-> op.item]
           t == InsertAt(target, place, study)
           out == RunAdd(acc, op)
<1>0. IsList(s) /\ UniqueIds(s)
  BY DEF EntriesOK
<1>1. last \in Nat /\ \A i \in DOMAIN s : s[i].id \in 1..last
  BY DEF Runner, EntriesOK
<1>2. study.id = last + 1
  OBVIOUS
<1>3. out = IF study.id \in IdsOf(s) \/ place > Len(target) + 1
            THEN Failed([acc EXCEPT !.last = @ + 1])
            ELSE [acc EXCEPT !.last = @ + 1, !.studies = others \o t]
  BY DEF RunAdd, InPane
<1>4. A \in SUBSET DOMAIN s /\ B \in SUBSET DOMAIN s /\ DOMAIN s = A \union B
      /\ \A i \in A, j \in B : ~SamePane(s[i], s[j])
  BY DEF SamePane
<1>5. acc = [ok |-> yes, studies |-> s, last |-> last]
  BY DEF Runner
<1> HIDE DEF A, B, s, last, yes, pane, study
<1>6. /\ IsList(others) /\ UniqueIds(others) /\ Carries(s, A, others) /\ \A m \in DOMAIN others : \E i \in A : others[m] = s[i]
      /\ IsList(target) /\ UniqueIds(target) /\ Carries(s, B, target) /\ \A m \in DOMAIN target : \E i \in B : target[m] = s[i]
      /\ \A m \in DOMAIN others, k \in DOMAIN target : others[m].id # target[k].id
  <2> HIDE DEF target, others, t, out, place
  <2>1. others = Picked(s, A) /\ target = Picked(s, B)
    BY DEF others, target
  <2> QED BY <2>1, <1>0, <1>4, GroupsApart
<1> HIDE DEF target, others, t, out, place
<1>7. CASE study.id \in IdsOf(s) \/ place > Len(target) + 1
  <2> DEFINE more == [acc EXCEPT !.last = @ + 1]
  <2>1. more = [ok |-> yes, studies |-> s, last |-> last + 1]
    <3> DEFINE next == last + 1
    <3>1. more = [acc EXCEPT !.last = next]
      BY DEF last
    <3> HIDE DEF next, more
    <3>2. more = [ok |-> yes, studies |-> s, last |-> next]
      BY <3>1, <1>5
    <3> QED BY <3>2 DEF next
  <2>2. out = Failed(more)
    BY <1>3, <1>7
  <2> HIDE DEF more
  <2>3. more.ok = yes /\ more.studies = s /\ more.last = last + 1
    BY <2>1
  <2>4. Runner(more)
    BY <2>1, <2>3, <1>1 DEF Runner
  <2>5. Runner(out) /\ Runs(more, out, op)
    BY <2>2, <2>4, FailedRuns
  <2>6. Runs(acc, out, op)
    <3>1. ~out.ok
      BY <2>2 DEF Failed
    <3>2. out.last \in Nat /\ last + 1 <= out.last
      BY <2>3, <2>5 DEF Runs
    <3>3. last <= out.last
      BY <3>2, <1>1
    <3> QED BY <3>1, <3>2, <3>3 DEF Runs, last
  <2> QED BY <2>5, <2>6 DEF out
<1>8. CASE ~(study.id \in IdsOf(s) \/ place > Len(target) + 1)
  <2> DEFINE w == others \o t
  <2>1. out = [ok |-> yes, studies |-> w, last |-> last + 1]
    <3> DEFINE next == last + 1
               more == [acc EXCEPT !.last = next]
    <3>1. out = [acc EXCEPT !.last = next, !.studies = w]
      BY <1>3, <1>8 DEF last
    <3> HIDE DEF w, next
    <3>2. out = [more EXCEPT !.studies = w]
      BY <3>1
    <3>3. more = [acc EXCEPT !.last = next]
      OBVIOUS
    <3> HIDE DEF more
    <3>5. more = [ok |-> yes, studies |-> s, last |-> next]
      BY <1>5, <3>3
    <3>4. out = [ok |-> yes, studies |-> w, last |-> next]
      BY <3>2, <3>5
    <3> QED BY <3>4 DEF next
  <2>2. place \in 1..(Len(target) + 1)
    <3>1. Len(target) \in Nat
      BY <1>6, ListHas
    <3> QED BY <3>1, <1>8 DEF place
  <2>3. \A i \in DOMAIN s : s[i].id # study.id
    BY <1>8, IdsAre
  <2>4. \A i \in DOMAIN target : target[i].id # study.id
    BY <2>3, <1>4, <1>6
  <2>5. /\ IsList(t) /\ Carries(s, B, t) /\ UniqueIds(t)
        /\ \A m \in DOMAIN t : t[m] = study \/ \E i \in DOMAIN target : t[m] = target[i]
    BY <2>2, <2>4, <1>6, InsertedCarries DEF t
  <2>6. \A m \in DOMAIN others, k \in DOMAIN t : others[m].id # t[k].id
    <3>1. ASSUME NEW m \in DOMAIN others, NEW k \in DOMAIN t PROVE others[m].id # t[k].id
      <4>1. others[m].id # study.id
        BY <2>3, <1>4, <1>6
      <4> QED BY <4>1, <2>5, <1>6
    <3> QED BY <3>1
  <2>7. /\ IsList(others \o t) /\ Carries(s, A, others \o t) /\ Carries(s, B, others \o t)
        /\ \A m \in DOMAIN (others \o t) :
             (\E i \in DOMAIN others : (others \o t)[m] = others[i]) \/ (\E i \in DOMAIN t : (others \o t)[m] = t[i])
        /\ (UniqueIds(others) /\ UniqueIds(t) /\ \A i \in DOMAIN others, j \in DOMAIN t : others[i].id # t[j].id)
             => UniqueIds(others \o t)
    BY <2>5, <2>6, <1>6, JoinedCarries
  <2> HIDE DEF w
  <2>8. IsList(w) /\ Carries(s, A, w) /\ Carries(s, B, w) /\ UniqueIds(w)
    BY <2>5, <2>6, <2>7, <1>6 DEF w
  <2>9. \A m \in DOMAIN w : w[m] = study \/ \E i \in DOMAIN s : w[m] = s[i]
    <3>1. ASSUME NEW m \in DOMAIN w PROVE w[m] = study \/ \E i \in DOMAIN s : w[m] = s[i]
      <4>1. (\E i \in DOMAIN others : w[m] = others[i]) \/ (\E i \in DOMAIN t : w[m] = t[i])
        BY <2>7 DEF w
      <4> QED BY <4>1, <2>5, <1>4, <1>6
    <3> QED BY <3>1
  <2>10. Keeps(s, w) /\ IdsOf(s) \subseteq IdsOf(w)
    BY <2>8, <1>4, GroupsKeep
  <2>11. \A m \in DOMAIN w : w[m].id \in 1..(last + 1)
    <3>1. ASSUME NEW m \in DOMAIN w PROVE w[m].id \in 1..(last + 1)
      <4>1. CASE w[m] = study
        BY <4>1, <1>1, <1>2
      <4>2. CASE \E i \in DOMAIN s : w[m] = s[i]
        BY <4>2, <1>1
      <4> QED BY <3>1, <4>1, <4>2, <2>9
    <3> QED BY <3>1
  <2>12. EntriesOK(w, last + 1)
    BY <2>8, <2>11 DEF EntriesOK
  <2>13. \A x \in IdsOf(w) : x \in IdsOf(s) \/ x > last
    <3>1. ASSUME NEW x \in IdsOf(w) PROVE x \in IdsOf(s) \/ x > last
      <4>1. PICK m \in DOMAIN w : w[m].id = x
        BY IdsAre
      <4>2. CASE w[m] = study
        BY <4>1, <4>2, <1>1, <1>2
      <4>3. CASE \E i \in DOMAIN s : w[m] = s[i]
        BY <4>1, <4>3, IdsAre
      <4> QED BY <4>2, <4>3, <2>9
    <3> QED BY <3>1
  <2>14. out.ok = yes /\ out.studies = w /\ out.last = last + 1
    BY <2>1
  <2>15. Runner(out)
    BY <2>1, <2>14, <1>1 DEF Runner
  <2>16. out.last \in Nat /\ last <= out.last
    BY <2>14, <1>1
  <2>17. Runs(acc, out, op)
    BY <2>10, <2>12, <2>13, <2>14, <2>16 DEF Runs, s, last
  <2> QED BY <2>15, <2>17 DEF out
<1> QED BY <1>7, <1>8

LEMMA ReorderRuns ==
  ASSUME NEW acc, Runner(acc), acc.ok, EntriesOK(acc.studies, acc.last),
         NEW op, op.op = "reorder", IsList(op.orderedIds)
  PROVE  Runner(RunReorder(acc, op)) /\ Runs(acc, RunReorder(acc, op), op)
<1> DEFINE s == acc.studies
           last == acc.last
           yes == acc.ok
           ids == op.orderedIds
           n == Len(ids)
           w == [i \in DOMAIN ids |-> CHOOSE x \in ToSet(s) : x.id = ids[i]]
           out == RunReorder(acc, op)
<1>1. CASE ToSet(ids) # IdsOf(s) \/ ~IsInjective(ids)
  <2>1. out = Failed(acc)
    BY <1>1 DEF RunReorder
  <2> QED BY <2>1, FailedRuns
<1>2. CASE ~(ToSet(ids) # IdsOf(s) \/ ~IsInjective(ids))
  <2>1. out = [acc EXCEPT !.studies = w]
    BY <1>2 DEF RunReorder
  <2>2. n \in Nat /\ DOMAIN ids = 1..n
    BY ListHas
  <2>3. DOMAIN w = 1..n /\ w = [i \in 1..n |-> w[i]]
    BY <2>2
  <2>4. ASSUME NEW i \in 1..n PROVE w[i] \in ToSet(s) /\ w[i].id = ids[i]
    <3>1. ids[i] \in IdsOf(s)
      BY <1>2, <2>2 DEF ToSet
    <3>2. \E x \in ToSet(s) : x.id = ids[i]
      BY <3>1 DEF IdsOf
    <3> QED BY <3>2, <2>2
  <2> HIDE DEF w, n, out
  <2>5. IsList(w)
    BY <2>2, <2>3, ListsAre
  <2>6. UniqueIds(w)
    <3>1. ASSUME NEW i \in 1..n, NEW j \in 1..n, w[i].id = w[j].id PROVE i = j
      <4>1. ids[i] = ids[j]
        BY <3>1, <2>4
      <4> QED BY <4>1, <1>2, <2>2 DEF IsInjective
    <3> QED BY <3>1, <2>3 DEF UniqueIds
  <2>7. \A i \in 1..n : w[i].id \in 1..last
    <3>1. ASSUME NEW i \in 1..n PROVE w[i].id \in 1..last
      <4>1. PICK k \in DOMAIN s : w[i] = s[k]
        BY <2>4 DEF ToSet
      <4> QED BY <4>1 DEF EntriesOK
    <3> QED BY <3>1
  <2>8. IdsOf(w) = IdsOf(s)
    <3>1. ASSUME NEW x \in IdsOf(w) PROVE x \in IdsOf(s)
      <4>1. PICK i \in 1..n : w[i].id = x
        BY <2>3, IdsAre
      <4> QED BY <4>1, <2>4 DEF IdsOf
    <3>2. ASSUME NEW x \in IdsOf(s) PROVE x \in IdsOf(w)
      <4>1. PICK i \in 1..n : ids[i] = x
        BY <1>2, <2>2 DEF ToSet
      <4> QED BY <4>1, <2>3, <2>4, IdsAre
    <3> QED BY <3>1, <3>2
  <2>9. out = [ok |-> yes, studies |-> w, last |-> last]
    <3>1. acc = [ok |-> yes, studies |-> s, last |-> last]
      BY DEF Runner
    <3> HIDE DEF yes, s, last
    <3> QED BY <3>1, <2>1
  <2>10. out.ok = yes /\ out.studies = w /\ out.last = last /\ last \in Nat
    <3>1. last \in Nat
      BY DEF Runner
    <3> HIDE DEF yes, last
    <3> QED BY <2>9, <3>1
  <2>11. Runner(out)
    <3> HIDE DEF yes, last
    <3> QED BY <2>9, <2>10 DEF Runner
  <2>12. EntriesOK(w, last)
    BY <2>3, <2>5, <2>6, <2>7 DEF EntriesOK
  <2>13. Runs(acc, out, op)
    <3>1. last <= last
      BY <2>10
    <3> QED BY <2>8, <2>10, <2>12, <3>1 DEF Runs
  <2> QED BY <2>11, <2>13 DEF out
<1> QED BY <1>1, <1>2

LEMMA SetRuns ==
  ASSUME NEW acc, Runner(acc), acc.ok, EntriesOK(acc.studies, acc.last), NEW op
  PROVE  Runs(acc, acc, op)
<1>1. acc.last \in Nat /\ acc.last <= acc.last
  BY DEF Runner
<1> QED BY <1>1, KeepsItself DEF Runs

LEMMA RemoveRuns ==
  ASSUME NEW acc, Runner(acc), acc.ok, EntriesOK(acc.studies, acc.last), NEW op, op.op = "remove"
  PROVE  LET out == [acc EXCEPT !.studies = Picked(@, {i \in DOMAIN @ : @[i].id # op.studyId})]
         IN  Runner(out) /\ Runs(acc, out, op)
<1> DEFINE s == acc.studies
           last == acc.last
           yes == acc.ok
           P == {i \in DOMAIN s : s[i].id # op.studyId}
           w == Picked(s, P)
           out == [acc EXCEPT !.studies = Picked(@, {i \in DOMAIN @ : @[i].id # op.studyId})]
<1>1. out = [acc EXCEPT !.studies = w]
  OBVIOUS
<1>2. acc = [ok |-> yes, studies |-> s, last |-> last]
  BY DEF Runner
<1>3. P \in SUBSET DOMAIN s /\ \A i \in DOMAIN s : i \in P <=> s[i].id # op.studyId
  OBVIOUS
<1>4. IsList(s) /\ UniqueIds(s) /\ (\A i \in DOMAIN s : s[i].id \in 1..last) /\ last \in Nat
  BY DEF EntriesOK, Runner
<1> HIDE DEF P, out
<1>5. /\ IsList(w) /\ Carries(s, P, w) /\ UniqueIds(w)
      /\ \A m \in DOMAIN w : \E i \in P : w[m] = s[i]
  BY <1>3, <1>4, PickedCarries
<1> HIDE DEF w, s, last, yes
<1>6. out = [ok |-> yes, studies |-> w, last |-> last]
  BY <1>1, <1>2
<1>7. out.ok = yes /\ out.studies = w /\ out.last = last
  BY <1>6
<1>8. Runner(out)
  BY <1>4, <1>6, <1>7 DEF Runner
<1>9. EntriesOK(w, last)
  BY <1>3, <1>4, <1>5 DEF EntriesOK
<1>10. \A x \in IdsOf(w) : x \in IdsOf(s) /\ x # op.studyId
  <2>1. ASSUME NEW x \in IdsOf(w) PROVE x \in IdsOf(s) /\ x # op.studyId
    <3>1. PICK m \in DOMAIN w : w[m].id = x
      BY IdsAre
    <3>2. PICK i \in P : w[m] = s[i]
      BY <1>5
    <3> QED BY <3>1, <3>2, <1>3, IdsAre
  <2> QED BY <2>1
<1>11. \A x \in IdsOf(s) : x \in IdsOf(w) \/ op.studyId = x
  <2>1. ASSUME NEW x \in IdsOf(s), op.studyId # x PROVE x \in IdsOf(w)
    <3>1. PICK i \in DOMAIN s : s[i].id = x
      BY IdsAre
    <3>2. i \in P
      BY <2>1, <3>1, <1>3
    <3>3. PICK m \in DOMAIN w : w[m] = s[i]
      BY <3>2, <1>5 DEF Carries
    <3> QED BY <3>1, <3>3, IdsAre
  <2> QED BY <2>1
<1>12. Keeps(s, w)
  <2>1. ASSUME NEW i \in DOMAIN s, NEW j \in DOMAIN s, i < j, s[i].id \in IdsOf(w), s[j].id \in IdsOf(w)
        PROVE  \E m, k \in DOMAIN w : m < k /\ w[m] = s[i] /\ w[k] = s[j]
    <3>1. i \in P /\ j \in P
      BY <2>1, <1>3, <1>10
    <3> QED BY <3>1, <2>1, <1>5 DEF Carries
  <2> QED BY <2>1 DEF Keeps
<1>13. Runs(acc, out, op)
  <2>1. out.last \in Nat /\ last <= out.last
    BY <1>4, <1>7
  <2> QED BY <2>1, <1>7, <1>9, <1>10, <1>11, <1>12 DEF Runs, s, last
<1> QED BY <1>8, <1>13 DEF out

OperationOK(op) ==
  /\ op.op \in {"add", "set", "remove", "reorder"}
  /\ op.op = "add" => op.order \in 0..1
  /\ op.op = "reorder" => IsList(op.orderedIds)

LEMMA OperationRuns ==
  ASSUME NEW acc, Runner(acc), acc.ok, EntriesOK(acc.studies, acc.last), NEW op, OperationOK(op)
  PROVE  Runner(RunOperation(acc, op)) /\ Runs(acc, RunOperation(acc, op), op)
<1>1. CASE op.op = "add"
  <2>1. RunOperation(acc, op) = RunAdd(acc, op)
    BY <1>1 DEF RunOperation
  <2> QED BY <2>1, <1>1, AddRuns DEF OperationOK
<1>2. CASE op.op = "reorder"
  <2>1. RunOperation(acc, op) = RunReorder(acc, op)
    BY <1>2 DEF RunOperation
  <2> QED BY <2>1, <1>2, ReorderRuns DEF OperationOK
<1>3. CASE op.op = "set"
  <2>1. RunOperation(acc, op) = acc \/ RunOperation(acc, op) = Failed(acc)
    BY <1>3 DEF RunOperation
  <2> QED BY <2>1, SetRuns, FailedRuns
<1>4. CASE op.op = "remove"
  <2> DEFINE out == [acc EXCEPT !.studies = Picked(@, {i \in DOMAIN @ : @[i].id # op.studyId})]
  <2>1. RunOperation(acc, op) = out \/ RunOperation(acc, op) = Failed(acc)
    BY <1>4 DEF RunOperation
  <2>2. Runner(out) /\ Runs(acc, out, op)
    BY <1>4, RemoveRuns
  <2> HIDE DEF out
  <2> QED BY <2>1, <2>2, FailedRuns
<1> QED BY <1>1, <1>2, <1>3, <1>4 DEF OperationOK

BatchOK(old, last, ops, acc, n) ==
  /\ Runner(acc) /\ last <= acc.last
  /\ acc.ok =>
       /\ EntriesOK(acc.studies, acc.last)
       /\ \A x \in IdsOf(old) :
            x \in IdsOf(acc.studies) \/ \E m \in 1..n : ops[m].op = "remove" /\ ops[m].studyId = x
       /\ (\A m \in 1..n : ops[m].op # "reorder") => Keeps(old, acc.studies)

OpsOK(ops) == Len(ops) \in Nat /\ \A m \in 1..Len(ops) : OperationOK(ops[m])

LEMMA NoneYet ==
  ASSUME NEW last \in Nat, NEW old, EntriesOK(old, last), NEW ops
  PROVE  BatchOK(old, last, ops, [ok |-> TRUE, studies |-> old, last |-> last], 0)
<1> DEFINE yes == TRUE
           acc == [ok |-> yes, studies |-> old, last |-> last]
<1> HIDE DEF yes
<1>1. acc.ok = yes /\ acc.studies = old /\ acc.last = last
  OBVIOUS
<1>2. acc = [ok |-> acc.ok, studies |-> acc.studies, last |-> acc.last]
  OBVIOUS
<1> HIDE DEF acc
<1>3. Runner(acc)
  BY <1>1, <1>2 DEF Runner
<1>4. BatchOK(old, last, ops, acc, 0)
  <2>1. last <= acc.last
    BY <1>1
  <2> QED BY <1>1, <1>3, <2>1, KeepsItself DEF BatchOK
<1> QED BY <1>4 DEF acc, yes

LEMMA OneMore ==
  ASSUME NEW last \in Nat, NEW old, EntriesOK(old, last), NEW ops, OpsOK(ops), NEW n \in 1..Len(ops),
         NEW acc, BatchOK(old, last, ops, acc, n - 1)
  PROVE  BatchOK(old, last, ops, IF acc.ok THEN RunOperation(acc, ops[n]) ELSE acc, n)
<1>0. n \in Nat \ {0} /\ \A m : m \in 1..n <=> m \in 1..(n - 1) \/ m = n
  BY DEF OpsOK
<1>1. CASE ~acc.ok
  BY <1>1 DEF BatchOK
<1>2. CASE acc.ok
  <2> DEFINE op == ops[n]
             out == RunOperation(acc, op)
  <2>1. /\ Runner(acc) /\ last <= acc.last /\ EntriesOK(acc.studies, acc.last)
        /\ \A x \in IdsOf(old) :
             x \in IdsOf(acc.studies) \/ \E m \in 1..(n - 1) : ops[m].op = "remove" /\ ops[m].studyId = x
        /\ (\A m \in 1..(n - 1) : ops[m].op # "reorder") => Keeps(old, acc.studies)
    BY <1>2 DEF BatchOK
  <2>2. OperationOK(op)
    BY DEF OpsOK
  <2> HIDE DEF op
  <2>3. Runner(out) /\ Runs(acc, out, op)
    BY <1>2, <2>1, <2>2, OperationRuns
  <2> HIDE DEF out
  <2>4. acc.last \in Nat /\ out.last \in Nat /\ acc.last <= out.last
    BY <2>1, <2>3 DEF Runs, Runner
  <2>5. last <= out.last
    BY <2>1, <2>4
  <2>6. ASSUME out.ok
        PROVE  /\ EntriesOK(out.studies, out.last)
               /\ \A x \in IdsOf(old) :
                    x \in IdsOf(out.studies) \/ \E m \in 1..n : ops[m].op = "remove" /\ ops[m].studyId = x
               /\ (\A m \in 1..n : ops[m].op # "reorder") => Keeps(old, out.studies)
    <3>1. /\ EntriesOK(out.studies, out.last)
          /\ \A x \in IdsOf(out.studies) : x \in IdsOf(acc.studies) \/ x > acc.last
          /\ \A x \in IdsOf(acc.studies) :
               x \in IdsOf(out.studies) \/ (op.op = "remove" /\ op.studyId = x)
          /\ op.op # "reorder" => Keeps(acc.studies, out.studies)
      BY <2>3, <2>6 DEF Runs
    <3>2. \A x \in IdsOf(old) :
            x \in IdsOf(out.studies) \/ \E m \in 1..n : ops[m].op = "remove" /\ ops[m].studyId = x
      BY <1>0, <2>1, <3>1 DEF op
    <3>3. ASSUME \A m \in 1..n : ops[m].op # "reorder" PROVE Keeps(old, out.studies)
      <4>1. Keeps(old, acc.studies) /\ Keeps(acc.studies, out.studies)
        BY <1>0, <2>1, <3>1, <3>3 DEF op
      <4>2. ASSUME NEW x \in IdsOf(old), x \in IdsOf(out.studies) PROVE x \in IdsOf(acc.studies)
        <5>1. PICK i \in DOMAIN old : old[i].id = x
          BY IdsAre
        <5>2. x \in 1..last
          BY <5>1 DEF EntriesOK
        <5>3. ~(x > acc.last)
          BY <5>2, <2>1, <2>4
        <5> QED BY <3>1, <4>2, <5>3
      <4> QED BY <4>1, <4>2, KeepsOn
    <3> QED BY <3>1, <3>2, <3>3
  <2>7. BatchOK(old, last, ops, out, n)
    BY <2>3, <2>5, <2>6 DEF BatchOK
  <2> QED BY <2>7, <1>2 DEF out, op
<1> QED BY <1>1, <1>2

LEMMA BatchIs ==
  ASSUME NEW last \in Nat, NEW old, EntriesOK(old, last), NEW ops, OpsOK(ops)
  PROVE  BatchOK(old, last, ops, ApplyStudyOperations(old, ops, last), Len(ops))
<1> DEFINE start == [ok |-> TRUE, studies |-> old, last |-> last]
           edits == Len(ops)
           next(f, n) == IF n = 0 THEN start
                         ELSE IF f[n - 1].ok THEN RunOperation(f[n - 1], ops[n]) ELSE f[n - 1]
           Is(f, m) == f = [n \in 0..m |-> next(f, n)]
           after == CHOOSE f : Is(f, edits)
           lost == {m \in 0..edits : ~\E f : Is(f, m)}
           wrong == {m \in 0..edits : ~BatchOK(old, last, ops, after[m], m)}
<1>1. ApplyStudyOperations(old, ops, last) = after[edits]
  BY DEF ApplyStudyOperations
<1>2. edits \in Nat
  BY DEF OpsOK
<1>0. BatchOK(old, last, ops, start, 0)
  BY NoneYet
<1> HIDE DEF edits, start
<1>3. \A S \in SUBSET (0..edits) : S # {} => Min(S) \in S /\ \A k \in S : Min(S) <= k
  <2>1. IsFiniteSet(0..edits) /\ 0..edits \in SUBSET Int
    BY <1>2, FS_Interval
  <2>2. ASSUME NEW S \in SUBSET (0..edits), S # {} PROVE Min(S) \in S /\ \A k \in S : Min(S) <= k
    <3>1. S \in SUBSET Int /\ IsFiniteSet(S)
      BY <2>1, FS_Subset
    <3> QED BY <3>1, <2>2, EndsAre
  <2> QED BY <2>2
<1>4. ASSUME lost # {} PROVE FALSE
  <2> DEFINE m == Min(lost)
  <2>1. lost \in SUBSET (0..edits)
    OBVIOUS
  <2>2. m \in lost /\ \A k \in lost : m <= k
    <3> HIDE DEF lost
    <3> QED BY <1>3, <1>4, <2>1
  <2> HIDE DEF m
  <2>3. m \in 0..edits /\ ~\E f : Is(f, m)
    BY <2>2
  <2>4. CASE m = 0
    <3> DEFINE g == [n \in 0..m |-> start]
    <3>1. Is(g, m)
      BY <2>4
    <3> QED BY <3>1, <2>3
  <2>5. CASE m # 0
    <3>1. m - 1 \in 0..edits /\ ~(m <= m - 1) /\ m \in Nat
      BY <2>3, <2>5, <1>2
    <3>2. PICK f : Is(f, m - 1)
      BY <3>1, <2>2
    <3> DEFINE new == IF f[m - 1].ok THEN RunOperation(f[m - 1], ops[m]) ELSE f[m - 1]
               g == [n \in 0..m |-> IF n = m THEN new ELSE f[n]]
    <3>3. ASSUME NEW n \in 0..m PROVE g[n] = next(g, n)
      <4>1. CASE n = m
        <5>1. m - 1 \in 0..m /\ m - 1 # m
          BY <3>1, <2>5
        <5>2. g[n - 1] = f[m - 1] /\ g[n] = new
          BY <4>1, <5>1
        <5> QED BY <4>1, <5>2, <2>5
      <4>2. CASE n # m /\ n # 0
        <5>1. n \in 0..(m - 1) /\ n - 1 \in 0..m /\ n - 1 # m
          BY <4>2, <3>1
        <5>2. g[n] = f[n] /\ g[n - 1] = f[n - 1]
          BY <4>2, <5>1
        <5>3. f[n] = next(f, n)
          BY <5>1, <3>2
        <5> QED BY <5>2, <5>3, <4>2
      <4>3. CASE n = 0 /\ n # m
        <5>1. n \in 0..(m - 1)
          BY <4>3, <3>1
        <5> QED BY <5>1, <4>3, <3>2
      <4> QED BY <4>1, <4>2, <4>3
    <3>4. Is(g, m)
      <4>1. g = [n \in 0..m |-> g[n]]
        OBVIOUS
      <4> HIDE DEF g
      <4> QED BY <3>3, <4>1
    <3> QED BY <3>4, <2>3
  <2> QED BY <2>4, <2>5
<1>5. Is(after, edits)
  <2>1. edits \in 0..edits
    BY <1>2
  <2>2. \E f : Is(f, edits)
    BY <2>1, <1>4
  <2> HIDE DEF Is
  <2> QED BY <2>2
<1>6. \A n \in 0..edits : after[n] = next(after, n)
  <2> HIDE DEF after
  <2> QED BY <1>5
<1> HIDE DEF after, Is
<1>7. ASSUME wrong # {} PROVE FALSE
  <2> DEFINE m == Min(wrong)
  <2>1. wrong \in SUBSET (0..edits)
    OBVIOUS
  <2>2. m \in wrong /\ \A k \in wrong : m <= k
    <3> HIDE DEF wrong
    <3> QED BY <1>3, <1>7, <2>1
  <2> HIDE DEF m
  <2>3. m \in 0..edits /\ ~BatchOK(old, last, ops, after[m], m)
    BY <2>2
  <2>4. CASE m = 0
    <3>1. after[m] = start
      BY <2>3, <2>4, <1>6
    <3> QED BY <3>1, <2>3, <2>4, <1>0
  <2>5. CASE m # 0
    <3>1. m - 1 \in 0..edits /\ ~(m <= m - 1) /\ m \in 1..Len(ops)
      BY <2>3, <2>5, <1>2 DEF edits
    <3>2. BatchOK(old, last, ops, after[m - 1], m - 1)
      BY <3>1, <2>2
    <3>3. after[m] = IF after[m - 1].ok THEN RunOperation(after[m - 1], ops[m]) ELSE after[m - 1]
      BY <2>3, <2>5, <1>6
    <3>4. BatchOK(old, last, ops,
                  IF after[m - 1].ok THEN RunOperation(after[m - 1], ops[m]) ELSE after[m - 1], m)
      BY <3>1, <3>2, OneMore
    <3> QED BY <3>3, <3>4, <2>3
  <2> QED BY <2>4, <2>5
<1>8. edits \in 0..edits
  BY <1>2
<1>9. BatchOK(old, last, ops, after[edits], edits)
  BY <1>7, <1>8
<1> QED BY <1>1, <1>9 DEF edits

LEMMA BatchesAreOps ==
  ASSUME NEW ops \in Batches
  PROVE  OpsOK(ops) /\ ToSet(ops) = {ops[m] : m \in 1..Len(ops)}
<1>1. PICK n \in 1..MaxBatch : ops \in [1..n -> StudyOperations]
  BY DEF Batches
<1>2. n \in Nat /\ Len(ops) = n /\ DOMAIN ops = 1..n
  BY <1>1, ChartEditsAssumption
<1>3. ASSUME NEW op \in StudyOperations PROVE OperationOK(op)
  <2>1. CASE op \in [op: {"add"}, item: Items, order: 0..1]
    BY <2>1 DEF OperationOK
  <2>2. CASE op \in [op: {"set", "remove"}, studyId: StudyIds]
    BY <2>2 DEF OperationOK
  <2>3. CASE op \in [op: {"reorder"}, orderedIds: {ids \in UNION {[1..k -> StudyIds] : k \in 2..MaxStudies} :
                                                     IsInjective(ids)}]
    <3>1. op.op = "reorder" /\ op.orderedIds \in UNION {[1..k -> StudyIds] : k \in 2..MaxStudies}
      BY <2>3
    <3>2. PICK k \in 2..MaxStudies : op.orderedIds \in [1..k -> StudyIds]
      BY <3>1
    <3>3. k \in Nat /\ op.orderedIds = [i \in 1..k |-> op.orderedIds[i]]
      BY <3>2, ChartEditsAssumption
    <3>4. IsList(op.orderedIds)
      BY <3>3, ListsAre
    <3> QED BY <3>1, <3>4 DEF OperationOK
  <2> QED BY <2>1, <2>2, <2>3 DEF StudyOperations
<1> QED BY <1>1, <1>2, <1>3 DEF OpsOK, ToSet

\* A document whose studies and drawings have each their own id, none above
\* the last one given.
DrawnOK(doc, last) ==
  /\ doc = [studies |-> doc.studies, annotations |-> doc.annotations]
  /\ EntriesOK(doc.studies, last.study)
  /\ EntriesOK(doc.annotations, last.annotation)
EditInv ==
  /\ minted \in [{"tool"} -> [study : Nat, annotation : Nat]]
  /\ DrawnOK(stored, minted["tool"])
  /\ inverse # NoInverse => DrawnOK(inverse, minted["tool"])

LEMMA DrawingsAsStored ==
  ASSUME NEW last, NEW a, EntriesOK(a, last)
  PROVE  NormalizeAnnotations(a) = a
<1> DEFINE P == {i \in DOMAIN a : \A j \in 1..i - 1 : a[j].id # a[i].id}
<1>1. IsList(a) /\ UniqueIds(a)
  BY DEF EntriesOK
<1>2. Len(a) \in Nat /\ DOMAIN a = 1..Len(a)
  BY <1>1, ListHas
<1>3. ASSUME NEW i \in DOMAIN a, NEW j \in 1..i - 1 PROVE a[j].id # a[i].id
  <2>1. j \in DOMAIN a /\ j # i
    BY <1>2
  <2> QED BY <2>1, <1>1 DEF UniqueIds
<1>4. P = DOMAIN a
  BY <1>3
<1>5. Picked(a, DOMAIN a) = a
  BY <1>1, AllPicked
<1>6. NormalizeAnnotations(a) = Picked(a, P)
  BY DEF NormalizeAnnotations
<1> QED BY <1>4, <1>5, <1>6

\* What a document is read back as.
Shown(doc) == [studies |-> NormalizeStudies(doc.studies), annotations |-> doc.annotations]

LEMMA ReadsBack ==
  ASSUME NEW last, NEW doc, DrawnOK(doc, last)
  PROVE  [doc EXCEPT !.studies = NormalizeStudies(@), !.annotations = NormalizeAnnotations(@)] = Shown(doc)
<1> DEFINE s == doc.studies
           a == doc.annotations
           n == NormalizeStudies(s)
           mid == [doc EXCEPT !.studies = n]
<1>1. NormalizeAnnotations(a) = a
  BY DrawingsAsStored DEF DrawnOK
<1>2. doc = [studies |-> s, annotations |-> a]
  BY DEF DrawnOK
<1> HIDE DEF s, a, n
<1>3. mid = [studies |-> n, annotations |-> a]
  BY <1>2
<1>4. [doc EXCEPT !.studies = NormalizeStudies(@), !.annotations = NormalizeAnnotations(@)]
        = [mid EXCEPT !.annotations = NormalizeAnnotations(@)]
  BY DEF n, s
<1> HIDE DEF mid
<1>5. mid.annotations = a
  BY <1>3
<1>6. [mid EXCEPT !.annotations = NormalizeAnnotations(@)] = [studies |-> n, annotations |-> a]
  BY <1>1, <1>3, <1>5
<1> QED BY <1>4, <1>6 DEF Shown, n, s, a

LEMMA EntriesBelow ==
  ASSUME NEW last \in Nat, NEW more \in Nat, last <= more, NEW s, EntriesOK(s, last)
  PROVE  EntriesOK(s, more)
BY DEF EntriesOK

LEMMA DrawnBelow ==
  ASSUME NEW last \in [study : Nat, annotation : Nat], NEW more \in [study : Nat, annotation : Nat],
         last.study <= more.study, last.annotation <= more.annotation, NEW doc, DrawnOK(doc, last)
  PROVE  DrawnOK(doc, more)
BY EntriesBelow DEF DrawnOK

LEMMA NothingDrawn == DrawnOK(EmptyChart, [study |-> 0, annotation |-> 0])
<1>1. EntriesOK(<<>>, 0)
  BY DEF EntriesOK, IsList, UniqueIds
<1> QED BY <1>1 DEF DrawnOK, EmptyChart

\* The highest id of the entries, for a sequencer that starts after it.
LEMMA HighestIs ==
  ASSUME NEW last \in Nat, NEW s, EntriesOK(s, last)
  PROVE  HighestId(s) \in Nat /\ \A x \in IdsOf(s) : x <= HighestId(s)
<1> DEFINE S == IdsOf(s) \union {0}
<1>1. \A x \in IdsOf(s) : x \in 0..last
  <2>1. ASSUME NEW x \in IdsOf(s) PROVE x \in 0..last
    <3>1. PICK i \in DOMAIN s : s[i].id = x
      BY IdsAre
    <3>2. x \in 1..last
      BY <3>1 DEF EntriesOK
    <3> QED BY <3>2
  <2> QED BY <2>1
<1>2. S \in SUBSET (0..last)
  BY <1>1
<1>3. IsFiniteSet(0..last) /\ 0..last \in SUBSET Int
  BY FS_Interval
<1> HIDE DEF S
<1>4. S \in SUBSET Int /\ IsFiniteSet(S)
  BY <1>2, <1>3, FS_Subset
<1>5. S # {} /\ \A x \in IdsOf(s) : x \in S
  BY DEF S
<1>6. Max(S) \in S /\ \A k \in S : k <= Max(S)
  BY <1>4, <1>5, EndsAre
<1>7. Max(S) \in Nat
  <2>1. \A k \in S : k \in 0..last
    BY <1>2
  <2>2. Max(S) \in 0..last
    BY <2>1, <1>6
  <2> QED BY <2>2
<1>8. HighestId(s) = Max(S)
  BY DEF HighestId, S
<1> QED BY <1>5, <1>6, <1>7, <1>8

LEMMA ReadIs ==
  ASSUME EditInv
  PROVE  /\ ReadChart = Shown(stored)
         /\ ReadChart.studies = NormalizeStudies(stored.studies)
         /\ ReadChart.annotations = stored.annotations
BY ReadsBack DEF EditInv, ReadChart, Shown

LEMMA ReadIsNext ==
  ASSUME EditInv'
  PROVE  /\ ReadChart'.studies = NormalizeStudies(stored'.studies)
         /\ ReadChart'.annotations = stored'.annotations
<1>1. DrawnOK(stored', minted'["tool"])
  BY DEF EditInv
<1>2. ReadChart' = Shown(stored')
  BY <1>1, ReadsBack DEF ReadChart
<1> QED BY <1>2 DEF Shown

KeptOthers == DrawingsKept /\ StudiesKeepOrder

LEMMA OwnPrefix ==
  ASSUME NEW last, NEW a, EntriesOK(a, last)
  PROVE  IsPrefix(a, a)
<1>1. Len(a) \in Nat
  BY ListHas DEF EntriesOK
<1> QED BY <1>1 DEF IsPrefix

\* The document is as it was, and the operation is no edit of the studies.
LEMMA SameDocument ==
  ASSUME EditInv, EditInv', stored' = stored, edit'.op \notin {"studies", "annotate"}
  PROVE  KeptOthers
<1>1. ReadChart'.annotations = ReadChart.annotations
  BY ReadIs, ReadIsNext
<1>2. IsPrefix(ReadChart.annotations, ReadChart.annotations)
  BY ReadIs, OwnPrefix DEF EditInv, DrawnOK
<1>3. DrawingsKept
  BY <1>1, <1>2 DEF DrawingsKept
<1>4. StudiesKeepOrder
  BY DEF StudiesKeepOrder
<1> QED BY <1>3, <1>4 DEF KeptOthers

LEMMA OrderKept ==
  ASSUME NEW s, NEW t, Keeps(s, t), NEW a \in IdsOf(t), NEW b \in IdsOf(t), Before(s, a, b)
  PROVE  Before(t, a, b)
<1>1. PICK i \in DOMAIN s, j \in DOMAIN s :
        s[i].id = a /\ s[j].id = b /\ i < j /\ SamePane(s[i], s[j])
  BY DEF Before, Positions, SamePane
<1>2. PICK m \in DOMAIN t, k \in DOMAIN t : m < k /\ t[m] = s[i] /\ t[k] = s[j]
  BY <1>1 DEF Keeps
<1>3. m \in Positions(t, a) /\ k \in Positions(t, b)
  BY <1>1, <1>2 DEF Positions
<1> QED BY <1>1, <1>2, <1>3 DEF Before, SamePane

LEMMA EditStep ==
  ASSUME EditInv, NEW ops \in Batches, EditStudies("tool", ops)
  PROVE  EditInv' /\ KeptOthers
<1> DEFINE last == minted["tool"]
           old == NormalizeStudies(stored.studies)
           a == stored.annotations
           result == ApplyStudyOperations(old, ops, last.study)
           more == [last EXCEPT !.study = result.last]
<1>0. /\ minted \in [{"tool"} -> [study : Nat, annotation : Nat]]
      /\ last \in [study : Nat, annotation : Nat]
      /\ DrawnOK(stored, last)
      /\ inverse # NoInverse => DrawnOK(inverse, last)
  BY DEF EditInv
<1>1. /\ ReadChart = [studies |-> old, annotations |-> a]
      /\ ReadChart.studies = old
  BY ReadIs DEF Shown
<1>2. /\ IF result.ok THEN Commit([ReadChart EXCEPT !.studies = result.studies])
                      ELSE UNCHANGED <<stored, inverse>>
      /\ minted' = [minted EXCEPT !["tool"].study = result.last]
      /\ edit' = StudiesEdited(ops, result.ok)
  BY <1>1 DEF EditStudies
<1>3. EntriesOK(stored.studies, last.study) /\ EntriesOK(a, last.annotation)
  BY <1>0 DEF DrawnOK
<1>4. EntriesOK(old, last.study) /\ IdsOf(old) = IdsOf(stored.studies)
  BY <1>3, NormalizedIs
<1>5. OpsOK(ops) /\ ToSet(ops) = {ops[m] : m \in 1..Len(ops)}
  BY BatchesAreOps
<1>6. BatchOK(old, last.study, ops, result, Len(ops))
  BY <1>0, <1>4, <1>5, BatchIs
<1> HIDE DEF old, result
<1>7. result.last \in Nat /\ last.study <= result.last
  BY <1>6 DEF BatchOK, Runner
<1>8. /\ minted' \in [{"tool"} -> [study : Nat, annotation : Nat]] /\ minted'["tool"] = more
      /\ more \in [study : Nat, annotation : Nat] /\ more.study = result.last /\ more.annotation = last.annotation
  BY <1>0, <1>2, <1>7
<1> HIDE DEF last, more
<1>9. DrawnOK(stored, more) /\ (inverse # NoInverse => DrawnOK(inverse, more))
  <2>1. last.study <= more.study /\ last.annotation <= more.annotation
    BY <1>0, <1>7, <1>8
  <2> QED BY <2>1, <1>0, <1>8, DrawnBelow
<1> DEFINE yes == result.ok
           moved == \E o \in ToSet(ops) : o.op = "reorder"
           gone == {o.studyId : o \in {p \in ToSet(ops) : p.op = "remove"}}
<1>10. edit' = [op |-> "studies", ok |-> yes, reordered |-> moved, removed |-> gone]
  BY <1>2 DEF StudiesEdited
<1>11. moved <=> \E m \in 1..Len(ops) : ops[m].op = "reorder"
  BY <1>5
<1>12. \A x : x \in gone <=> \E m \in 1..Len(ops) : ops[m].op = "remove" /\ ops[m].studyId = x
  BY <1>5
<1> HIDE DEF yes, moved, gone
<1>13. edit'.op = "studies" /\ edit'.ok = yes /\ edit'.reordered = moved /\ edit'.removed = gone
  BY <1>10
<1>14. IsPrefix(a, a)
  BY <1>3, OwnPrefix
<1>15. CASE ~yes
  <2>1. stored' = stored /\ inverse' = inverse
    BY <1>2, <1>15 DEF yes
  <2>2. EditInv'
    BY <2>1, <1>8, <1>9 DEF EditInv
  <2>3. ReadChart'.studies = old /\ ReadChart'.annotations = a
    BY <2>1, <2>2, ReadIsNext DEF old
  <2>4. DrawingsKept
    BY <2>3, <1>1, <1>13, <1>14 DEF DrawingsKept
  <2>5. ReadChart'.studies = ReadChart.studies
    BY <2>3, <1>1
  <2>6. \A x, y \in IdsOf(ReadChart.studies) \intersect IdsOf(ReadChart'.studies) :
          Before(ReadChart.studies, x, y) => Before(ReadChart'.studies, x, y)
    BY <2>5
  <2>7. StudiesKeepOrder
    BY <2>5, <2>6, <1>13, <1>15 DEF StudiesKeepOrder
  <2> QED BY <2>2, <2>4, <2>7 DEF KeptOthers
<1>16. CASE yes
  <2> DEFINE s == result.studies
             new == NormalizeStudies(s)
  <2>1. /\ EntriesOK(s, result.last)
        /\ \A x \in IdsOf(old) :
             x \in IdsOf(s) \/ \E m \in 1..Len(ops) : ops[m].op = "remove" /\ ops[m].studyId = x
        /\ (\A m \in 1..Len(ops) : ops[m].op # "reorder") => Keeps(old, s)
    BY <1>6, <1>16 DEF BatchOK, yes
  <2>2. stored' = [ReadChart EXCEPT !.studies = s] /\ inverse' = stored
    BY <1>2, <1>16 DEF yes, Commit
  <2> HIDE DEF s
  <2>3. stored' = [studies |-> s, annotations |-> a]
    BY <2>2, <1>1
  <2>4. stored'.studies = s /\ stored'.annotations = a
    BY <2>3
  <2>5. DrawnOK(stored', more)
    BY <2>1, <2>3, <2>4, <1>3, <1>8 DEF DrawnOK
  <2>6. EditInv'
    BY <2>2, <2>5, <1>8, <1>9 DEF EditInv
  <2>7. EntriesOK(new, result.last) /\ IdsOf(new) = IdsOf(s) /\ Keeps(s, new)
    BY <2>1, NormalizedIs
  <2>8. ReadChart'.studies = new /\ ReadChart'.annotations = a
    BY <2>4, <2>6, ReadIsNext
  <2> HIDE DEF new
  <2>9. DrawingsKept
    BY <2>8, <1>1, <1>13, <1>14 DEF DrawingsKept
  <2>10. IdsOf(old) \ gone \subseteq IdsOf(new)
    BY <2>1, <2>7, <1>12
  <2>11. ASSUME ~moved, NEW x \in IdsOf(old) \intersect IdsOf(new), NEW y \in IdsOf(old) \intersect IdsOf(new),
                Before(old, x, y)
         PROVE  Before(new, x, y)
    <3>1. Keeps(old, s)
      BY <2>1, <2>11, <1>11
    <3>2. Keeps(old, new)
      BY <3>1, <2>7, KeepsOn
    <3> QED BY <3>2, <2>11, OrderKept
  <2>12. StudiesKeepOrder
    <3>1. /\ IdsOf(ReadChart.studies) \ edit'.removed \subseteq IdsOf(ReadChart'.studies)
          /\ ~edit'.reordered =>
               \A x, y \in IdsOf(ReadChart.studies) \intersect IdsOf(ReadChart'.studies) :
                 Before(ReadChart.studies, x, y) => Before(ReadChart'.studies, x, y)
      BY <2>8, <2>10, <2>11, <1>1, <1>13
    <3> QED BY <3>1, <1>13, <1>16 DEF StudiesKeepOrder
  <2> QED BY <2>6, <2>9, <2>12 DEF KeptOthers
<1> QED BY <1>15, <1>16

LEMMA AnnotateStep ==
  ASSUME EditInv, AddAnnotation("tool")
  PROVE  EditInv' /\ KeptOthers
<1> DEFINE last == minted["tool"]
           a == stored.annotations
           n == Len(a)
           s == NormalizeStudies(stored.studies)
           id == last.annotation + 1
           x == [id |-> id]
           new == Append(a, x)
           more == [last EXCEPT !.annotation = id]
<1>0. /\ minted \in [{"tool"} -> [study : Nat, annotation : Nat]]
      /\ last \in [study : Nat, annotation : Nat]
      /\ DrawnOK(stored, last)
  BY DEF EditInv
<1>1. ReadChart = [studies |-> s, annotations |-> a] /\ ReadChart.annotations = a
  BY ReadIs DEF Shown
<1>2. /\ stored' = [ReadChart EXCEPT !.annotations = Append(@, x)] /\ inverse' = stored
      /\ minted' = [minted EXCEPT !["tool"].annotation = id]
      /\ edit' = [NoEdit EXCEPT !.op = "annotate"]
  BY DEF AddAnnotation, Commit
<1>3. EntriesOK(stored.studies, last.study) /\ EntriesOK(a, last.annotation)
  BY <1>0 DEF DrawnOK
<1>4. EntriesOK(s, last.study)
  BY <1>3, NormalizedIs
<1>5. edit'.op = "annotate"
  BY <1>2 DEF NoEdit
<1>6. x.id = id /\ id \in Nat /\ last.annotation < id
  BY <1>0
<1> HIDE DEF s, a, id
<1>7. /\ minted' \in [{"tool"} -> [study : Nat, annotation : Nat]] /\ minted'["tool"] = more
      /\ more \in [study : Nat, annotation : Nat] /\ more.study = last.study /\ more.annotation = id
  BY <1>0, <1>2, <1>6
<1> HIDE DEF more, x
<1>8. DrawnOK(stored, more)
  <2>1. last.study <= more.study /\ last.annotation <= more.annotation
    BY <1>0, <1>6, <1>7
  <2> QED BY <2>1, <1>0, <1>7, DrawnBelow
<1>9. /\ n \in Nat /\ DOMAIN a = 1..n /\ a \in Seq(ToSet(a)) /\ UniqueIds(a)
      /\ \A i \in 1..n : a[i].id \in 1..last.annotation
  BY <1>3, ListHas DEF EntriesOK, IsList
<1>10. /\ new \in Seq(ToSet(a) \union {x}) /\ Len(new) = n + 1
       /\ new[n + 1] = x /\ \A i \in 1..n : new[i] = a[i]
  <2>1. a \in Seq(ToSet(a) \union {x}) /\ x \in ToSet(a) \union {x}
    BY <1>9
  <2> QED BY <2>1
<1>11. IsPrefix(a, new) /\ Len(new) = n + 1
  <2>1. n <= Len(new)
    BY <1>9, <1>10
  <2>2. SubSeq(a, 1, n) = SubSeq(new, 1, n)
    <3>1. SubSeq(a, 1, n) = [i \in 1..n |-> a[i]]
      BY <1>9
    <3>2. SubSeq(new, 1, n) = [i \in 1..n |-> new[i]]
      BY <1>9, <1>10
    <3> QED BY <3>1, <3>2, <1>10
  <2> QED BY <2>1, <2>2, <1>10 DEF IsPrefix
<1> HIDE DEF new, n
<1>12. EntriesOK(new, id)
  <2>1. IsList(new) /\ DOMAIN new = 1..(n + 1)
    BY <1>9, <1>10, SequencesAreLists
  <2>2. \A i \in 1..(n + 1) : i = n + 1 \/ i \in 1..n
    BY <1>9
  <2>3. \A i \in 1..(n + 1) : new[i].id \in 1..id
    <3>1. ASSUME NEW i \in 1..(n + 1) PROVE new[i].id \in 1..id
      <4>1. CASE i = n + 1
        <5>1. id \in 1..id
          BY <1>0, <1>6
        <5> QED BY <5>1, <4>1, <1>6, <1>10
      <4>2. CASE i \in 1..n
        <5>1. a[i].id \in 1..last.annotation
          BY <4>2, <1>9
        <5>2. a[i].id \in 1..id
          BY <5>1, <1>0, <1>6
        <5> QED BY <5>2, <4>2, <1>10
      <4> QED BY <4>1, <4>2, <2>2
    <3> QED BY <3>1
  <2>4. \A i \in 1..n : new[i].id # id
    <3>1. ASSUME NEW i \in 1..n PROVE new[i].id # id
      <4>1. a[i].id \in 1..last.annotation
        BY <1>9
      <4>2. a[i].id # id
        BY <4>1, <1>0, <1>6
      <4> QED BY <4>2, <1>10
    <3> QED BY <3>1
  <2>5. UniqueIds(new)
    <3>1. ASSUME NEW i \in 1..(n + 1), NEW j \in 1..(n + 1), new[i].id = new[j].id PROVE i = j
      <4>1. CASE i = n + 1 /\ j = n + 1
        BY <4>1
      <4>2. CASE i = n + 1 /\ j # n + 1
        BY <4>2, <3>1, <2>2, <2>4, <1>6, <1>10
      <4>3. CASE i # n + 1 /\ j = n + 1
        BY <4>3, <3>1, <2>2, <2>4, <1>6, <1>10
      <4>4. CASE i # n + 1 /\ j # n + 1
        BY <4>4, <3>1, <2>2, <1>9, <1>10 DEF UniqueIds
      <4> QED BY <4>1, <4>2, <4>3, <4>4
    <3> QED BY <3>1, <2>1 DEF UniqueIds
  <2> QED BY <2>1, <2>3, <2>5 DEF EntriesOK
<1>13. stored' = [studies |-> s, annotations |-> new]
  <2>1. stored' = [ReadChart EXCEPT !.annotations = new]
    BY <1>1, <1>2 DEF new
  <2> QED BY <2>1, <1>1
<1>14. stored'.studies = s /\ stored'.annotations = new
  BY <1>13
<1>15. DrawnOK(stored', more)
  BY <1>4, <1>7, <1>12, <1>13, <1>14 DEF DrawnOK
<1>16. EditInv'
  BY <1>2, <1>7, <1>8, <1>15 DEF EditInv
<1>17. ReadChart'.annotations = new
  BY <1>14, <1>16, ReadIsNext
<1>18. DrawingsKept
  BY <1>1, <1>11, <1>17 DEF DrawingsKept, n
<1>19. StudiesKeepOrder
  BY <1>5 DEF StudiesKeepOrder
<1> QED BY <1>16, <1>18, <1>19 DEF KeptOthers

LEMMA UndoEditStep ==
  ASSUME EditInv, UndoEdit
  PROVE  EditInv' /\ KeptOthers
<1>1. EditInv'
  BY DEF EditInv, UndoEdit
<1>2. edit'.op = "undo"
  BY DEF UndoEdit, NoEdit
<1> QED BY <1>1, <1>2 DEF KeptOthers, DrawingsKept, StudiesKeepOrder

LEMMA ReloadStep ==
  ASSUME Paths = {"tool"}, EditInv, Reload
  PROVE  EditInv' /\ KeptOthers
<1>1. stored' = stored /\ inverse' = NoInverse /\ edit' = [NoEdit EXCEPT !.op = "reload"]
  BY DEF Reload
<1>2. minted' = [p \in {"tool"} |-> Seed]
  BY DEF Reload
<1>3. edit'.op = "reload"
  BY <1>1 DEF NoEdit
<1> DEFINE last == minted["tool"]
           s == NormalizeStudies(stored.studies)
<1>4. /\ last.study \in Nat /\ last.annotation \in Nat
      /\ stored = [studies |-> stored.studies, annotations |-> stored.annotations]
      /\ EntriesOK(stored.studies, last.study) /\ EntriesOK(stored.annotations, last.annotation)
  BY DEF EditInv, DrawnOK
<1>5. EntriesOK(s, last.study) /\ IdsOf(s) = IdsOf(stored.studies)
  BY <1>4, NormalizedIs
<1>6. Seed = [study |-> HighestId(s), annotation |-> HighestId(stored.annotations)]
  BY ReadIs DEF Seed
<1> HIDE DEF s, last
<1>7. HighestId(s) \in Nat /\ \A x \in IdsOf(s) : x <= HighestId(s)
  BY <1>4, <1>5, HighestIs
<1>8. HighestId(stored.annotations) \in Nat
      /\ \A x \in IdsOf(stored.annotations) : x <= HighestId(stored.annotations)
  BY <1>4, HighestIs
<1>9. ASSUME NEW t, NEW l \in Nat, NEW h \in Nat, EntriesOK(t, l), \A x \in IdsOf(t) : x <= h
      PROVE  EntriesOK(t, h)
  <2>1. ASSUME NEW i \in DOMAIN t PROVE t[i].id \in 1..h
    <3>1. t[i].id \in IdsOf(t) /\ t[i].id \in 1..l
      BY <1>9, IdsAre DEF EntriesOK
    <3> QED BY <3>1, <1>9
  <2> QED BY <2>1, <1>9 DEF EntriesOK
<1>10. EntriesOK(stored.studies, HighestId(s))
  BY <1>4, <1>5, <1>7, <1>9
<1>11. EntriesOK(stored.annotations, HighestId(stored.annotations))
  BY <1>4, <1>8, <1>9
<1>12. DrawnOK(stored, Seed)
  BY <1>4, <1>6, <1>10, <1>11 DEF DrawnOK
<1>13. Seed \in [study : Nat, annotation : Nat]
  BY <1>6, <1>7, <1>8
<1>14. EditInv'
  BY <1>1, <1>2, <1>12, <1>13 DEF EditInv
<1> QED BY <1>1, <1>3, <1>14, SameDocument

\* Ids of what is drawn are all different and below the next one the chart's
\* sequencer gives, through edits, undo and reloads; so an accepted drawing
\* can be read back, and an edit keeps the studies it does not name and their
\* order.  For charts edited by their own tools: the sequencer of preview and
\* apply is not seeded from the chart.
THEOREM ChartEditsAlwaysKeep ==
  ASSUME Paths = {"tool"}
  PROVE  EditSpec => ChartEditsKeepOthers
<1>1. EditInit => EditInv
  <2>1. ASSUME EditInit PROVE EditInv
    <3>1. /\ stored = EmptyChart /\ inverse = NoInverse
          /\ minted = [p \in {"tool"} |-> [study |-> 0, annotation |-> 0]]
      BY <2>1 DEF EditInit
    <3>2. minted["tool"] = [study |-> 0, annotation |-> 0]
      BY <3>1
    <3> QED BY <3>1, <3>2, NothingDrawn DEF EditInv
  <2> QED BY <2>1
<1>2. ASSUME EditInv, EditNext PROVE EditInv' /\ KeptOthers
  BY <1>2, EditStep, AnnotateStep, UndoEditStep, ReloadStep DEF EditNext
<1>3. EditInv /\ [EditNext]_editVars => EditInv'
  BY <1>2 DEF EditInv, editVars
<1>4. EditInv /\ [EditNext]_editVars => [DrawingsKept /\ StudiesKeepOrder]_editVars
  BY <1>2 DEF KeptOthers
<1> QED BY <1>1, <1>3, <1>4, PTL DEF EditSpec, ChartEditsKeepOthers

-----------------------------------------------------------------------------
(* CustomStudies.  Every value a node has comes from its operands, which    *)
(* are farther from the root, so what holds of a node when it holds of its  *)
(* operands holds of all of them: of those of which it did not, one would   *)
(* be farthest from the root.                                               *)

\* A set of paths that are short enough has a longest one.
LEMMA Deepest ==
  ASSUME NEW S, S \subseteq Seq({"left", "right"}), S # {},
         NEW d \in Nat, \A p \in S : Len(p) < d
  PROVE  \E p \in S : \A q \in S : Len(q) <= Len(p)
<1> DEFINE lens == {Len(p) : p \in S}
<1>1. \A p \in S : Len(p) \in Nat
  OBVIOUS
<1>2. lens \subseteq 0..d /\ lens # {}
  <2>1. \A p \in S : Len(p) \in 0..d
    BY <1>1
  <2>2. PICK p \in S : TRUE
    OBVIOUS
  <2> QED BY <2>1, <2>2
<1>3. lens \in SUBSET Int /\ IsFiniteSet(lens)
  <2>1. IsFiniteSet(0..d) /\ 0..d \subseteq Int
    BY FS_Interval
  <2> HIDE DEF lens
  <2> QED BY <2>1, <1>2, FS_Subset
<1>4. Max(lens) \in lens /\ \A k \in lens : k <= Max(lens)
  <2> HIDE DEF lens
  <2> QED BY <1>2, <1>3, EndsAre
<1>5. PICK p \in S : Len(p) = Max(lens)
  BY <1>4
<1> QED BY <1>4, <1>5

\* The operands of a binary node are nodes, one step farther from the root.
LEMMA OperandsAre ==
  ASSUME NEW e, IsExpression(e), NEW path \in DOMAIN e
  PROVE  /\ Len(path) \in Nat
         /\ IsBinary(e[path]) => \A side \in {"left", "right"} :
              Operand(path, side) \in DOMAIN e /\ Len(Operand(path, side)) = Len(path) + 1
<1>1. path \in Seq({"left", "right"})
  BY DEF IsExpression
<1>2. ASSUME NEW side \in {"left", "right"}
      PROVE  Len(Operand(path, side)) = Len(path) + 1
  BY <1>1 DEF Operand
<1>3. ASSUME IsBinary(e[path]), NEW side \in {"left", "right"}
      PROVE  Operand(path, side) \in DOMAIN e
  BY <1>3 DEF IsExpression
<1> QED BY <1>1, <1>2, <1>3

Shallow(e, d) == \A path \in DOMAIN e : Len(path) < d

\* Resolution gives every node what its operands give it.
LEMMA ResolveIs ==
  ASSUME NEW c, NEW e, IsExpression(e), NEW d \in Nat, Shallow(e, d)
  PROVE  Resolve(c, e) =
           [path \in DOMAIN e |->
              IF IsBinary(e[path])
              THEN ResolveBinary(e[path], Resolve(c, e)[Operand(path, "left")],
                                 Resolve(c, e)[Operand(path, "right")])
              ELSE ResolveLeaf(c, e[path])]
<1> DEFINE next(f, path) == IF IsBinary(e[path])
                            THEN ResolveBinary(e[path], f[Operand(path, "left")], f[Operand(path, "right")])
                            ELSE ResolveLeaf(c, e[path])
           Below(m) == {path \in DOMAIN e : d - m <= Len(path)}
           Is(f, m) == f = [path \in Below(m) |-> next(f, path)]
           lost == {m \in 0..d : ~\E f : Is(f, m)}
<1>1. ASSUME lost # {} PROVE FALSE
  <2> DEFINE m == Min(lost)
  <2>1. m \in lost /\ \A k \in lost : m <= k
    <3>1. lost \subseteq 0..d /\ IsFiniteSet(0..d) /\ 0..d \subseteq Int
      BY FS_Interval
    <3> HIDE DEF lost
    <3>2. lost \in SUBSET Int /\ IsFiniteSet(lost)
      BY <3>1, FS_Subset
    <3> QED BY <1>1, <3>2, EndsAre
  <2> HIDE DEF m
  <2>2. m \in 0..d /\ ~\E f : Is(f, m)
    BY <2>1
  <2>3. CASE m = 0
    <3>1. Below(m) = {}
      BY <2>3, OperandsAre DEF Shallow
    <3> DEFINE g == [path \in {} |-> path]
    <3>2. Is(g, m)
      BY <3>1
    <3> QED BY <3>2, <2>2
  <2>4. CASE m # 0
    <3>1. m - 1 \in 0..d /\ ~(m <= m - 1) /\ m \in Nat
      BY <2>2, <2>4
    <3>2. PICK f : Is(f, m - 1)
      BY <3>1, <2>1
    <3> DEFINE g == [path \in Below(m) |-> IF path \in Below(m - 1) THEN f[path] ELSE next(f, path)]
    <3>3. ASSUME NEW path \in Below(m) PROVE g[path] = next(g, path)
      <4>1. path \in DOMAIN e /\ Len(path) \in Nat /\ d - m <= Len(path)
        BY <3>3, OperandsAre
      <4>2. g[path] = next(f, path)
        BY <3>2, <3>3
      <4>3. CASE IsBinary(e[path])
        <5>1. \A side \in {"left", "right"} :
                Operand(path, side) \in Below(m - 1) /\ Operand(path, side) \in Below(m)
          BY <4>1, <4>3, <3>1, OperandsAre
        <5>2. \A side \in {"left", "right"} : g[Operand(path, side)] = f[Operand(path, side)]
          BY <5>1
        <5> HIDE DEF g
        <5> QED BY <4>2, <4>3, <5>2
      <4>4. CASE ~IsBinary(e[path])
        <5> HIDE DEF g
        <5> QED BY <4>2, <4>4
      <4> QED BY <4>3, <4>4
    <3>4. Is(g, m)
      <4>1. g = [path \in Below(m) |-> g[path]]
        OBVIOUS
      <4> HIDE DEF g
      <4> QED BY <3>3, <4>1
    <3> QED BY <3>4, <2>2
  <2> QED BY <2>3, <2>4
<1>2. \E f : Is(f, d)
  <2>1. d \in 0..d
    OBVIOUS
  <2> QED BY <1>1, <2>1
<1>3. Below(d) = DOMAIN e
  <2>1. ASSUME NEW path \in DOMAIN e PROVE d - d <= Len(path)
    <3>1. Len(path) \in Nat
      BY OperandsAre
    <3> QED BY <3>1
  <2> QED BY <2>1
<1>4. \E f : f = [path \in DOMAIN e |-> next(f, path)]
  BY <1>2, <1>3
<1>5. Resolve(c, e) = (CHOOSE f : f = [path \in DOMAIN e |-> next(f, path)])
  BY Zenon DEF Resolve
<1> QED BY <1>4, <1>5, Zenon

\* A row gives every node what it makes of the values of its operands.
LEMMA EvaluateIs ==
  ASSUME NEW c, NEW e, IsExpression(e), NEW d \in Nat, Shallow(e, d), NEW row
  PROVE  \E at :
           /\ at = [path \in DOMAIN e |->
                     IF IsBinary(e[path])
                     THEN EvaluateBinary(e[path], at[Operand(path, "left")], at[Operand(path, "right")])
                     ELSE EvaluateLeaf(c, e[path], row)]
           /\ Evaluate(c, e, row) = at[<<>>]
<1> DEFINE next(f, path) == IF IsBinary(e[path])
                            THEN EvaluateBinary(e[path], f[Operand(path, "left")], f[Operand(path, "right")])
                            ELSE EvaluateLeaf(c, e[path], row)
           Below(m) == {path \in DOMAIN e : d - m <= Len(path)}
           Is(f, m) == f = [path \in Below(m) |-> next(f, path)]
           lost == {m \in 0..d : ~\E f : Is(f, m)}
<1>1. ASSUME lost # {} PROVE FALSE
  <2> DEFINE m == Min(lost)
  <2>1. m \in lost /\ \A k \in lost : m <= k
    <3>1. lost \subseteq 0..d /\ IsFiniteSet(0..d) /\ 0..d \subseteq Int
      BY FS_Interval
    <3> HIDE DEF lost
    <3>2. lost \in SUBSET Int /\ IsFiniteSet(lost)
      BY <3>1, FS_Subset
    <3> QED BY <1>1, <3>2, EndsAre
  <2> HIDE DEF m
  <2>2. m \in 0..d /\ ~\E f : Is(f, m)
    BY <2>1
  <2>3. CASE m = 0
    <3>1. Below(m) = {}
      BY <2>3, OperandsAre DEF Shallow
    <3> DEFINE g == [path \in {} |-> path]
    <3>2. Is(g, m)
      BY <3>1
    <3> QED BY <3>2, <2>2
  <2>4. CASE m # 0
    <3>1. m - 1 \in 0..d /\ ~(m <= m - 1) /\ m \in Nat
      BY <2>2, <2>4
    <3>2. PICK f : Is(f, m - 1)
      BY <3>1, <2>1
    <3> DEFINE g == [path \in Below(m) |-> IF path \in Below(m - 1) THEN f[path] ELSE next(f, path)]
    <3>3. ASSUME NEW path \in Below(m) PROVE g[path] = next(g, path)
      <4>1. path \in DOMAIN e /\ Len(path) \in Nat /\ d - m <= Len(path)
        BY <3>3, OperandsAre
      <4>2. g[path] = next(f, path)
        BY <3>2, <3>3
      <4>3. CASE IsBinary(e[path])
        <5>1. \A side \in {"left", "right"} :
                Operand(path, side) \in Below(m - 1) /\ Operand(path, side) \in Below(m)
          BY <4>1, <4>3, <3>1, OperandsAre
        <5>2. \A side \in {"left", "right"} : g[Operand(path, side)] = f[Operand(path, side)]
          BY <5>1
        <5> HIDE DEF g
        <5> QED BY <4>2, <4>3, <5>2
      <4>4. CASE ~IsBinary(e[path])
        <5> HIDE DEF g
        <5> QED BY <4>2, <4>4
      <4> QED BY <4>3, <4>4
    <3>4. Is(g, m)
      <4>1. g = [path \in Below(m) |-> g[path]]
        OBVIOUS
      <4> HIDE DEF g
      <4> QED BY <3>3, <4>1
    <3> QED BY <3>4, <2>2
  <2> QED BY <2>3, <2>4
<1>2. \E f : Is(f, d)
  <2>1. d \in 0..d
    OBVIOUS
  <2> QED BY <1>1, <2>1
<1>3. Below(d) = DOMAIN e
  <2>1. ASSUME NEW path \in DOMAIN e PROVE d - d <= Len(path)
    <3>1. Len(path) \in Nat
      BY OperandsAre
    <3> QED BY <3>1
  <2> QED BY <2>1
<1>4. \E f : f = [path \in DOMAIN e |-> next(f, path)]
  BY <1>2, <1>3
<1>5. Evaluate(c, e, row) = (CHOOSE f : f = [path \in DOMAIN e |-> next(f, path)])[<<>>]
  BY Zenon DEF Evaluate
<1> QED BY <1>4, <1>5, Zenon

\* Two expressions of one shape whose leaves come to the same come to the same.
LEMMA ResolveAgrees ==
  ASSUME NEW c, NEW e, IsExpression(e), NEW d \in Nat, Shallow(e, d),
         NEW b, NEW f, IsExpression(f), DOMAIN f = DOMAIN e,
         \A path \in DOMAIN e :
           \/ IsBinary(e[path]) /\ f[path] = e[path]
           \/ ~IsBinary(e[path]) /\ ~IsBinary(f[path])
              /\ ResolveLeaf(b, f[path]) = ResolveLeaf(c, e[path])
  PROVE  Resolve(b, f) = Resolve(c, e)
<1> DEFINE x == Resolve(c, e)
           y == Resolve(b, f)
           off == {path \in DOMAIN e : x[path] # y[path]}
<1>0. Shallow(f, d)
  BY DEF Shallow
<1>1. x = [path \in DOMAIN e |->
            IF IsBinary(e[path])
            THEN ResolveBinary(e[path], x[Operand(path, "left")], x[Operand(path, "right")])
            ELSE ResolveLeaf(c, e[path])]
  BY ResolveIs
<1>2. y = [path \in DOMAIN f |->
            IF IsBinary(f[path])
            THEN ResolveBinary(f[path], y[Operand(path, "left")], y[Operand(path, "right")])
            ELSE ResolveLeaf(b, f[path])]
  BY <1>0, ResolveIs
<1> HIDE DEF x, y
<1>3. ASSUME off # {} PROVE FALSE
  <2>1. off \subseteq Seq({"left", "right"}) /\ \A p \in off : Len(p) < d
    BY DEF IsExpression, Shallow
  <2>2. PICK path \in off : \A q \in off : Len(q) <= Len(path)
    <3> HIDE DEF off
    <3> QED BY <2>1, <1>3, Deepest
  <2>3. path \in DOMAIN e /\ x[path] # y[path]
    BY <2>2
  <2>4. CASE IsBinary(e[path])
    <3>1. \A side \in {"left", "right"} : Operand(path, side) \in DOMAIN e \ off
      <4> SUFFICES ASSUME NEW side \in {"left", "right"} PROVE Operand(path, side) \in DOMAIN e \ off
        OBVIOUS
      <4>1. /\ Operand(path, side) \in DOMAIN e /\ Len(Operand(path, side)) = Len(path) + 1
            /\ Len(path) \in Nat
        BY <2>3, <2>4, OperandsAre
      <4>2. ~(Len(Operand(path, side)) <= Len(path))
        BY <4>1
      <4> HIDE DEF off
      <4> QED BY <4>1, <4>2, <2>2
    <3>2. \A side \in {"left", "right"} : x[Operand(path, side)] = y[Operand(path, side)]
      BY <3>1
    <3>3. f[path] = e[path]
      BY <2>3, <2>4
    <3>4. x[path] = ResolveBinary(e[path], x[Operand(path, "left")], x[Operand(path, "right")])
      BY <1>1, <2>3, <2>4
    <3>5. y[path] = ResolveBinary(f[path], y[Operand(path, "left")], y[Operand(path, "right")])
      BY <1>2, <2>3, <2>4, <3>3
    <3> QED BY <2>3, <3>2, <3>3, <3>4, <3>5
  <2>5. CASE ~IsBinary(e[path])
    <3>1. x[path] = ResolveLeaf(c, e[path])
      BY <1>1, <2>3, <2>5
    <3>2. ~IsBinary(f[path]) /\ ResolveLeaf(b, f[path]) = ResolveLeaf(c, e[path])
      BY <2>3, <2>5
    <3>3. y[path] = ResolveLeaf(b, f[path])
      BY <1>2, <2>3, <3>2
    <3> QED BY <2>3, <3>1, <3>2, <3>3
  <2> QED BY <2>4, <2>5
<1>4. DOMAIN x = DOMAIN e /\ DOMAIN y = DOMAIN e
  BY <1>1, <1>2
<1>5. \A path \in DOMAIN e : x[path] = y[path]
  BY <1>3
<1>6. x = [path \in DOMAIN x |-> x[path]] /\ y = [path \in DOMAIN y |-> y[path]]
  BY <1>1, <1>2
<1>7. x = y
  <2> HIDE DEF off
  <2> QED BY <1>4, <1>5, <1>6
<1> QED BY <1>7 DEF x, y

CatalogOK(c) == \A id \in DOMAIN c : IsItem(c[id])

\* What the validator accepts.
Accepted(c, e) ==
  /\ IsExpression(e) /\ Shallow(e, maxDepth) /\ Cardinality(DOMAIN e) <= maxNodes
  /\ \A path \in DOMAIN e : Resolve(c, e)[path].ok

\* What is stored: nothing is left for the validator to fill in.
RecordOK(c, record) ==
  /\ Accepted(c, record.node)
  /\ \A path \in DOMAIN record.node : ResolvedNode(c, record.node[path]) = record.node[path]
  /\ record.type = Resolve(c, record.node)[<<>>].type
  /\ record.unit = Resolve(c, record.node)[<<>>].unit

LEMMA NodesAre ==
  ASSUME NEW node, IsNode(node)
  PROVE  \/ IsBinary(node) /\ node.op \in Operators[node.kind] /\ node.kind \in {"arithmetic", "comparison"}
         \/ ~IsBinary(node) /\ node.kind = "literal" /\ node.value.type \in Types
         \/ ~IsBinary(node) /\ node.kind = "field_ref"
         \/ ~IsBinary(node) /\ node.kind = "function_call"
            /\ node = [kind |-> "function_call", id |-> node.id, args |-> node.args,
                       outputName |-> node.outputName]
<1>1. DOMAIN Operators = {"arithmetic", "comparison"}
  BY DEF Operators
<1> QED BY <1>1 DEF IsNode, IsBinary, LiteralTypes

LEMMA AcceptedIs ==
  ASSUME NEW c, NEW e, IsExpression(e)
  PROVE  /\ ValidateExpression(c, e).ok <=> Accepted(c, e)
         /\ Accepted(c, e) => ValidateExpression(c, e) =
              [ok |-> TRUE, type |-> Resolve(c, e)[<<>>].type, unit |-> Resolve(c, e)[<<>>].unit,
               node |-> [path \in DOMAIN e |-> ResolvedNode(c, e[path])]]
<1>1. CASE Accepted(c, e)
  BY <1>1 DEF Accepted, ValidateExpression, Shallow
<1>2. CASE ~Accepted(c, e)
  <2>1. ~(Cardinality(DOMAIN e) <= maxNodes
           /\ \A path \in DOMAIN e : Len(path) < maxDepth /\ Resolve(c, e)[path].ok)
    BY <1>2 DEF Accepted, Shallow
  <2>2. ValidateExpression(c, e) = [ok |-> FALSE]
    BY <2>1 DEF ValidateExpression
  <2> QED BY <1>2, <2>2
<1> QED BY <1>1, <1>2

LEMMA RootIs ==
  ASSUME NEW e, IsExpression(e)
  PROVE  <<>> \in DOMAIN e
BY DEF IsExpression

\* What is accepted has its leaves accepted.
LEMMA LeavesHold ==
  ASSUME NEW c, NEW e, Accepted(c, e), NEW path \in DOMAIN e
  PROVE  /\ IsNode(e[path])
         /\ ~IsBinary(e[path]) => /\ Resolve(c, e)[path] = ResolveLeaf(c, e[path])
                                  /\ ResolveLeaf(c, e[path]).ok
         /\ IsBinary(e[path]) => Resolve(c, e)[path] =
              ResolveBinary(e[path], Resolve(c, e)[Operand(path, "left")],
                            Resolve(c, e)[Operand(path, "right")])
<1> DEFINE at == Resolve(c, e)
<1>0. IsExpression(e) /\ Shallow(e, maxDepth) /\ maxDepth \in Nat
  BY CustomStudiesAssumption DEF Accepted
<1>1. at = [p \in DOMAIN e |->
              IF IsBinary(e[p])
              THEN ResolveBinary(e[p], at[Operand(p, "left")], at[Operand(p, "right")])
              ELSE ResolveLeaf(c, e[p])]
  BY <1>0, ResolveIs
<1>2. IsNode(e[path]) /\ at[path].ok
  BY DEF Accepted, IsExpression
<1> HIDE DEF at
<1>3. at[path] = IF IsBinary(e[path])
                 THEN ResolveBinary(e[path], at[Operand(path, "left")], at[Operand(path, "right")])
                 ELSE ResolveLeaf(c, e[path])
  BY <1>1
<1> QED BY <1>2, <1>3 DEF at

LEMMA LeafTypes ==
  ASSUME NEW c, CatalogOK(c), NEW node, IsNode(node), ~IsBinary(node), ResolveLeaf(c, node).ok
  PROVE  ResolveLeaf(c, node).type \in Types
<1>1. CASE node.kind = "literal"
  <2>1. ResolveLeaf(c, node) = Typed(node.value.type, None) /\ node.value.type \in Types
    BY <1>1, NodesAre DEF ResolveLeaf
  <2> QED BY <2>1 DEF Typed
<1>2. CASE node.kind = "field_ref"
  <2>1. /\ node.id \in DOMAIN c /\ c[node.id].kind = "field"
        /\ ResolveLeaf(c, node) = Typed(c[node.id].type, c[node.id].unit)
    BY <1>2 DEF ResolveLeaf, Invalid
  <2>2. c[node.id].type \in Types
    BY <2>1 DEF CatalogOK, IsItem
  <2> QED BY <2>1, <2>2 DEF Typed
<1>3. CASE node.kind = "function_call"
  <2> DEFINE output == OutputName(c[node.id], node)
  <2>1. ResolveLeaf(c, node) = ResolveFunctionCall(c, node)
    BY <1>3 DEF ResolveLeaf
  <2>2. /\ node.id \in DOMAIN c /\ c[node.id].kind = "study"
        /\ output \in DOMAIN c[node.id].outputs
        /\ ResolveFunctionCall(c, node) = Typed(c[node.id].outputs[output].type, c[node.id].outputs[output].unit)
    BY <2>1 DEF ResolveFunctionCall, Invalid
  <2> HIDE DEF output
  <2>3. c[node.id].outputs[output].type \in Types
    BY <2>2 DEF CatalogOK, IsItem
  <2> QED BY <2>1, <2>2, <2>3 DEF Typed
<1> QED BY <1>1, <1>2, <1>3, NodesAre

LEMMA BinaryTypes ==
  ASSUME NEW node, IsNode(node), IsBinary(node), NEW left, NEW right,
         ResolveBinary(node, left, right).ok
  PROVE  /\ ResolveBinary(node, left, right).type \in Types
         /\ node.kind = "arithmetic" =>
              left.type = "number" /\ right.type = "number" /\ ResolveBinary(node, left, right).type = "number"
         /\ node.kind = "comparison" => ResolveBinary(node, left, right).type = "boolean"
<1>1. CASE node.kind = "arithmetic"
  <2>1. ResolveBinary(node, left, right) = ArithmeticResult(node.op, left, right)
    BY <1>1 DEF ResolveBinary
  <2>2. left.type = "number" /\ right.type = "number" /\ ArithmeticResult(node.op, left, right).type = "number"
    BY <2>1 DEF ArithmeticResult, Typed, Invalid
  <2> QED BY <1>1, <2>1, <2>2 DEF Types
<1>2. CASE node.kind = "comparison"
  <2>1. ResolveBinary(node, left, right) = ComparisonResult(left, right)
    BY <1>2 DEF ResolveBinary
  <2>2. ComparisonResult(left, right).type = "boolean"
    BY <2>1 DEF ComparisonResult, Typed, Invalid
  <2> QED BY <1>2, <2>1, <2>2 DEF Types
<1> QED BY <1>1, <1>2, NodesAre

\* A record has a type.
LEMMA RecordsAreTyped ==
  ASSUME NEW c, CatalogOK(c), NEW record, RecordOK(c, record)
  PROVE  record.type \in Types
<1> DEFINE e == record.node
<1>1. Accepted(c, e) /\ <<>> \in DOMAIN e /\ record.type = Resolve(c, e)[<<>>].type
  BY RootIs DEF RecordOK, Accepted
<1>2. Resolve(c, e)[<<>>].ok
  BY <1>1 DEF Accepted
<1> HIDE DEF e
<1>3. CASE IsBinary(e[<<>>])
  BY <1>1, <1>2, <1>3, LeavesHold, BinaryTypes
<1>4. CASE ~IsBinary(e[<<>>])
  BY <1>1, <1>2, <1>4, LeavesHold, LeafTypes
<1> QED BY <1>3, <1>4

\* A row answers by the type it is asked for.
LEMMA RowsAnswer ==
  ASSUME NEW row \in Rows, NEW type \in Types
  PROVE  /\ row.field[type] = NotAvailable \/ row.field[type].type = type
         /\ row.output[type] = NotAvailable \/ row.output[type].type = type
<1> DEFINE answers == {RowOf(0, 1), RowOf(1, 0)} \union Answers
<1>1. PICK f \in answers, o \in answers : row = [field |-> f, output |-> o]
  BY DEF Rows
<1>2. ASSUME NEW g \in answers PROVE g[type] = NotAvailable \/ g[type].type = type
  <2>1. CASE g \in Answers
    <3>1. g[type] \in {NotAvailable}
      BY <2>1 DEF Answers, Types
    <3> QED BY <3>1
  <2>2. ASSUME NEW zero, NEW one, g = RowOf(zero, one) PROVE g[type].type = type
    <3>1. g[type] = IF type = "number" THEN Val(type, zero) ELSE Val(type, one)
      BY <2>2 DEF RowOf, Types
    <3> QED BY <3>1 DEF Val
  <2> QED BY <2>1, <2>2
<1> QED BY <1>1, <1>2

LEMMA ValuesTyped ==
  ASSUME NEW node, IsNode(node), IsBinary(node), NEW left, NEW right,
         ResolveBinary(node, left, right).ok,
         NEW a, a = NotAvailable \/ a.type = left.type,
         NEW b, b = NotAvailable \/ b.type = right.type
  PROVE  \/ EvaluateBinary(node, a, b) = NotAvailable
         \/ EvaluateBinary(node, a, b).type = ResolveBinary(node, left, right).type
<1>1. CASE NotAvailable \in {a, b}
  BY <1>1 DEF EvaluateBinary
<1>2. CASE NotAvailable \notin {a, b} /\ node.kind = "arithmetic"
  <2>1. /\ a.type = "number" /\ b.type = "number"
        /\ ResolveBinary(node, left, right).type = "number"
        /\ node.op \in {"+", "-", "*", "/"}
    BY <1>2, BinaryTypes, NodesAre DEF Operators
  <2>2. EvaluateBinary(node, a, b) = EvaluateArithmetic(node.op, a, b)
    BY <1>2 DEF EvaluateBinary
  <2>3. \A n : Val("number", n).type = "number"
    BY DEF Val
  <2>4. CASE node.op = "+"
    BY <2>1, <2>2, <2>3, <2>4 DEF EvaluateArithmetic
  <2>5. CASE node.op = "-"
    BY <2>1, <2>2, <2>3, <2>5 DEF EvaluateArithmetic
  <2>6. CASE node.op = "*"
    BY <2>1, <2>2, <2>3, <2>6 DEF EvaluateArithmetic
  <2>7. CASE node.op = "/"
    BY <2>1, <2>2, <2>3, <2>7 DEF EvaluateArithmetic
  <2> QED BY <2>1, <2>4, <2>5, <2>6, <2>7
<1>3. CASE NotAvailable \notin {a, b} /\ node.kind = "comparison"
  <2>1. ResolveBinary(node, left, right).type = "boolean" /\ node.op \in {">", "<", ">=", "<=", "==", "!="}
    BY <1>3, BinaryTypes, NodesAre DEF Operators
  <2>2. EvaluateBinary(node, a, b) = EvaluateComparison(node.op, a, b)
    BY <1>3 DEF EvaluateBinary
  <2>3. \A t : Truth(t).type = "boolean"
    BY DEF Truth, Val
  <2>4. EvaluateComparison(node.op, a, b).type = "boolean"
    BY <2>1, <2>3 DEF EvaluateComparison
  <2> QED BY <2>1, <2>2, <2>4
<1> QED BY <1>1, <1>2, <1>3, NodesAre

LEMMA LeavesTyped ==
  ASSUME NEW c, CatalogOK(c), NEW node, IsNode(node), ~IsBinary(node), ResolveLeaf(c, node).ok,
         ResolvedNode(c, node) = node, NEW row \in Rows
  PROVE  \/ EvaluateLeaf(c, node, row) = NotAvailable
         \/ EvaluateLeaf(c, node, row).type = ResolveLeaf(c, node).type
<1>1. CASE node.kind = "literal"
  BY <1>1 DEF ResolveLeaf, EvaluateLeaf, Typed
<1>2. CASE node.kind = "field_ref"
  <2>1. ResolveLeaf(c, node) = Typed(c[node.id].type, c[node.id].unit)
    BY <1>2 DEF ResolveLeaf, Invalid
  <2>2. EvaluateLeaf(c, node, row) = row.field[c[node.id].type]
    BY <1>2 DEF EvaluateLeaf
  <2>3. ResolveLeaf(c, node).type = c[node.id].type /\ c[node.id].type \in Types
    BY <2>1, LeafTypes DEF Typed
  <2> QED BY <2>2, <2>3, RowsAnswer
<1>3. CASE node.kind = "function_call"
  <2> DEFINE output == OutputName(c[node.id], node)
  <2>1. ResolveLeaf(c, node) = ResolveFunctionCall(c, node)
    BY <1>3 DEF ResolveLeaf
  <2>2. ResolveFunctionCall(c, node) = Typed(c[node.id].outputs[output].type, c[node.id].outputs[output].unit)
    BY <2>1 DEF ResolveFunctionCall, Invalid
  <2>3. output = node.outputName
    <3>1. node = [kind |-> "function_call", id |-> node.id, args |-> node.args, outputName |-> node.outputName]
      BY <1>3, NodesAre
    <3>2. ResolvedNode(c, node).outputName = output
      BY <1>3, <3>1 DEF ResolvedNode
    <3> QED BY <3>2
  <2>4. ResolveLeaf(c, node).type = c[node.id].outputs[node.outputName].type
    BY <2>1, <2>2, <2>3 DEF Typed
  <2>5. EvaluateLeaf(c, node, row) = row.output[c[node.id].outputs[node.outputName].type]
    BY <1>3 DEF EvaluateLeaf
  <2>6. ResolveLeaf(c, node).type \in Types
    BY LeafTypes
  <2> HIDE DEF output
  <2> QED BY <2>4, <2>5, <2>6, RowsAnswer
<1> QED BY <1>1, <1>2, <1>3, NodesAre

\* In every row a record has a value of its type, or none.
LEMMA RecordsEvaluate ==
  ASSUME NEW c, CatalogOK(c), NEW record, RecordOK(c, record), NEW row \in Rows
  PROVE  Evaluate(c, record.node, row).type \in {record.type, NotAvailable.type}
<1> DEFINE e == record.node
           x == Resolve(c, e)
<1>1. /\ Accepted(c, e) /\ IsExpression(e) /\ Shallow(e, maxDepth) /\ maxDepth \in Nat
      /\ \A path \in DOMAIN e : x[path].ok /\ ResolvedNode(c, e[path]) = e[path]
      /\ record.type = x[<<>>].type /\ <<>> \in DOMAIN e
  BY CustomStudiesAssumption, RootIs DEF RecordOK, Accepted
<1> HIDE DEF e
<1>2. PICK at :
        /\ at = [path \in DOMAIN e |->
                  IF IsBinary(e[path])
                  THEN EvaluateBinary(e[path], at[Operand(path, "left")], at[Operand(path, "right")])
                  ELSE EvaluateLeaf(c, e[path], row)]
        /\ Evaluate(c, e, row) = at[<<>>]
  BY <1>1, EvaluateIs
<1> DEFINE Fits(path) == at[path] = NotAvailable \/ at[path].type = x[path].type
           off == {path \in DOMAIN e : ~Fits(path)}
<1>3. \A path \in DOMAIN e :
        /\ IsNode(e[path])
        /\ ~IsBinary(e[path]) => x[path] = ResolveLeaf(c, e[path]) /\ ResolveLeaf(c, e[path]).ok
        /\ IsBinary(e[path]) =>
             x[path] = ResolveBinary(e[path], x[Operand(path, "left")], x[Operand(path, "right")])
  BY <1>1, LeavesHold
<1> HIDE DEF x
<1>4. ASSUME off # {} PROVE FALSE
  <2>1. off \subseteq Seq({"left", "right"}) /\ \A p \in off : Len(p) < maxDepth
    BY <1>1 DEF IsExpression, Shallow
  <2>2. PICK path \in off : \A q \in off : Len(q) <= Len(path)
    <3> HIDE DEF off
    <3> QED BY <1>1, <2>1, <1>4, Deepest
  <2>3. path \in DOMAIN e /\ ~Fits(path)
    BY <2>2
  <2>4. CASE IsBinary(e[path])
    <3>1. \A side \in {"left", "right"} : Fits(Operand(path, side))
      <4> SUFFICES ASSUME NEW side \in {"left", "right"} PROVE Fits(Operand(path, side))
        OBVIOUS
      <4>1. /\ Operand(path, side) \in DOMAIN e /\ Len(Operand(path, side)) = Len(path) + 1
            /\ Len(path) \in Nat
        BY <1>1, <2>3, <2>4, OperandsAre
      <4>2. ~(Len(Operand(path, side)) <= Len(path))
        BY <4>1
      <4>3. Operand(path, side) \notin off
        <5> HIDE DEF off
        <5> QED BY <4>2, <2>2
      <4> HIDE DEF Fits
      <4> QED BY <4>1, <4>3
    <3> DEFINE a == at[Operand(path, "left")]
               b == at[Operand(path, "right")]
               left == x[Operand(path, "left")]
               right == x[Operand(path, "right")]
    <3>2. at[path] = EvaluateBinary(e[path], a, b)
      BY <1>2, <2>3, <2>4
    <3>3. x[path] = ResolveBinary(e[path], left, right) /\ x[path].ok /\ IsNode(e[path])
      BY <1>1, <1>3, <2>3, <2>4
    <3>4. (a = NotAvailable \/ a.type = left.type) /\ (b = NotAvailable \/ b.type = right.type)
      BY <3>1
    <3> HIDE DEF a, b, left, right
    <3>5. EvaluateBinary(e[path], a, b) = NotAvailable
            \/ EvaluateBinary(e[path], a, b).type = ResolveBinary(e[path], left, right).type
      BY <3>3, <3>4, <2>4, ValuesTyped
    <3> QED BY <2>3, <3>2, <3>3, <3>5
  <2>5. CASE ~IsBinary(e[path])
    <3>1. at[path] = EvaluateLeaf(c, e[path], row)
      BY <1>2, <2>3, <2>5
    <3>2. /\ x[path] = ResolveLeaf(c, e[path]) /\ ResolveLeaf(c, e[path]).ok
          /\ ResolvedNode(c, e[path]) = e[path] /\ IsNode(e[path])
      BY <1>1, <1>3, <2>3, <2>5
    <3>3. EvaluateLeaf(c, e[path], row) = NotAvailable
            \/ EvaluateLeaf(c, e[path], row).type = ResolveLeaf(c, e[path]).type
      BY <2>5, <3>2, LeavesTyped
    <3> QED BY <2>3, <3>1, <3>2, <3>3
  <2> QED BY <2>4, <2>5
<1>5. Fits(<<>>)
  BY <1>1, <1>4
<1> QED BY <1>1, <1>2, <1>5 DEF e

\* What is filled in is filled in once, and changes nothing.
LEMMA CallsFilledIn ==
  ASSUME NEW c, NEW node, IsNode(node), node.kind = "function_call", ResolveLeaf(c, node).ok,
         NEW m, m = ResolvedNode(c, node)
  PROVE  /\ IsNode(m) /\ m.kind = "function_call" /\ m.id = node.id
         /\ ResolveLeaf(c, m) = ResolveLeaf(c, node) /\ ResolvedNode(c, m) = m
<1> DEFINE item == c[node.id]
           output == OutputName(item, node)
<1>1. node = [kind |-> "function_call", id |-> node.id, args |-> node.args, outputName |-> node.outputName]
  BY NodesAre
<1>2. m = [kind |-> "function_call", id |-> node.id, args |-> Args(item, node.args), outputName |-> output]
  BY <1>1 DEF ResolvedNode
<1>3. /\ m.kind = "function_call" /\ m.id = node.id /\ m.args = Args(item, node.args)
      /\ m.outputName = output
      /\ m = [kind |-> m.kind, id |-> m.id, args |-> m.args, outputName |-> m.outputName]
  BY <1>2
<1>4. IsNode(m)
  BY <1>3 DEF IsNode
<1>5. /\ node.id \in DOMAIN c /\ item.kind = "study" /\ ArgsResolve(item, node.args)
      /\ output \in DOMAIN item.outputs
      /\ ResolveLeaf(c, node) = Typed(item.outputs[output].type, item.outputs[output].unit)
  <2>1. ResolveLeaf(c, node) = ResolveFunctionCall(c, node)
    BY DEF ResolveLeaf
  <2> QED BY <2>1 DEF ResolveFunctionCall, Invalid
<1>6. Args(item, m.args) = m.args
  BY <1>3 DEF Args
<1>7. OutputName(item, m) = output
  BY <1>3 DEF OutputName
<1>8. ArgsResolve(item, m.args)
  <2>1. DOMAIN m.args = DOMAIN item.parameters
    BY <1>3 DEF Args
  <2>2. \A p \in DOMAIN item.parameters : ValidArg(item.parameters[p], Args(item, node.args)[p])
    BY <1>5 DEF ArgsResolve
  <2> HIDE DEF item
  <2> QED BY <1>3, <1>6, <2>1, <2>2 DEF ArgsResolve
<1>9. ResolveLeaf(c, m) = ResolveLeaf(c, node)
  <2>1. ResolveLeaf(c, m) = ResolveFunctionCall(c, m)
    BY <1>3 DEF ResolveLeaf
  <2>2. ResolveFunctionCall(c, m) = Typed(item.outputs[output].type, item.outputs[output].unit)
    BY <1>3, <1>5, <1>7, <1>8 DEF ResolveFunctionCall
  <2> QED BY <1>5, <2>1, <2>2
<1>10. ResolvedNode(c, m) = m
  <2>1. ResolvedNode(c, m) =
          [kind |-> m.kind, id |-> m.id, args |-> Args(item, m.args), outputName |-> OutputName(item, m)]
    BY <1>3 DEF ResolvedNode
  <2> QED BY <1>3, <1>6, <1>7, <2>1
<1> QED BY <1>3, <1>4, <1>9, <1>10

\* An expression of the same shape is an expression.
LEMMA SameShape ==
  ASSUME NEW e, IsExpression(e), NEW f, DOMAIN f = DOMAIN e, f = [path \in DOMAIN f |-> f[path]],
         \A path \in DOMAIN e : IsNode(f[path]) /\ (IsBinary(f[path]) <=> IsBinary(e[path]))
  PROVE  IsExpression(f)
<1> DEFINE Operands(P) == {<<>>} \union {Operand(path, side) : path \in P, side \in {"left", "right"}}
           E == {p \in DOMAIN e : IsBinary(e[p])}
           F == {p \in DOMAIN f : IsBinary(f[p])}
<1>1. E = F
  OBVIOUS
<1>2. DOMAIN f = Operands(F)
  <2>1. DOMAIN e = Operands(E)
    BY DEF IsExpression
  <2> HIDE DEF E, F
  <2> QED BY <1>1, <2>1
<1>3. DOMAIN f \subseteq Seq({"left", "right"}) /\ \A path \in DOMAIN f : IsNode(f[path])
  BY DEF IsExpression
<1> QED BY <1>2, <1>3 DEF IsExpression

\* What the validator makes of an expression is a record.
LEMMA ValidIsRecord ==
  ASSUME NEW c, NEW raw, IsExpression(raw), ValidateExpression(c, raw).ok,
         NEW record, record.node = ValidateExpression(c, raw).node,
         record.type = ValidateExpression(c, raw).type, record.unit = ValidateExpression(c, raw).unit
  PROVE  RecordOK(c, record)
<1> DEFINE x == Resolve(c, raw)
           n == record.node
<1>1. /\ Accepted(c, raw) /\ n = [path \in DOMAIN raw |-> ResolvedNode(c, raw[path])]
      /\ record.type = x[<<>>].type /\ record.unit = x[<<>>].unit
  BY AcceptedIs
<1>2. ASSUME NEW path \in DOMAIN raw, IsBinary(raw[path]) PROVE n[path] = raw[path]
  <2>1. raw[path].kind # "function_call"
    BY <1>2 DEF IsBinary, Operators
  <2> QED BY <1>1, <2>1 DEF ResolvedNode
<1>3. ASSUME NEW path \in DOMAIN raw, ~IsBinary(raw[path])
      PROVE  /\ IsNode(n[path]) /\ ~IsBinary(n[path])
             /\ ResolveLeaf(c, n[path]) = ResolveLeaf(c, raw[path])
             /\ ResolvedNode(c, n[path]) = n[path]
  <2>1. IsNode(raw[path]) /\ ResolveLeaf(c, raw[path]).ok /\ n[path] = ResolvedNode(c, raw[path])
    BY <1>1, <1>3, LeavesHold
  <2>2. CASE raw[path].kind = "function_call"
    <3>1. /\ IsNode(n[path]) /\ n[path].kind = "function_call"
          /\ ResolveLeaf(c, n[path]) = ResolveLeaf(c, raw[path]) /\ ResolvedNode(c, n[path]) = n[path]
      BY <2>1, <2>2, CallsFilledIn
    <3> QED BY <3>1 DEF IsBinary, Operators
  <2>3. CASE raw[path].kind # "function_call"
    BY <1>3, <2>1, <2>3 DEF ResolvedNode
  <2> QED BY <2>2, <2>3
<1>4. DOMAIN n = DOMAIN raw /\ n = [path \in DOMAIN n |-> n[path]]
  BY <1>1
<1>5. \A path \in DOMAIN raw : IsNode(raw[path])
  BY DEF IsExpression
<1> HIDE DEF n
<1>6. IsExpression(n)
  <2>1. \A path \in DOMAIN raw : IsNode(n[path]) /\ (IsBinary(n[path]) <=> IsBinary(raw[path]))
    BY <1>2, <1>3, <1>5
  <2> QED BY <1>4, <2>1, SameShape
<1>7. Resolve(c, n) = x
  <2>1. Shallow(raw, maxDepth) /\ maxDepth \in Nat
    BY <1>1, CustomStudiesAssumption DEF Accepted
  <2> HIDE DEF x
  <2>2. \A path \in DOMAIN raw :
          \/ IsBinary(raw[path]) /\ n[path] = raw[path]
          \/ ~IsBinary(raw[path]) /\ ~IsBinary(n[path])
             /\ ResolveLeaf(c, n[path]) = ResolveLeaf(c, raw[path])
    BY <1>2, <1>3
  <2> QED BY <1>4, <1>6, <2>1, <2>2, ResolveAgrees DEF x
<1>8. Accepted(c, n)
  BY <1>1, <1>4, <1>6, <1>7 DEF Accepted, Shallow
<1>9. \A path \in DOMAIN n : ResolvedNode(c, n[path]) = n[path]
  <2>1. ASSUME NEW path \in DOMAIN raw, IsBinary(raw[path]) PROVE ResolvedNode(c, n[path]) = n[path]
    BY <1>1, <1>2, <2>1 DEF n
  <2> QED BY <1>3, <1>4, <2>1
<1> QED BY <1>1, <1>7, <1>8, <1>9 DEF RecordOK, n

\* A record validates to itself.
LEMMA RecordsValidate ==
  ASSUME NEW c, NEW record, RecordOK(c, record),
         NEW result, result = ValidateExpression(c, record.node)
  PROVE  /\ result.ok /\ result.node = record.node
         /\ result.type = record.type /\ result.unit = record.unit
<1> DEFINE e == record.node
<1>1. /\ Accepted(c, e) /\ IsExpression(e) /\ e = [path \in DOMAIN e |-> e[path]]
      /\ \A path \in DOMAIN e : ResolvedNode(c, e[path]) = e[path]
      /\ record.type = Resolve(c, e)[<<>>].type /\ record.unit = Resolve(c, e)[<<>>].unit
  BY DEF RecordOK, Accepted, IsExpression
<1> HIDE DEF e
<1>2. result = [ok |-> TRUE, type |-> record.type, unit |-> record.unit,
                node |-> [path \in DOMAIN e |-> ResolvedNode(c, e[path])]]
  <2>1. ValidateExpression(c, e) =
          [ok |-> TRUE, type |-> Resolve(c, e)[<<>>].type, unit |-> Resolve(c, e)[<<>>].unit,
           node |-> [path \in DOMAIN e |-> ResolvedNode(c, e[path])]]
    BY <1>1, AcceptedIs
  <2> QED BY <1>1, <2>1 DEF e
<1>3. [path \in DOMAIN e |-> ResolvedNode(c, e[path])] = e
  BY <1>1
<1> QED BY <1>2, <1>3 DEF e

\* Another catalog with the items a record is made of keeps the record.
KeepsItems(b, c, e) == \A id \in Mentioned(e) : id \in DOMAIN c => id \in DOMAIN b /\ b[id] = c[id]

LEMMA LeavesLast ==
  ASSUME NEW b, NEW c, NEW e, KeepsItems(b, c, e), NEW path \in DOMAIN e, NEW node, node = e[path],
         IsNode(node), ~IsBinary(node), ResolveLeaf(c, node).ok
  PROVE  ResolveLeaf(b, node) = ResolveLeaf(c, node) /\ ResolvedNode(b, node) = ResolvedNode(c, node)
<1>0. node.kind \in {"field_ref", "function_call"} => node.id \in Mentioned(e)
  BY DEF Mentioned
<1>1. CASE node.kind = "literal"
  BY <1>1 DEF ResolveLeaf, ResolvedNode
<1>2. CASE node.kind = "field_ref"
  <2>1. node.id \in DOMAIN c
    BY <1>2 DEF ResolveLeaf, Invalid
  <2>2. node.id \in DOMAIN b /\ b[node.id] = c[node.id]
    BY <1>0, <1>2, <2>1 DEF KeepsItems
  <2> QED BY <1>2, <2>1, <2>2 DEF ResolveLeaf, ResolvedNode
<1>3. CASE node.kind = "function_call"
  <2>1. node.id \in DOMAIN c
    BY <1>3 DEF ResolveLeaf, ResolveFunctionCall, Invalid
  <2>2. node.id \in DOMAIN b /\ b[node.id] = c[node.id]
    BY <1>0, <1>3, <2>1 DEF KeepsItems
  <2>3. ResolveFunctionCall(b, node) = ResolveFunctionCall(c, node)
    BY <2>1, <2>2 DEF ResolveFunctionCall
  <2> QED BY <1>3, <2>2, <2>3 DEF ResolveLeaf, ResolvedNode
<1> QED BY <1>1, <1>2, <1>3, NodesAre

LEMMA RecordsLast ==
  ASSUME NEW b, NEW c, NEW record, KeepsItems(b, c, record.node), RecordOK(c, record)
  PROVE  RecordOK(b, record)
<1> DEFINE e == record.node
<1>1. /\ Accepted(c, e) /\ IsExpression(e) /\ Shallow(e, maxDepth) /\ maxDepth \in Nat
      /\ \A path \in DOMAIN e : ResolvedNode(c, e[path]) = e[path]
      /\ KeepsItems(b, c, e)
  BY CustomStudiesAssumption DEF RecordOK, Accepted
<1> HIDE DEF e
<1>2. \A path \in DOMAIN e : ~IsBinary(e[path]) =>
        ResolveLeaf(b, e[path]) = ResolveLeaf(c, e[path]) /\ ResolvedNode(b, e[path]) = e[path]
  <2> SUFFICES ASSUME NEW path \in DOMAIN e, ~IsBinary(e[path])
               PROVE  ResolveLeaf(b, e[path]) = ResolveLeaf(c, e[path]) /\ ResolvedNode(b, e[path]) = e[path]
    OBVIOUS
  <2>1. IsNode(e[path]) /\ ResolveLeaf(c, e[path]).ok
    BY <1>1, LeavesHold
  <2> QED BY <1>1, <2>1, LeavesLast
<1>3. \A path \in DOMAIN e : IsBinary(e[path]) => ResolvedNode(b, e[path]) = e[path]
  BY DEF ResolvedNode, IsBinary, Operators
<1>4. Resolve(b, e) = Resolve(c, e)
  BY <1>1, <1>2, ResolveAgrees
<1> QED BY <1>1, <1>2, <1>3, <1>4 DEF RecordOK, Accepted, e

\* The parameters of a study, as they were declared.
StudyOK(c, study) ==
  /\ study.catalogParameters =
       [p \in DOMAIN study.parameters |-> CatalogParameter(c, study.node, study.parameters[p])]
  /\ \A p \in DOMAIN study.parameters :
       /\ DeclarationHolds(c, study.node, study.parameters[p])
       /\ study.parameters[p].range = NoRange \/ IsRange(study.parameters[p].range)

\* A parameter of a catalog stays one when its default and its range change.
LEMMA ParametersAre ==
  ASSUME NEW c, CatalogOK(c), NEW node, NEW binding,
         binding.range = NoRange \/ IsRange(binding.range),
         node[binding.path].id \in DOMAIN c, c[node[binding.path].id].kind = "study",
         binding.argName \in DOMAIN c[node[binding.path].id].parameters,
         NEW p, p = c[node[binding.path].id].parameters[binding.argName],
         NEW q, q = CatalogParameter(c, node, binding)
  PROVE  /\ IsParameter(p) /\ IsParameter(q) /\ q.type = p.type /\ q.unit = p.unit
         /\ q.range = IF binding.range = NoRange THEN p.range ELSE binding.range
<1>1. IsParameter(p)
  BY DEF CatalogOK, IsItem
<1>2. p = [type |-> p.type, unit |-> p.unit, default |-> p.default, required |-> p.required, range |-> p.range]
  BY <1>1 DEF IsParameter
<1> DEFINE default == node[binding.path].args[binding.argName]
           range == IF binding.range = NoRange THEN p.range ELSE binding.range
<1>3. q = [p EXCEPT !.default = default, !.required = FALSE, !.range = range]
  BY Zenon DEF CatalogParameter
<1> HIDE DEF default, range
<1>4. q = [type |-> p.type, unit |-> p.unit, default |-> default, required |-> FALSE, range |-> range]
  BY <1>2, <1>3
<1>5. q.type = p.type /\ q.unit = p.unit /\ q.range = range
      /\ q = [type |-> q.type, unit |-> q.unit, default |-> q.default, required |-> q.required, range |-> q.range]
  BY <1>4
<1>6. q.type = "number" => IsRange(q.range)
  BY <1>1, <1>5 DEF IsParameter, range
<1> QED BY <1>1, <1>5, <1>6 DEF IsParameter, range

\* A call that is stored is a call of a study of the catalog, with an argument
\* for each of its parameters.
LEMMA CallsAre ==
  ASSUME NEW c, NEW record, RecordOK(c, record),
         NEW path \in DOMAIN record.node, record.node[path].kind = "function_call",
         NEW node, node = record.node[path], NEW item, item = c[node.id]
  PROVE  /\ IsNode(node) /\ ~IsBinary(node) /\ ResolveLeaf(c, node).ok
         /\ node.id \in DOMAIN c /\ item.kind = "study"
         /\ node = [kind |-> "function_call", id |-> node.id, args |-> node.args,
                    outputName |-> node.outputName]
         /\ ArgsResolve(item, node.args) /\ Args(item, node.args) = node.args
         /\ OutputName(item, node) = node.outputName /\ node.outputName \in DOMAIN item.outputs
         /\ ResolveLeaf(c, node) =
              Typed(item.outputs[node.outputName].type, item.outputs[node.outputName].unit)
<1> DEFINE output == OutputName(item, node)
<1>1. Accepted(c, record.node) /\ ResolvedNode(c, node) = node
  BY DEF RecordOK
<1>2. ~IsBinary(node)
  BY DEF IsBinary, Operators
<1>3. IsNode(node) /\ ResolveLeaf(c, node).ok
  BY <1>1, <1>2, LeavesHold
<1>4. node.kind = "function_call"
  OBVIOUS
<1>5. node = [kind |-> "function_call", id |-> node.id, args |-> node.args, outputName |-> node.outputName]
  BY <1>3, <1>4, NodesAre
<1>6. Args(item, node.args) = node.args /\ output = node.outputName
  <2>1. ResolvedNode(c, node) = [kind |-> "function_call", id |-> node.id, args |-> Args(item, node.args),
                                 outputName |-> output]
    BY <1>4, <1>5 DEF ResolvedNode
  <2>2. node.args = Args(item, node.args) /\ node.outputName = output
    BY <1>1, <2>1
  <2> QED BY <2>2
<1>7. /\ node.id \in DOMAIN c /\ item.kind = "study" /\ ArgsResolve(item, node.args)
      /\ output \in DOMAIN item.outputs
      /\ ResolveLeaf(c, node) = Typed(item.outputs[output].type, item.outputs[output].unit)
  <2>1. ResolveLeaf(c, node) = ResolveFunctionCall(c, node)
    BY <1>4 DEF ResolveLeaf
  <2>2. c[node.id] = item
    OBVIOUS
  <2>3. ResolveFunctionCall(c, node) =
          IF node.id \notin DOMAIN c \/ c[node.id].kind # "study" THEN Invalid
          ELSE IF ~ArgsResolve(c[node.id], node.args)
                    \/ OutputName(c[node.id], node) \notin DOMAIN c[node.id].outputs THEN Invalid
          ELSE Typed(c[node.id].outputs[OutputName(c[node.id], node)].type,
                     c[node.id].outputs[OutputName(c[node.id], node)].unit)
    BY DEF ResolveFunctionCall
  <2>4. ResolveFunctionCall(c, node) =
          IF node.id \notin DOMAIN c \/ item.kind # "study" THEN Invalid
          ELSE IF ~ArgsResolve(item, node.args) \/ output \notin DOMAIN item.outputs THEN Invalid
          ELSE Typed(item.outputs[output].type, item.outputs[output].unit)
    BY <2>2, <2>3
  <2> HIDE DEF output
  <2>5. ResolveFunctionCall(c, node).ok /\ ~Invalid.ok
    BY <1>3, <2>1 DEF Invalid
  <2> QED BY <2>1, <2>4, <2>5
<1> QED BY <1>2, <1>3, <1>5, <1>6, <1>7

\* What is declared within a range stays within it.
LEMMA WithinRanges ==
  ASSUME NEW inner, NEW outer, NEW n \in Int, IsRange(outer), inner = NoRange \/ IsRange(inner),
         IsRangeSubset(inner, outer),
         InRange(n, IF inner = NoRange THEN outer ELSE inner)
  PROVE  InRange(n, outer)
<1>1. outer # NoRange
  BY CustomStudiesAssumption
<1>2. CASE inner = NoRange
  BY <1>2
<1>3. CASE inner # NoRange
  <2>1. inner.min \in Int /\ inner.max \in Int /\ outer.min \in Int /\ outer.max \in Int
    BY <1>3 DEF IsRange
  <2>2. inner.min >= outer.min /\ inner.max <= outer.max
    BY <1>1, <1>3 DEF IsRangeSubset
  <2> QED BY <1>3, <2>1, <2>2 DEF InRange
<1> QED BY <1>2, <1>3

LEMMA OverridesAre ==
  ASSUME NEW value \in OverrideValues
  PROVE  value.n \in Int
BY CustomStudiesAssumption DEF OverrideValues, Val

\* Where an override is bound, it is an argument its author could have given.
LEMMA OverridesFit ==
  ASSUME NEW c, CatalogOK(c), NEW study, RecordOK(c, study), StudyOK(c, study),
         NEW given \in SUBSET DOMAIN study.parameters, NEW overrides \in [given -> OverrideValues],
         OverridesHold(study, overrides), WithinLookback(study, overrides), NEW p \in given
  PROVE  LET binding == study.parameters[p]
         IN  ValidArg(c[study.node[binding.path].id].parameters[binding.argName], overrides[p])
<1> DEFINE binding == study.parameters[p]
           node == study.node
           parameter == c[node[binding.path].id].parameters[binding.argName]
           taken == study.catalogParameters[p]
           value == overrides[p]
<1>1. /\ p \in DOMAIN study.parameters /\ p \in DOMAIN overrides /\ value \in OverrideValues
      /\ p \in DOMAIN overrides \intersect DOMAIN study.parameters
  OBVIOUS
<1>2. /\ DeclarationHolds(c, node, binding) /\ taken = CatalogParameter(c, node, binding)
      /\ binding.range = NoRange \/ IsRange(binding.range)
  BY <1>1 DEF StudyOK
<1>3. /\ binding.path \in DOMAIN node /\ node[binding.path].kind = "function_call"
      /\ binding.argName \in DOMAIN c[node[binding.path].id].parameters
      /\ IsRangeSubset(binding.range, parameter.range)
  BY <1>2 DEF DeclarationHolds
<1>4. node[binding.path].id \in DOMAIN c /\ c[node[binding.path].id].kind = "study"
  BY <1>3, CallsAre
<1>5. value.type = taken.type /\ (value.type = "number" => InRange(value.n, taken.range))
  BY <1>1 DEF OverridesHold
<1>6. taken.unit = "bars" => value.n <= maxLookbackBars
  BY <1>1 DEF WithinLookback
<1> HIDE DEF binding, node, taken, value
<1>7. /\ IsParameter(parameter) /\ taken.type = parameter.type /\ taken.unit = parameter.unit
      /\ taken.range = IF binding.range = NoRange THEN parameter.range ELSE binding.range
  BY <1>2, <1>3, <1>4, ParametersAre
<1>8. value.n \in Int
  BY <1>1, OverridesAre
<1> HIDE DEF parameter
<1>9. value.type = "number" => InRange(value.n, parameter.range)
  <2> SUFFICES ASSUME value.type = "number" PROVE InRange(value.n, parameter.range)
    OBVIOUS
  <2>1. IsRange(parameter.range)
    BY <1>5, <1>7 DEF IsParameter
  <2>2. InRange(value.n, IF binding.range = NoRange THEN parameter.range ELSE binding.range)
    BY <1>5, <1>7
  <2> QED BY <1>2, <1>3, <1>8, <2>1, <2>2, WithinRanges
<1>10. ValidArg(parameter, value)
  BY <1>5, <1>6, <1>7, <1>9 DEF ValidArg
<1> QED BY <1>10 DEF binding, node, parameter, value

\* Other arguments that fit leave a call as good as it was.
LEMMA ArgsReplaced ==
  ASSUME NEW c, NEW record, RecordOK(c, record),
         NEW path \in DOMAIN record.node, record.node[path].kind = "function_call",
         NEW args, args = [a \in DOMAIN args |-> args[a]], DOMAIN args = DOMAIN record.node[path].args,
         \A p \in DOMAIN c[record.node[path].id].parameters :
           ValidArg(c[record.node[path].id].parameters[p], args[p]),
         NEW m, m = [record.node[path] EXCEPT !.args = args]
  PROVE  /\ IsNode(m) /\ ~IsBinary(m) /\ ResolveLeaf(c, m) = ResolveLeaf(c, record.node[path])
         /\ ResolvedNode(c, m) = m
<1> DEFINE node == record.node[path]
           item == c[node.id]
<1>1. /\ node.id \in DOMAIN c /\ item.kind = "study"
      /\ node = [kind |-> "function_call", id |-> node.id, args |-> node.args, outputName |-> node.outputName]
      /\ Args(item, node.args) = node.args
      /\ OutputName(item, node) = node.outputName /\ node.outputName \in DOMAIN item.outputs
      /\ ResolveLeaf(c, node) = Typed(item.outputs[node.outputName].type, item.outputs[node.outputName].unit)
  BY CallsAre
<1>2. /\ DOMAIN args = DOMAIN node.args /\ m = [node EXCEPT !.args = args]
      /\ \A p \in DOMAIN item.parameters : ValidArg(item.parameters[p], args[p])
  OBVIOUS
<1> HIDE DEF node
<1>3. m = [kind |-> "function_call", id |-> node.id, args |-> args, outputName |-> node.outputName]
  BY <1>1, <1>2
<1>4. /\ m.kind = "function_call" /\ m.id = node.id /\ m.args = args /\ m.outputName = node.outputName
      /\ m = [kind |-> m.kind, id |-> m.id, args |-> m.args, outputName |-> m.outputName]
  BY <1>3
<1>5. IsNode(m) /\ ~IsBinary(m)
  BY <1>4 DEF IsNode, IsBinary, Operators
<1> HIDE DEF item
<1>6. DOMAIN args = DOMAIN item.parameters
  BY <1>1, <1>2 DEF Args
<1>7. Args(item, args) = args
  <2>1. Args(item, args) = [p \in DOMAIN item.parameters |-> args[p]]
    BY <1>6 DEF Args
  <2>2. [p \in DOMAIN item.parameters |-> args[p]] = [a \in DOMAIN args |-> args[a]]
    BY <1>6
  <2> QED BY <2>1, <2>2
<1>8. ArgsResolve(item, args)
  BY <1>2, <1>6, <1>7 DEF ArgsResolve
<1>9. OutputName(item, m) = node.outputName
  BY <1>1, <1>4 DEF OutputName
<1>10. ResolveLeaf(c, m) = ResolveLeaf(c, node)
  <2>1. ResolveLeaf(c, m) = ResolveFunctionCall(c, m)
    BY <1>4 DEF ResolveLeaf
  <2>2. ResolveFunctionCall(c, m) = Typed(item.outputs[node.outputName].type, item.outputs[node.outputName].unit)
    <3>1. c[m.id] = item /\ m.id \in DOMAIN c
      BY <1>1, <1>4 DEF item
    <3> QED BY <3>1, <1>1, <1>4, <1>8, <1>9 DEF ResolveFunctionCall
  <2> QED BY <1>1, <2>1, <2>2
<1>11. ResolvedNode(c, m) = m
  <2>1. c[m.id] = item
    BY <1>4 DEF item
  <2>2. ResolvedNode(c, m) =
          [kind |-> m.kind, id |-> m.id, args |-> Args(item, m.args), outputName |-> OutputName(item, m)]
    BY <1>4, <2>1 DEF ResolvedNode
  <2> QED BY <1>4, <1>7, <1>9, <2>2
<1> QED BY <1>5, <1>10, <1>11 DEF node

LEMMA ReshapedIsRecord ==
  ASSUME NEW c, NEW record, RecordOK(c, record), NEW other, other.type = record.type, other.unit = record.unit,
         DOMAIN other.node = DOMAIN record.node, other.node = [path \in DOMAIN other.node |-> other.node[path]],
         \A path \in DOMAIN record.node :
           IF record.node[path].kind # "function_call" THEN other.node[path] = record.node[path]
           ELSE /\ IsNode(other.node[path]) /\ ~IsBinary(other.node[path])
                /\ ResolveLeaf(c, other.node[path]) = ResolveLeaf(c, record.node[path])
                /\ ResolvedNode(c, other.node[path]) = other.node[path]
  PROVE  RecordOK(c, other)
<1> DEFINE e == record.node
           f == other.node
<1>1. /\ Accepted(c, e) /\ IsExpression(e) /\ Shallow(e, maxDepth) /\ maxDepth \in Nat
      /\ \A path \in DOMAIN e : ResolvedNode(c, e[path]) = e[path] /\ IsNode(e[path])
      /\ record.type = Resolve(c, e)[<<>>].type /\ record.unit = Resolve(c, e)[<<>>].unit
  BY CustomStudiesAssumption DEF RecordOK, Accepted, IsExpression
<1>2. ASSUME NEW path \in DOMAIN e, e[path].kind # "function_call" PROVE f[path] = e[path]
  BY <1>2
<1>3. ASSUME NEW path \in DOMAIN e, e[path].kind = "function_call"
      PROVE  /\ IsNode(f[path]) /\ ~IsBinary(f[path]) /\ ~IsBinary(e[path])
             /\ ResolveLeaf(c, f[path]) = ResolveLeaf(c, e[path]) /\ ResolvedNode(c, f[path]) = f[path]
  BY <1>3 DEF IsBinary, Operators
<1>4. DOMAIN f = DOMAIN e /\ f = [path \in DOMAIN f |-> f[path]]
  OBVIOUS
<1> HIDE DEF e, f
<1>5. \A path \in DOMAIN e :
        /\ IsNode(f[path]) /\ (IsBinary(f[path]) <=> IsBinary(e[path]))
        /\ ResolvedNode(c, f[path]) = f[path]
        /\ \/ IsBinary(e[path]) /\ f[path] = e[path]
           \/ ~IsBinary(e[path]) /\ ~IsBinary(f[path]) /\ ResolveLeaf(c, f[path]) = ResolveLeaf(c, e[path])
  BY <1>1, <1>2, <1>3
<1>6. IsExpression(f)
  BY <1>1, <1>4, <1>5, SameShape
<1>7. Resolve(c, f) = Resolve(c, e)
  BY <1>1, <1>4, <1>5, <1>6, ResolveAgrees
<1>8. Accepted(c, f)
  BY <1>1, <1>4, <1>6, <1>7 DEF Accepted, Shallow
<1>9. /\ other.type = Resolve(c, f)[<<>>].type /\ other.unit = Resolve(c, f)[<<>>].unit
      /\ \A path \in DOMAIN f : ResolvedNode(c, f[path]) = f[path]
  BY <1>1, <1>4, <1>5, <1>7
<1> QED BY <1>8, <1>9 DEF RecordOK, f

LEMMA OverridesAreRecords ==
  ASSUME NEW c, CatalogOK(c), NEW study, RecordOK(c, study), StudyOK(c, study),
         NEW given \in SUBSET DOMAIN study.parameters, NEW overrides \in [given -> OverrideValues],
         OverridesHold(study, overrides), WithinLookback(study, overrides)
  PROVE  RecordOK(c, [node |-> WithOverrides(study, overrides), type |-> study.type, unit |-> study.unit])
<1> DEFINE e == study.node
           f == WithOverrides(study, overrides)
           other == [node |-> f, type |-> study.type, unit |-> study.unit]
           With(path) == [a \in DOMAIN e[path].args |->
                            IF Bound(study, overrides, path, a) = {} THEN e[path].args[a]
                            ELSE overrides[CHOOSE p \in Bound(study, overrides, path, a) : TRUE]]
<1>1. DOMAIN f = DOMAIN e /\ f = [path \in DOMAIN f |-> f[path]]
  BY DEF WithOverrides
<1>2. ASSUME NEW path \in DOMAIN e, e[path].kind # "function_call" PROVE f[path] = e[path]
  BY <1>2 DEF WithOverrides
<1>3. ASSUME NEW path \in DOMAIN e, e[path].kind = "function_call"
      PROVE  /\ IsNode(f[path]) /\ ~IsBinary(f[path])
             /\ ResolveLeaf(c, f[path]) = ResolveLeaf(c, e[path]) /\ ResolvedNode(c, f[path]) = f[path]
  <2> DEFINE args == With(path)
             item == c[e[path].id]
  <2>1. f[path] = [e[path] EXCEPT !.args = args]
    BY <1>3, Zenon DEF WithOverrides
  <2>2. ArgsResolve(item, e[path].args) /\ Args(item, e[path].args) = e[path].args
    BY <1>3, CallsAre
  <2>3. DOMAIN e[path].args = DOMAIN item.parameters
    BY <2>2 DEF Args
  <2>4. ASSUME NEW a \in DOMAIN item.parameters PROVE ValidArg(item.parameters[a], args[a])
    <3> DEFINE bound == Bound(study, overrides, path, a)
    <3>1. CASE bound = {}
      <4>1. args[a] = e[path].args[a]
        BY <2>3, <3>1
      <4> HIDE DEF args, item, e
      <4> QED BY <2>2, <4>1 DEF ArgsResolve
    <3>2. CASE bound # {}
      <4>1. PICK p \in bound : args[a] = overrides[p]
        BY <2>3, <3>2
      <4>2. p \in given /\ study.parameters[p].path = path /\ study.parameters[p].argName = a
        BY DEF Bound
      <4>3. ValidArg(c[e[study.parameters[p].path].id].parameters[study.parameters[p].argName], overrides[p])
        BY <4>2, OverridesFit
      <4> HIDE DEF args
      <4> QED BY <4>1, <4>2, <4>3
    <3> QED BY <3>1, <3>2
  <2>5. args = [a \in DOMAIN args |-> args[a]] /\ DOMAIN args = DOMAIN e[path].args
    OBVIOUS
  <2> HIDE DEF args, f
  <2> QED BY <1>3, <2>1, <2>4, <2>5, ArgsReplaced
<1> HIDE DEF f
<1>4. other.node = f /\ other.type = study.type /\ other.unit = study.unit
  OBVIOUS
<1> HIDE DEF other
<1>5. RecordOK(c, other)
  BY <1>1, <1>2, <1>3, <1>4, ReshapedIsRecord
<1> QED BY <1>5 DEF other, f

\* The ids the tools have given out, and the ones a document has.
Given(last) == {<<"field", n>> : n \in 1..last.field} \union {<<"study", n>> : n \in 1..last.study}
Own(d) == DOMAIN d.fields \union DOMAIN d.studies

\* A record of the tools has an id they gave out, is made of the catalog and
\* of such ids of the document, and is valid unless a preview replaced one.
RecordKept(d, last, id, record) ==
  record.checked =>
    /\ id \in Given(last)
    /\ Mentioned(record.node) \subseteq DOMAIN Builtin \union (Own(d) \intersect Given(last))
    /\ Clean(d, record.node) => RecordOK(Catalog(d), record)
StudyKept(d, record) ==
  record.checked /\ Clean(d, record.node) => StudyOK(Catalog(d), record)

Numbered(ids, kind) == \E m \in Nat : ids \subseteq {<<kind, n>> : n \in 1..m}

DocumentOK(d, last) ==
  /\ d = [fields |-> d.fields, studies |-> d.studies]
  /\ Numbered(DOMAIN d.fields, "field") /\ Numbered(DOMAIN d.studies, "study")
  /\ CatalogOK(Catalog(d))
  /\ \A id \in DOMAIN d.fields : RecordKept(d, last, id, d.fields[id])
  /\ \A id \in DOMAIN d.studies : RecordKept(d, last, id, d.studies[id]) /\ StudyKept(d, d.studies[id])

SequenceOK(last) ==
  last = [field |-> last.field, study |-> last.study] /\ last.field \in Nat /\ last.study \in Nat

CustomInv ==
  /\ SequenceOK(sequence) /\ SequenceOK(sharedSequence) /\ DocumentOK(followups, sequence)
  /\ followupsBefore # NoDoc => DocumentOK(followupsBefore, sequence)

\* So do the declarations of a study.
LEMMA StudiesLast ==
  ASSUME NEW b, NEW c, NEW study, KeepsItems(b, c, study.node), RecordOK(c, study), StudyOK(c, study)
  PROVE  StudyOK(b, study)
<1>1. ASSUME NEW p \in DOMAIN study.parameters
      PROVE  /\ DeclarationHolds(b, study.node, study.parameters[p])
             /\ CatalogParameter(b, study.node, study.parameters[p])
                  = CatalogParameter(c, study.node, study.parameters[p])
  <2> DEFINE binding == study.parameters[p]
             node == study.node[binding.path]
  <2>1. DeclarationHolds(c, study.node, binding)
    BY DEF StudyOK
  <2>2. binding.path \in DOMAIN study.node /\ node.kind = "function_call"
    BY <2>1 DEF DeclarationHolds
  <2>3. node.id \in DOMAIN c
    BY <2>2, CallsAre
  <2>4. b[node.id] = c[node.id]
    <3>1. node.id \in Mentioned(study.node)
      BY <2>2 DEF Mentioned
    <3> QED BY <2>3, <3>1 DEF KeepsItems
  <2> HIDE DEF binding
  <2>5. DeclarationHolds(b, study.node, binding)
    BY <2>1, <2>4 DEF DeclarationHolds
  <2>6. CatalogParameter(b, study.node, binding) = CatalogParameter(c, study.node, binding)
    BY <2>4 DEF CatalogParameter
  <2> QED BY <2>5, <2>6 DEF binding
<1> QED BY <1>1 DEF StudyOK

\* What a record is made of is in the catalog it is valid in.
LEMMA MentionedAreItems ==
  ASSUME NEW c, NEW record, RecordOK(c, record)
  PROVE  Mentioned(record.node) \subseteq DOMAIN c
<1> SUFFICES ASSUME NEW id \in Mentioned(record.node) PROVE id \in DOMAIN c
  OBVIOUS
<1>1. PICK path \in DOMAIN record.node :
        record.node[path].kind \in {"field_ref", "function_call"} /\ id = record.node[path].id
  BY DEF Mentioned
<1>2. Accepted(c, record.node)
  BY DEF RecordOK
<1>3. ~IsBinary(record.node[path])
  BY <1>1 DEF IsBinary, Operators
<1>4. ResolveLeaf(c, record.node[path]).ok
  BY <1>2, <1>3, LeavesHold
<1>5. CASE record.node[path].kind = "field_ref"
  BY <1>1, <1>4, <1>5 DEF ResolveLeaf, Invalid
<1>6. CASE record.node[path].kind = "function_call"
  BY <1>1, <1>4, <1>6 DEF ResolveLeaf, ResolveFunctionCall, Invalid
<1> QED BY <1>1, <1>5, <1>6

\* The ids of a document are its own.
LEMMA IdsApart ==
  ASSUME NEW d, NEW last, DocumentOK(d, last)
  PROVE  /\ DOMAIN d.fields \intersect DOMAIN d.studies = {}
         /\ \A n : <<"field", n>> \notin DOMAIN d.studies /\ <<"study", n>> \notin DOMAIN d.fields
         /\ \A n : <<"field", n>> \notin DOMAIN Builtin /\ <<"study", n>> \notin DOMAIN Builtin
<1>1. /\ \A id \in DOMAIN d.fields : id[1] = "field"
      /\ \A id \in DOMAIN d.studies : id[1] = "study"
  BY DEF DocumentOK, Numbered
<1>2. \A n : <<"field", n>>[1] = "field" /\ <<"study", n>>[1] = "study"
  OBVIOUS
<1>3. \A id \in DOMAIN Builtin : id[1] # "field" /\ id[1] # "study"
  BY CustomStudiesAssumption
<1>4. DOMAIN d.fields \intersect DOMAIN d.studies = {}
  BY <1>1
<1>5. \A n : <<"field", n>> \notin DOMAIN d.studies /\ <<"study", n>> \notin DOMAIN d.fields
  BY <1>1, <1>2
<1>6. \A n : <<"field", n>> \notin DOMAIN Builtin /\ <<"study", n>> \notin DOMAIN Builtin
  BY <1>2, <1>3
<1> QED BY <1>4, <1>5, <1>6

LEMMA GivenGrows ==
  ASSUME NEW last, SequenceOK(last), NEW later, SequenceOK(later),
         last.field <= later.field, last.study <= later.study
  PROVE  Given(last) \subseteq Given(later)
<1>1. 1..last.field \subseteq 1..later.field /\ 1..last.study \subseteq 1..later.study
  BY DEF SequenceOK
<1> QED BY <1>1 DEF Given

\* More ids may be given out.
LEMMA DocumentsLast ==
  ASSUME NEW d, NEW last, DocumentOK(d, last), NEW later,
         Own(d) \intersect Given(last) \subseteq Given(later)
  PROVE  DocumentOK(d, later)
<1>1. ASSUME NEW id \in Own(d), NEW record, RecordKept(d, last, id, record)
      PROVE  RecordKept(d, later, id, record)
  BY <1>1 DEF RecordKept
<1> QED BY <1>1 DEF DocumentOK, Own

\* Two documents that differ in one record only.
Differ(next, d, id) ==
  /\ Own(next) = Own(d) \union {id}
  /\ \A i \in Own(next) : i # id =>
       /\ i \in DOMAIN next.fields <=> i \in DOMAIN d.fields
       /\ i \in DOMAIN next.studies <=> i \in DOMAIN d.studies
       /\ i \in DOMAIN d.fields => next.fields[i] = d.fields[i]
       /\ i \in DOMAIN d.studies => next.studies[i] = d.studies[i]

LEMMA ItemsKept ==
  ASSUME NEW d, NEW next, NEW id, Differ(next, d, id), NEW i, i # id
  PROVE  /\ i \in DOMAIN Catalog(next) <=> i \in DOMAIN Catalog(d)
         /\ i \in DOMAIN Catalog(d) => Catalog(next)[i] = Catalog(d)[i]
<1>1. DOMAIN Catalog(next) = DOMAIN Builtin \union Own(next)
  BY DEF Catalog, Own
<1>2. DOMAIN Catalog(d) = DOMAIN Builtin \union Own(d)
  BY DEF Catalog, Own
<1>3. i \in Own(next) <=> i \in Own(d)
  BY DEF Differ
<1>4. ASSUME i \in DOMAIN Catalog(d) PROVE Catalog(next)[i] = Catalog(d)[i]
  <2>1. i \in DOMAIN Catalog(next)
    BY <1>1, <1>2, <1>3, <1>4
  <2>2. /\ i \in DOMAIN next.fields <=> i \in DOMAIN d.fields
        /\ i \in DOMAIN next.studies <=> i \in DOMAIN d.studies
        /\ i \in DOMAIN d.fields => next.fields[i] = d.fields[i]
        /\ i \in DOMAIN d.studies => next.studies[i] = d.studies[i]
    BY <1>3 DEF Differ, Own
  <2>3. Catalog(next)[i] = IF i \in DOMAIN next.fields THEN FieldItem(next.fields[i])
                           ELSE IF i \in DOMAIN next.studies THEN StudyItem(next.studies[i]) ELSE Builtin[i]
    BY <2>1 DEF Catalog
  <2>4. Catalog(d)[i] = IF i \in DOMAIN d.fields THEN FieldItem(d.fields[i])
                        ELSE IF i \in DOMAIN d.studies THEN StudyItem(d.studies[i]) ELSE Builtin[i]
    BY <1>4 DEF Catalog
  <2> QED BY <2>2, <2>3, <2>4
<1> QED BY <1>1, <1>2, <1>3, <1>4

\* A record that is not made of the id that was written is kept.
LEMMA RecordsKept ==
  ASSUME NEW d, NEW next, NEW id, Differ(next, d, id), NEW last, NEW later, Given(last) \subseteq Given(later),
         NEW i, NEW record, RecordKept(d, last, i, record),
         record.checked /\ Clean(next, record.node) => id \notin Mentioned(record.node)
  PROVE  /\ RecordKept(next, later, i, record)
         /\ StudyKept(d, record) => StudyKept(next, record)
<1>1. ASSUME record.checked, Clean(next, record.node)
      PROVE  Clean(d, record.node) /\ KeepsItems(Catalog(next), Catalog(d), record.node)
  <2>1. id \notin Mentioned(record.node)
    BY <1>1
  <2>2. Clean(d, record.node)
    <3> SUFFICES ASSUME NEW j \in Mentioned(record.node)
                 PROVE  /\ j \in DOMAIN d.fields => d.fields[j].checked
                        /\ j \in DOMAIN d.studies => d.studies[j].checked
      BY DEF Clean
    <3>1. j # id
      BY <2>1
    <3>2. /\ j \in DOMAIN next.fields => next.fields[j].checked
          /\ j \in DOMAIN next.studies => next.studies[j].checked
      BY <1>1 DEF Clean
    <3>3. ASSUME j \in Own(d)
          PROVE  /\ j \in DOMAIN next.fields <=> j \in DOMAIN d.fields
                 /\ j \in DOMAIN next.studies <=> j \in DOMAIN d.studies
                 /\ j \in DOMAIN d.fields => next.fields[j] = d.fields[j]
                 /\ j \in DOMAIN d.studies => next.studies[j] = d.studies[j]
      BY <3>1, <3>3 DEF Differ
    <3>4. CASE j \in DOMAIN d.fields
      <4>1. j \in Own(d)
        BY <3>4 DEF Own
      <4> QED BY <3>2, <3>3, <4>1
    <3>5. CASE j \in DOMAIN d.studies
      <4>1. j \in Own(d)
        BY <3>5 DEF Own
      <4> QED BY <3>2, <3>3, <4>1
    <3> QED BY <3>4, <3>5
  <2>3. KeepsItems(Catalog(next), Catalog(d), record.node)
    <3>1. ASSUME NEW j \in Mentioned(record.node), j \in DOMAIN Catalog(d)
          PROVE  j \in DOMAIN Catalog(next) /\ Catalog(next)[j] = Catalog(d)[j]
      <4>1. j # id
        BY <2>1
      <4> QED BY <3>1, <4>1, ItemsKept
    <3> QED BY <3>1 DEF KeepsItems
  <2> QED BY <2>2, <2>3
<1>2. Own(d) \subseteq Own(next)
  BY DEF Differ
<1>3. RecordKept(next, later, i, record)
  <2>1. ASSUME record.checked, Clean(next, record.node) PROVE RecordOK(Catalog(next), record)
    <3>1. RecordOK(Catalog(d), record)
      BY <1>1, <2>1 DEF RecordKept
    <3> QED BY <1>1, <2>1, <3>1, RecordsLast
  <2> QED BY <1>2, <2>1 DEF RecordKept
<1>4. ASSUME StudyKept(d, record), record.checked, Clean(next, record.node)
      PROVE  StudyOK(Catalog(next), record)
  <2>1. RecordOK(Catalog(d), record) /\ StudyOK(Catalog(d), record)
    BY <1>1, <1>4 DEF RecordKept, StudyKept
  <2> QED BY <1>1, <1>4, <2>1, StudiesLast
<1> QED BY <1>3, <1>4 DEF StudyKept

\* What a tool makes of a document is made of the catalog and of its records.
LEMMA MadeByTools ==
  ASSUME NEW d, NEW last, DocumentOK(d, last), NEW record, RecordOK(Catalog(d), record), Clean(d, record.node)
  PROVE  Mentioned(record.node) \subseteq DOMAIN Builtin \union (Own(d) \intersect Given(last))
<1> SUFFICES ASSUME NEW i \in Mentioned(record.node), i \notin DOMAIN Builtin
             PROVE  i \in Own(d) /\ i \in Given(last)
  OBVIOUS
<1>1. i \in DOMAIN Catalog(d)
  BY MentionedAreItems
<1>2. i \in Own(d)
  BY <1>1 DEF Catalog, Own
<1>3. i \in DOMAIN d.fields => i \in Given(last)
  BY DEF Clean, DocumentOK, RecordKept
<1>4. i \in DOMAIN d.studies => i \in Given(last)
  BY DEF Clean, DocumentOK, RecordKept
<1> QED BY <1>2, <1>3, <1>4 DEF Own

\* One record is written: by a tool at the next id it gives out, or unseen at
\* any id.  Then no record of the tools that stays clean is made of that id.
Written(d, last, later, id, next, record) ==
  /\ SequenceOK(last) /\ SequenceOK(later) /\ last.field <= later.field /\ last.study <= later.study
  /\ DocumentOK(d, last)
  /\ record.checked =>
       /\ id \in Given(later) /\ id \notin Given(last)
       /\ Clean(d, record.node) /\ RecordOK(Catalog(d), record)
  /\ Differ(next, d, id) /\ id \notin DOMAIN Builtin
  /\ id \in DOMAIN next.fields => next.fields[id] = record
  /\ id \in DOMAIN next.studies => next.studies[id] = record

LEMMA WrittenKept ==
  ASSUME NEW d, NEW last, NEW later, NEW id, NEW next, NEW record, Written(d, last, later, id, next, record)
  PROVE  /\ DocumentOK(d, later)
         /\ \A i \in DOMAIN next.fields : RecordKept(next, later, i, next.fields[i])
         /\ \A i \in DOMAIN next.studies : RecordKept(next, later, i, next.studies[i])
         /\ \A i \in DOMAIN next.studies : i # id => StudyKept(next, next.studies[i])
         /\ record.checked => KeepsItems(Catalog(next), Catalog(d), record.node)
<1>1. Given(last) \subseteq Given(later)
  BY GivenGrows DEF Written
<1>2. DocumentOK(d, later)
  BY <1>1, DocumentsLast DEF Written
<1>3. ASSUME NEW i, NEW other, RecordKept(d, last, i, other)
      PROVE  other.checked /\ Clean(next, other.node) => id \notin Mentioned(other.node)
  <2> SUFFICES ASSUME other.checked, Clean(next, other.node), id \in Mentioned(other.node) PROVE FALSE
    OBVIOUS
  <2>1. id \in Own(next)
    BY DEF Written, Differ
  <2>2. record.checked
    <3>1. CASE id \in DOMAIN next.fields
      BY <3>1 DEF Clean, Written
    <3>2. CASE id \in DOMAIN next.studies
      BY <3>2 DEF Clean, Written
    <3> QED BY <2>1, <3>1, <3>2 DEF Own
  <2>3. id \notin Given(last) /\ id \notin DOMAIN Builtin
    BY <2>2 DEF Written
  <2>4. id \in DOMAIN Builtin \union (Own(d) \intersect Given(last))
    BY <1>3 DEF RecordKept
  <2> QED BY <2>3, <2>4
<1>4. ASSUME NEW i, NEW other, RecordKept(d, last, i, other)
      PROVE  RecordKept(next, later, i, other) /\ (StudyKept(d, other) => StudyKept(next, other))
  <2>1. other.checked /\ Clean(next, other.node) => id \notin Mentioned(other.node)
    BY <1>3, <1>4
  <2>2. Differ(next, d, id)
    BY DEF Written
  <2> QED BY <1>1, <1>4, <2>1, <2>2, RecordsKept
<1>5. ASSUME record.checked
      PROVE  /\ id \notin Mentioned(record.node) /\ KeepsItems(Catalog(next), Catalog(d), record.node)
             /\ RecordKept(next, later, id, record)
  <2>1. /\ DocumentOK(d, last) /\ Clean(d, record.node) /\ RecordOK(Catalog(d), record)
        /\ id \in Given(later) /\ id \notin Given(last) /\ id \notin DOMAIN Builtin /\ Differ(next, d, id)
    BY <1>5 DEF Written
  <2>2. Mentioned(record.node) \subseteq DOMAIN Builtin \union (Own(d) \intersect Given(last))
    BY <2>1, MadeByTools
  <2>3. id \notin Mentioned(record.node)
    BY <2>1, <2>2
  <2>4. KeepsItems(Catalog(next), Catalog(d), record.node)
    <3>1. ASSUME NEW j \in Mentioned(record.node), j \in DOMAIN Catalog(d)
          PROVE  j \in DOMAIN Catalog(next) /\ Catalog(next)[j] = Catalog(d)[j]
      <4>1. j # id
        BY <2>3
      <4> QED BY <2>1, <3>1, <4>1, ItemsKept
    <3> QED BY <3>1 DEF KeepsItems
  <2>5. RecordOK(Catalog(next), record)
    BY <2>1, <2>4, RecordsLast
  <2>6. Own(d) \subseteq Own(next)
    BY <2>1 DEF Differ
  <2> QED BY <1>1, <2>1, <2>2, <2>3, <2>4, <2>5, <2>6 DEF RecordKept
<1>6. RecordKept(next, later, id, record)
  BY <1>5 DEF RecordKept
<1>7. ASSUME NEW i \in Own(next), i # id
      PROVE  /\ i \in DOMAIN next.fields => i \in DOMAIN d.fields /\ next.fields[i] = d.fields[i]
             /\ i \in DOMAIN next.studies => i \in DOMAIN d.studies /\ next.studies[i] = d.studies[i]
  BY <1>7 DEF Written, Differ
<1>8. \A i \in DOMAIN next.fields : RecordKept(next, later, i, next.fields[i])
  <2> SUFFICES ASSUME NEW i \in DOMAIN next.fields PROVE RecordKept(next, later, i, next.fields[i])
    OBVIOUS
  <2>1. CASE i = id
    BY <1>6, <2>1 DEF Written
  <2>2. CASE i # id
    <3>1. i \in DOMAIN d.fields /\ next.fields[i] = d.fields[i]
      BY <1>7, <2>2 DEF Own
    <3>2. RecordKept(d, last, i, d.fields[i])
      BY <3>1 DEF Written, DocumentOK
    <3> QED BY <1>4, <3>1, <3>2
  <2> QED BY <2>1, <2>2
<1>9. ASSUME NEW i \in DOMAIN next.studies
      PROVE  RecordKept(next, later, i, next.studies[i]) /\ (i # id => StudyKept(next, next.studies[i]))
  <2>1. CASE i = id
    BY <1>6, <2>1 DEF Written
  <2>2. CASE i # id
    <3>1. i \in DOMAIN d.studies /\ next.studies[i] = d.studies[i]
      BY <1>7, <2>2 DEF Own
    <3>2. RecordKept(d, last, i, d.studies[i]) /\ StudyKept(d, d.studies[i])
      BY <3>1 DEF Written, DocumentOK
    <3> QED BY <1>4, <3>1, <3>2
  <2> QED BY <2>1, <2>2
<1> QED BY <1>2, <1>5, <1>8, <1>9

\* A catalog with an item written.
LEMMA OneItemWritten ==
  ASSUME NEW d, NEW next, NEW id, Differ(next, d, id), CatalogOK(Catalog(d)), IsItem(Catalog(next)[id])
  PROVE  CatalogOK(Catalog(next))
<1> SUFFICES ASSUME NEW i \in DOMAIN Catalog(next), i # id PROVE IsItem(Catalog(next)[i])
  BY DEF CatalogOK
<1>1. i \in DOMAIN Catalog(d) /\ Catalog(next)[i] = Catalog(d)[i]
  BY ItemsKept
<1> QED BY <1>1 DEF CatalogOK

LEMMA NumberedMore ==
  ASSUME NEW ids, NEW kind, Numbered(ids, kind), NEW n \in Nat \ {0}
  PROVE  Numbered(ids \union {<<kind, n>>}, kind)
<1>1. PICK m \in Nat : ids \subseteq {<<kind, k>> : k \in 1..m}
  BY DEF Numbered
<1>2. \A k \in 1..m : k \in 1..(m + n)
  OBVIOUS
<1>3. n \in 1..(m + n) /\ m + n \in Nat
  OBVIOUS
<1>4. ids \union {<<kind, n>>} \subseteq {<<kind, k>> : k \in 1..(m + n)}
  BY <1>1, <1>2, <1>3
<1> QED BY <1>3, <1>4 DEF Numbered

\* What a tool checked it gave the next number.
NextOf(record, n, last, later) == record.checked => n = last + 1 /\ n <= later

LEMMA FieldStored ==
  ASSUME NEW d, NEW last, SequenceOK(last), DocumentOK(d, last), NEW later, SequenceOK(later),
         last.field <= later.field, last.study <= later.study,
         NEW n \in Nat \ {0}, NEW id, id = <<"field", n>>, NEW record, NextOf(record, n, last.field, later.field),
         record.checked => Clean(d, record.node) /\ RecordOK(Catalog(d), record), record.type \in Types,
         NEW next, next = [d EXCEPT !.fields = Store(@, id, record)]
  PROVE  DocumentOK(d, later) /\ DocumentOK(next, later)
<1>1. d = [fields |-> d.fields, studies |-> d.studies]
  BY DEF DocumentOK
<1>2. /\ next = [fields |-> Store(d.fields, id, record), studies |-> d.studies]
      /\ next.fields = Store(d.fields, id, record) /\ next.studies = d.studies
      /\ next = [fields |-> next.fields, studies |-> next.studies]
  BY <1>1
<1>3. /\ DOMAIN next.fields = DOMAIN d.fields \union {id} /\ next.fields[id] = record
      /\ \A i \in DOMAIN d.fields : i # id => next.fields[i] = d.fields[i]
  BY <1>2 DEF Store
<1>4. id \notin DOMAIN d.studies /\ id \notin DOMAIN Builtin
  BY IdsApart
<1>5. Differ(next, d, id)
  <2>1. Own(next) = Own(d) \union {id}
    BY <1>2, <1>3 DEF Own
  <2> QED BY <1>2, <1>3, <2>1 DEF Differ
<1>6. record.checked => id \in Given(later) /\ id \notin Given(last)
  <2> SUFFICES ASSUME record.checked PROVE id \in Given(later) /\ id \notin Given(last)
    OBVIOUS
  <2>1. n = last.field + 1 /\ n <= later.field /\ last.field \in Nat /\ later.field \in Nat
    BY DEF NextOf, SequenceOK
  <2>2. n \in 1..later.field /\ n \notin 1..last.field
    BY <2>1
  <2> QED BY <2>2 DEF Given
<1>7. Written(d, last, later, id, next, record)
  BY <1>2, <1>3, <1>4, <1>5, <1>6 DEF Written
<1>8. CatalogOK(Catalog(next))
  <2>1. Catalog(next)[id] = FieldItem(record)
    BY <1>3 DEF Catalog
  <2>2. IsItem(FieldItem(record))
    BY DEF FieldItem, IsItem
  <2>3. CatalogOK(Catalog(d))
    BY DEF DocumentOK
  <2> QED BY <1>5, <2>1, <2>2, <2>3, OneItemWritten
<1>9. Numbered(DOMAIN next.fields, "field") /\ Numbered(DOMAIN next.studies, "study")
  BY <1>2, <1>3, NumberedMore DEF DocumentOK
<1>10. /\ DocumentOK(d, later)
       /\ \A i \in DOMAIN next.fields : RecordKept(next, later, i, next.fields[i])
       /\ \A i \in DOMAIN next.studies : RecordKept(next, later, i, next.studies[i])
       /\ \A i \in DOMAIN next.studies : i # id => StudyKept(next, next.studies[i])
  BY <1>7, WrittenKept
<1>11. \A i \in DOMAIN next.studies : StudyKept(next, next.studies[i])
  BY <1>2, <1>4, <1>10
<1> QED BY <1>2, <1>8, <1>9, <1>10, <1>11 DEF DocumentOK

LEMMA StudyStored ==
  ASSUME NEW d, NEW last, SequenceOK(last), DocumentOK(d, last), NEW later, SequenceOK(later),
         last.field <= later.field, last.study <= later.study,
         NEW n \in Nat \ {0}, NEW id, id = <<"study", n>>, NEW record, NextOf(record, n, last.study, later.study),
         record.checked => Clean(d, record.node) /\ RecordOK(Catalog(d), record) /\ StudyOK(Catalog(d), record),
         record.type \in Types,
         \A p \in DOMAIN record.catalogParameters : IsParameter(record.catalogParameters[p]),
         NEW next, next = [d EXCEPT !.studies = Store(@, id, record)]
  PROVE  DocumentOK(d, later) /\ DocumentOK(next, later)
<1>1. d = [fields |-> d.fields, studies |-> d.studies]
  BY DEF DocumentOK
<1>2. /\ next = [fields |-> d.fields, studies |-> Store(d.studies, id, record)]
      /\ next.studies = Store(d.studies, id, record) /\ next.fields = d.fields
      /\ next = [fields |-> next.fields, studies |-> next.studies]
  BY <1>1
<1>3. /\ DOMAIN next.studies = DOMAIN d.studies \union {id} /\ next.studies[id] = record
      /\ \A i \in DOMAIN d.studies : i # id => next.studies[i] = d.studies[i]
  BY <1>2 DEF Store
<1>4. id \notin DOMAIN d.fields /\ id \notin DOMAIN Builtin
  BY IdsApart
<1>5. Differ(next, d, id)
  <2>1. Own(next) = Own(d) \union {id}
    BY <1>2, <1>3 DEF Own
  <2> QED BY <1>2, <1>3, <2>1 DEF Differ
<1>6. record.checked => id \in Given(later) /\ id \notin Given(last)
  <2> SUFFICES ASSUME record.checked PROVE id \in Given(later) /\ id \notin Given(last)
    OBVIOUS
  <2>1. n = last.study + 1 /\ n <= later.study /\ last.study \in Nat /\ later.study \in Nat
    BY DEF NextOf, SequenceOK
  <2>2. n \in 1..later.study /\ n \notin 1..last.study
    BY <2>1
  <2> QED BY <2>2 DEF Given
<1>7. Written(d, last, later, id, next, record)
  BY <1>2, <1>3, <1>4, <1>5, <1>6 DEF Written
<1>8. CatalogOK(Catalog(next))
  <2>1. Catalog(next)[id] = StudyItem(record)
    BY <1>2, <1>3, <1>4 DEF Catalog
  <2>2. IsItem(StudyItem(record))
    BY DEF StudyItem, IsItem
  <2>3. CatalogOK(Catalog(d))
    BY DEF DocumentOK
  <2> QED BY <1>5, <2>1, <2>2, <2>3, OneItemWritten
<1>9. Numbered(DOMAIN next.fields, "field") /\ Numbered(DOMAIN next.studies, "study")
  BY <1>2, <1>3, NumberedMore DEF DocumentOK
<1>10. /\ DocumentOK(d, later)
       /\ \A i \in DOMAIN next.fields : RecordKept(next, later, i, next.fields[i])
       /\ \A i \in DOMAIN next.studies : RecordKept(next, later, i, next.studies[i])
       /\ \A i \in DOMAIN next.studies : i # id => StudyKept(next, next.studies[i])
       /\ record.checked => KeepsItems(Catalog(next), Catalog(d), record.node)
  BY <1>7, WrittenKept
<1>11. StudyKept(next, record)
  <2>1. ASSUME record.checked PROVE StudyOK(Catalog(next), record)
    BY <1>10, <2>1, StudiesLast
  <2> QED BY <2>1 DEF StudyKept
<1>12. \A i \in DOMAIN next.studies : StudyKept(next, next.studies[i])
  BY <1>3, <1>10, <1>11
<1> QED BY <1>2, <1>8, <1>9, <1>10, <1>12 DEF DocumentOK

LEMMA CustomInvInit == CustomInit => CustomInv
<1> SUFFICES ASSUME CustomInit PROVE CustomInv
  OBVIOUS
<1>1. /\ followups = [fields |-> <<>>, studies |-> <<>>] /\ followupsBefore = NoDoc
      /\ sequence = NoneMinted /\ sharedSequence = NoneMinted
  BY DEF CustomInit
<1>2. SequenceOK(sequence) /\ SequenceOK(sharedSequence)
  BY <1>1 DEF SequenceOK, NoneMinted
<1>3. /\ DOMAIN followups.fields = {} /\ DOMAIN followups.studies = {}
      /\ followups = [fields |-> followups.fields, studies |-> followups.studies]
  BY <1>1
<1>4. CatalogOK(Catalog(followups))
  <2>1. ASSUME NEW id \in DOMAIN Catalog(followups) PROVE IsItem(Catalog(followups)[id])
    <3>1. id \in DOMAIN Builtin /\ Catalog(followups)[id] = Builtin[id]
      BY <1>3 DEF Catalog
    <3> QED BY <3>1, CustomStudiesAssumption
  <2> QED BY <2>1 DEF CatalogOK
<1>5. Numbered(DOMAIN followups.fields, "field") /\ Numbered(DOMAIN followups.studies, "study")
  <2>1. 0 \in Nat
    OBVIOUS
  <2> QED BY <1>3, <2>1 DEF Numbered
<1> QED BY <1>1, <1>2, <1>3, <1>4, <1>5 DEF CustomInv, DocumentOK

LEMMA FieldStep ==
  ASSUME CustomInv, NEW name, NEW raw \in Raws, CreateComputedField(name, raw)
  PROVE  CustomInv'
<1> DEFINE result == ValidateExpression(Catalog(followups), raw)
           id == <<"field", sequence.field + 1>>
           record == [name |-> name, node |-> result.node, type |-> result.type, unit |-> result.unit,
                      checked |-> Clean(followups, result.node)]
<1>1. /\ result.ok /\ sequence' = [sequence EXCEPT !.field = @ + 1] /\ sharedSequence' = sharedSequence
      /\ followups' = [followups EXCEPT !.fields = Store(@, id, record)] /\ followupsBefore' = followups
  BY DEF CreateComputedField, StoreField, ChangeCatalog
<1>2. SequenceOK(sequence) /\ SequenceOK(sharedSequence) /\ DocumentOK(followups, sequence)
  BY DEF CustomInv
<1>3. /\ SequenceOK(sequence') /\ sequence'.field = sequence.field + 1 /\ sequence'.study = sequence.study
      /\ sequence.field \in Nat /\ sequence.study \in Nat /\ sequence.field + 1 \in Nat \ {0}
      /\ sequence.field <= sequence'.field /\ sequence.study <= sequence'.study
  BY <1>1, <1>2 DEF SequenceOK
<1>4. RecordOK(Catalog(followups), record) /\ record.type \in Types
  <2>1. IsExpression(raw)
    BY CustomStudiesAssumption
  <2>2. record.node = result.node /\ record.type = result.type /\ record.unit = result.unit
    OBVIOUS
  <2> HIDE DEF record
  <2>3. RecordOK(Catalog(followups), record)
    BY <1>1, <2>1, <2>2, ValidIsRecord
  <2> QED BY <1>2, <2>3, RecordsAreTyped DEF DocumentOK
<1>5. NextOf(record, sequence.field + 1, sequence.field, sequence'.field)
  BY <1>3 DEF NextOf
<1>6. record.checked => Clean(followups, record.node)
  OBVIOUS
<1> HIDE DEF record, result
<1>7. DocumentOK(followups, sequence') /\ DocumentOK(followups', sequence')
  BY <1>1, <1>2, <1>3, <1>4, <1>5, <1>6, FieldStored
<1> QED BY <1>1, <1>2, <1>3, <1>7 DEF CustomInv

\* The parameters a custom study declares are parameters of the catalog.
LEMMA DeclaredAre ==
  ASSUME NEW c, CatalogOK(c), NEW study, RecordOK(c, study), StudyOK(c, study)
  PROVE  \A p \in DOMAIN study.catalogParameters : IsParameter(study.catalogParameters[p])
<1>1. DOMAIN study.catalogParameters = DOMAIN study.parameters
  BY DEF StudyOK
<1> SUFFICES ASSUME NEW p \in DOMAIN study.parameters PROVE IsParameter(study.catalogParameters[p])
  BY <1>1
<1> DEFINE binding == study.parameters[p]
           node == study.node
<1>2. /\ DeclarationHolds(c, node, binding) /\ (binding.range = NoRange \/ IsRange(binding.range))
      /\ study.catalogParameters[p] = CatalogParameter(c, node, binding)
  BY DEF StudyOK
<1>3. /\ binding.path \in DOMAIN node /\ node[binding.path].kind = "function_call"
      /\ binding.argName \in DOMAIN c[node[binding.path].id].parameters
  BY <1>2 DEF DeclarationHolds
<1>4. node[binding.path].id \in DOMAIN c /\ c[node[binding.path].id].kind = "study"
  BY <1>3, CallsAre
<1> HIDE DEF binding, node
<1> QED BY <1>2, <1>3, <1>4, ParametersAre

LEMMA StudyStep ==
  ASSUME CustomInv, NEW name, NEW raw \in Raws, NEW parameters \in Declarations,
         CreateCustomStudy(name, raw, parameters)
  PROVE  CustomInv'
<1> DEFINE result == ValidateExpression(Catalog(followups), raw)
           id == <<"study", sequence.study + 1>>
           taken == [p \in DOMAIN parameters |-> CatalogParameter(Catalog(followups), result.node, parameters[p])]
           record == [name |-> name, node |-> result.node, type |-> result.type, unit |-> result.unit,
                      parameters |-> parameters, catalogParameters |-> taken,
                      checked |-> Clean(followups, result.node)]
<1>1. /\ result.ok /\ sequence' = [sequence EXCEPT !.study = @ + 1] /\ sharedSequence' = sharedSequence
      /\ \A p \in DOMAIN parameters : DeclarationHolds(Catalog(followups), result.node, parameters[p])
      /\ followups' = [followups EXCEPT !.studies = Store(@, id, record)] /\ followupsBefore' = followups
  BY DEF CreateCustomStudy, StoreStudy, ChangeCatalog
<1>2. SequenceOK(sequence) /\ SequenceOK(sharedSequence) /\ DocumentOK(followups, sequence)
  BY DEF CustomInv
<1>3. /\ SequenceOK(sequence') /\ sequence'.study = sequence.study + 1 /\ sequence'.field = sequence.field
      /\ sequence.field \in Nat /\ sequence.study \in Nat /\ sequence.study + 1 \in Nat \ {0}
      /\ sequence.field <= sequence'.field /\ sequence.study <= sequence'.study
  BY <1>1, <1>2 DEF SequenceOK
<1>4. /\ RecordOK(Catalog(followups), record) /\ StudyOK(Catalog(followups), record) /\ record.type \in Types
      /\ \A p \in DOMAIN record.catalogParameters : IsParameter(record.catalogParameters[p])
  <2>1. IsExpression(raw)
    BY CustomStudiesAssumption
  <2>2. /\ record.node = result.node /\ record.type = result.type /\ record.unit = result.unit
        /\ record.parameters = parameters /\ record.catalogParameters = taken
    OBVIOUS
  <2>3. \A p \in DOMAIN parameters : parameters[p].range = NoRange \/ IsRange(parameters[p].range)
    BY CustomStudiesAssumption
  <2> HIDE DEF record
  <2>4. RecordOK(Catalog(followups), record)
    BY <1>1, <2>1, <2>2, ValidIsRecord
  <2>5. StudyOK(Catalog(followups), record)
    BY <1>1, <2>2, <2>3 DEF StudyOK
  <2>6. CatalogOK(Catalog(followups))
    BY <1>2 DEF DocumentOK
  <2> QED BY <2>4, <2>5, <2>6, RecordsAreTyped, DeclaredAre
<1>5. NextOf(record, sequence.study + 1, sequence.study, sequence'.study)
  BY <1>3 DEF NextOf
<1>6. record.checked => Clean(followups, record.node)
  OBVIOUS
<1> HIDE DEF record, result
<1>7. DocumentOK(followups, sequence') /\ DocumentOK(followups', sequence')
  BY <1>1, <1>2, <1>3, <1>4, <1>5, <1>6, StudyStored
<1> QED BY <1>1, <1>2, <1>3, <1>7 DEF CustomInv

LEMMA MintStep ==
  ASSUME SequenceOK(sequence), SequenceOK(sharedSequence), NEW kind \in {"field", "study"}, Mint(kind)
  PROVE  SequenceOK(sharedSequence') /\ sequence' = sequence
<1>1. sharedSequence = [field |-> sharedSequence.field, study |-> sharedSequence.study]
      /\ sharedSequence.field \in Nat /\ sharedSequence.study \in Nat
  BY DEF SequenceOK
<1>2. sharedSequence' = [sharedSequence EXCEPT ![kind] = @ + 1] /\ sequence' = sequence
  BY DEF Mint
<1>3. CASE kind = "field"
  <2>1. sharedSequence' = [field |-> sharedSequence.field + 1, study |-> sharedSequence.study]
    BY <1>1, <1>2, <1>3
  <2>2. sharedSequence.field + 1 \in Nat /\ sharedSequence.study \in Nat
    BY <1>1
  <2>3. SequenceOK(sharedSequence')
    BY <2>1, <2>2 DEF SequenceOK
  <2> QED BY <1>2, <2>3
<1>4. CASE kind = "study"
  <2>1. sharedSequence' = [field |-> sharedSequence.field, study |-> sharedSequence.study + 1]
    BY <1>1, <1>2, <1>4
  <2>2. sharedSequence.field \in Nat /\ sharedSequence.study + 1 \in Nat
    BY <1>1
  <2>3. SequenceOK(sharedSequence')
    BY <2>1, <2>2 DEF SequenceOK
  <2> QED BY <1>2, <2>3
<1> QED BY <1>3, <1>4

\* What a preview stores is not checked, so it leaves no record that stays
\* clean made of it.
LEMMA PreviewStep ==
  ASSUME CustomInv, NEW name, NEW claim \in Claims,
         ApplyPreviewedField(name, claim) \/ ApplyPreviewedStudy(name, claim)
  PROVE  CustomInv'
<1>1. SequenceOK(sequence) /\ SequenceOK(sharedSequence) /\ DocumentOK(followups, sequence)
  BY DEF CustomInv
<1>2. /\ claim.type \in Types
      /\ \A p \in DOMAIN claim.catalogParameters : IsParameter(claim.catalogParameters[p])
  BY CustomStudiesAssumption
<1>3. SequenceOK(sharedSequence') /\ sequence' = sequence
  BY <1>1, MintStep DEF ApplyPreviewedField, ApplyPreviewedStudy
<1>4. /\ sequence.field <= sequence.field /\ sequence.study <= sequence.study
      /\ sharedSequence.field + 1 \in Nat \ {0} /\ sharedSequence.study + 1 \in Nat \ {0}
  BY <1>1 DEF SequenceOK
<1>5. CASE ApplyPreviewedField(name, claim)
  <2> DEFINE record == [name |-> name, node |-> claim.node, type |-> claim.type, unit |-> claim.unit,
                        checked |-> FALSE]
             id == <<"field", sharedSequence.field + 1>>
  <2>1. followups' = [followups EXCEPT !.fields = Store(@, id, record)] /\ followupsBefore' = followups
    BY <1>5 DEF ApplyPreviewedField, StoreField, ChangeCatalog
  <2>2. ~record.checked /\ record.type \in Types
    BY <1>2
  <2> HIDE DEF record
  <2>3. NextOf(record, sharedSequence.field + 1, sequence.field, sequence.field)
    BY <2>2 DEF NextOf
  <2>4. DocumentOK(followups', sequence)
    BY <1>1, <1>4, <2>1, <2>2, <2>3, FieldStored
  <2> QED BY <1>1, <1>3, <2>1, <2>4 DEF CustomInv
<1>6. CASE ApplyPreviewedStudy(name, claim)
  <2> DEFINE record == [name |-> name, node |-> claim.node, type |-> claim.type, unit |-> claim.unit,
                        parameters |-> claim.parameters, catalogParameters |-> claim.catalogParameters,
                        checked |-> FALSE]
             id == <<"study", sharedSequence.study + 1>>
  <2>1. followups' = [followups EXCEPT !.studies = Store(@, id, record)] /\ followupsBefore' = followups
    BY <1>6 DEF ApplyPreviewedStudy, StoreStudy, ChangeCatalog
  <2>2. /\ ~record.checked /\ record.type \in Types
        /\ \A p \in DOMAIN record.catalogParameters : IsParameter(record.catalogParameters[p])
    BY <1>2
  <2> HIDE DEF record
  <2>3. NextOf(record, sharedSequence.study + 1, sequence.study, sequence.study)
    BY <2>2 DEF NextOf
  <2>4. DocumentOK(followups', sequence)
    BY <1>1, <1>4, <2>1, <2>2, <2>3, StudyStored
  <2> QED BY <1>1, <1>3, <2>1, <2>4 DEF CustomInv
<1> QED BY <1>5, <1>6

LEMMA DropPreviewStep ==
  ASSUME CustomInv, NEW kind \in {"field", "study"}, DropPreview(kind)
  PROVE  CustomInv'
<1>1. /\ SequenceOK(sharedSequence') /\ sequence' = sequence
      /\ followups' = followups /\ followupsBefore' = followupsBefore
  BY MintStep DEF CustomInv, DropPreview
<1> QED BY <1>1 DEF CustomInv

\* The numbers a page load finds are the largest in use.
LEMMA NumbersAre ==
  ASSUME NEW kind, NEW m \in Nat, NEW ids, ids \subseteq {<<kind, n>> : n \in 1..m}
  PROVE  MaxSequence(ids) \in Nat /\ ids \subseteq {<<kind, n>> : n \in 1..MaxSequence(ids)}
<1> DEFINE numbers == {id[2] : id \in ids} \union {0}
<1>1. \A id \in ids : id[2] \in 1..m /\ id = <<kind, id[2]>>
  OBVIOUS
<1>2. numbers \subseteq 0..m /\ 0 \in numbers /\ \A id \in ids : id[2] \in numbers
  BY <1>1
<1> HIDE DEF numbers
<1>3. numbers \in SUBSET Int /\ IsFiniteSet(numbers) /\ numbers # {}
  <2>1. IsFiniteSet(0..m) /\ 0..m \subseteq Int
    BY FS_Interval
  <2> QED BY <1>2, <2>1, FS_Subset
<1>4. Max(numbers) \in numbers /\ \A k \in numbers : k <= Max(numbers)
  BY <1>3, EndsAre
<1>5. MaxSequence(ids) = Max(numbers)
  BY DEF MaxSequence, numbers
<1>6. Max(numbers) \in Nat
  <2>1. Max(numbers) \in 0..m
    BY <1>2, <1>4
  <2> QED BY <2>1
<1>7. ASSUME NEW id \in ids PROVE id \in {<<kind, n>> : n \in 1..Max(numbers)}
  <2>1. id = <<kind, id[2]>> /\ id[2] \in 1..m /\ id[2] <= Max(numbers)
    BY <1>1, <1>2, <1>4
  <2>2. id[2] \in 1..Max(numbers)
    BY <1>6, <2>1
  <2> QED BY <2>1, <2>2
<1> QED BY <1>5, <1>6, <1>7

LEMMA ReloadCustomStep ==
  ASSUME CustomInv, ReloadCustom
  PROVE  CustomInv'
<1> DEFINE f == MaxSequence(DOMAIN followups.fields)
           s == MaxSequence(DOMAIN followups.studies)
<1>1. /\ sequence' = [field |-> f, study |-> s] /\ sharedSequence' = NoneMinted
      /\ followupsBefore' = NoDoc /\ followups' = followups
  BY DEF ReloadCustom
<1>2. DocumentOK(followups, sequence)
  BY DEF CustomInv
<1>3. f \in Nat /\ DOMAIN followups.fields \subseteq {<<"field", n>> : n \in 1..f}
  BY <1>2, NumbersAre DEF DocumentOK, Numbered
<1>4. s \in Nat /\ DOMAIN followups.studies \subseteq {<<"study", n>> : n \in 1..s}
  BY <1>2, NumbersAre DEF DocumentOK, Numbered
<1> HIDE DEF f, s
<1>5. SequenceOK(sequence') /\ sequence'.field = f /\ sequence'.study = s /\ SequenceOK(sharedSequence')
  BY <1>1, <1>3, <1>4 DEF SequenceOK, NoneMinted
<1>6. Own(followups) \subseteq Given(sequence')
  BY <1>3, <1>4, <1>5 DEF Own, Given
<1>7. DocumentOK(followups, sequence')
  BY <1>2, <1>6, DocumentsLast
<1> QED BY <1>1, <1>5, <1>7 DEF CustomInv

LEMMA CustomInvNext == CustomInv /\ [CustomNext]_customVars => CustomInv'
<1> SUFFICES ASSUME CustomInv, [CustomNext]_customVars PROVE CustomInv'
  OBVIOUS
<1>1. CASE \E name \in ItemNames, raw \in Raws : CreateComputedField(name, raw)
  BY <1>1, FieldStep
<1>2. CASE \E name \in ItemNames, raw \in Raws, parameters \in Declarations :
             CreateCustomStudy(name, raw, parameters)
  BY <1>2, StudyStep
<1>3. CASE \E name \in ItemNames, claim \in Claims :
             ApplyPreviewedField(name, claim) \/ ApplyPreviewedStudy(name, claim)
  BY <1>3, PreviewStep
<1>4. CASE \E kind \in {"field", "study"} : DropPreview(kind)
  BY <1>4, DropPreviewStep
<1>5. CASE UndoCustomChange
  BY <1>5 DEF UndoCustomChange, CustomInv
<1>6. CASE ReloadCustom
  BY <1>6, ReloadCustomStep
<1>7. CASE UNCHANGED customVars
  BY <1>7 DEF customVars, CustomInv
<1> QED BY <1>1, <1>2, <1>3, <1>4, <1>5, <1>6, <1>7 DEF CustomNext

LEMMA CustomHolds == CustomInv => CustomStaysValid
<1> SUFFICES ASSUME CustomInv PROVE CustomStaysValid
  OBVIOUS
<1> DEFINE c == Catalog(followups)
<1>1. /\ CatalogOK(c)
      /\ \A id \in DOMAIN followups.fields : RecordKept(followups, sequence, id, followups.fields[id])
      /\ \A id \in DOMAIN followups.studies :
           RecordKept(followups, sequence, id, followups.studies[id]) /\ StudyKept(followups, followups.studies[id])
  BY DEF CustomInv, DocumentOK
<1>2. StoredStaysValid
  <2> SUFFICES ASSUME NEW record \in Vouched(followups.fields) \union Vouched(followups.studies)
               PROVE  LET result == ValidateExpression(Catalog(followups), record.node)
                      IN  /\ result.ok
                          /\ result.node = record.node /\ result.type = record.type /\ result.unit = record.unit
                          /\ \A row \in Rows :
                               Evaluate(Catalog(followups), record.node, row).type \in {record.type, NotAvailable.type}
    BY DEF StoredStaysValid
  <2>1. RecordOK(c, record)
    BY <1>1 DEF Vouched, Range, RecordKept
  <2> DEFINE result == ValidateExpression(c, record.node)
  <2>2. /\ result.ok /\ result.node = record.node
        /\ result.type = record.type /\ result.unit = record.unit
    BY <2>1, RecordsValidate
  <2>3. \A row \in Rows : Evaluate(c, record.node, row).type \in {record.type, NotAvailable.type}
    BY <1>1, <2>1, RecordsEvaluate
  <2> QED BY <2>2, <2>3
<1>3. OverridesStayValid
  <2> SUFFICES ASSUME NEW study \in Vouched(followups.studies), NEW given \in SUBSET DOMAIN study.parameters,
                      NEW overrides \in [given -> OverrideValues],
                      OverridesHold(study, overrides), WithinLookback(study, overrides)
               PROVE  LET node == WithOverrides(study, overrides)
                          result == ValidateExpression(Catalog(followups), node)
                      IN  result.ok /\ result.node = node /\ result.type = study.type /\ result.unit = study.unit
    BY DEF OverridesStayValid
  <2>1. RecordOK(c, study) /\ StudyOK(c, study)
    BY <1>1 DEF Vouched, Range, RecordKept, StudyKept
  <2> DEFINE node == WithOverrides(study, overrides)
             result == ValidateExpression(c, node)
             called == [node |-> node, type |-> study.type, unit |-> study.unit]
  <2>2. RecordOK(c, called)
    BY <1>1, <2>1, OverridesAreRecords
  <2>3. called.node = node /\ called.type = study.type /\ called.unit = study.unit
    OBVIOUS
  <2> HIDE DEF called, node, c
  <2>4. /\ result.ok /\ result.node = called.node
        /\ result.type = called.type /\ result.unit = called.unit
    BY <2>2, <2>3, RecordsValidate
  <2>5. result.ok /\ result.node = node /\ result.type = study.type /\ result.unit = study.unit
    BY <2>3, <2>4
  <2> QED BY <2>5 DEF node, c
<1> QED BY <1>2, <1>3 DEF CustomStaysValid

\* Whatever expressions, declarations and claims there are, what the tools
\* stored stays valid unless a preview replaced what it is made of, and so
\* does every call of it (createComputedField.ts, createCustomStudy.ts).
THEOREM CustomAlwaysValid == CustomSpec => []CustomStaysValid
BY CustomInvInit, CustomInvNext, CustomHolds, PTL DEF CustomSpec
=============================================================================
