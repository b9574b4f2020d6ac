------------------------------ MODULE PanelGrid ------------------------------
(***************************************************************************)
(* The panel system (src/lib/panels): panels with footprints on a bounded  *)
(* grid, link groups over channels, and per-panel selections, all in one   *)
(* extension of the workspace document.                                    *)
(*                                                                         *)
(* Every use case is one commitPanelChange, so one call is one action. A   *)
(* tab mints panel ids from counters of its own, seeded from the document  *)
(* when the page loads (panelIdSeed); the document is shared by the tabs.  *)
(*                                                                         *)
(* The state is what readPanelState gives the next call: of two stored     *)
(* panels with one id it keeps the first. Titles, configurations, sources, *)
(* renderers and what is selected are left out, and with them the          *)
(* operations that change nothing else. undo_change and restore bring back *)
(* documents that some call has stored before (WorkspaceRevisions).        *)
(***************************************************************************)
EXTENDS Integers, FiniteSets, Sequences

CONSTANTS
  Tabs,          \* browser tabs open on the workspace
  Columns, Rows, \* GRID_COLUMNS, GRID_ROWS
  Kinds,         \* registered panel kinds
  MinSize,       \* PanelKindDefinition.minSize
  DefaultSize,   \* PanelKindDefinition.defaultSize
  Channels,      \* PANEL_LINK_CHANNELS
  LinkChannels,  \* PanelKindDefinition.linkChannels
  SelectionChannel,      \* "result_selection"
  SeedKind, SeedRect,    \* the one panel of DEFAULT_SEED_PANELS
  Templates,     \* the slots of each layout template
  Footprints,    \* bound: rects callers ask for
  MaxBatch,      \* bound: placements in one set_panel_layout
  MaxMinted      \* bound: ids a tab mints, per kind

Size == [colSpan: 1..Columns, rowSpan: 1..Rows]

RectAt(col, row, colSpan, rowSpan) ==
  [col |-> col, row |-> row, colSpan |-> colSpan, rowSpan |-> rowSpan]

\* What isInvalidSize and isOutOfBounds accept.
Rect ==
  {r \in [col: 0..(Columns - 1), row: 0..(Rows - 1), colSpan: 1..Columns, rowSpan: 1..Rows] :
     r.col + r.colSpan <= Columns /\ r.row + r.rowSpan <= Rows}

AtLeast(r, size) == r.colSpan >= size.colSpan /\ r.rowSpan >= size.rowSpan

ASSUME GridAssumption == Columns \in Nat \ {0} /\ Rows \in Nat \ {0}
ASSUME KindsAssumption ==
  /\ MinSize \in [Kinds -> Size] /\ DefaultSize \in [Kinds -> Size]
  /\ LinkChannels \in [Kinds -> SUBSET Channels]
  /\ SelectionChannel \in Channels
ASSUME SeedAssumption ==
  /\ SeedKind \in Kinds /\ SeedRect \in Rect /\ AtLeast(SeedRect, MinSize[SeedKind])
ASSUME PanelBoundsAssumption ==
  /\ MaxBatch \in Nat /\ MaxMinted \in [Kinds -> Nat]

VARIABLES
  panels,     \* the panels, by id
  links,      \* the link groups
  selections, \* the panels with a stored selection
  minted      \* per tab: the panel id counters

gridVars == <<panels, links, selections, minted>>

\* panel_<kind>_<n>
PanelId == [kind: Kinds, n: Nat \ {0}]
Panel == [rect: Rect, hidden: BOOLEAN]
LinkGroup == [channel: Channels, members: SUBSET PanelId]

GridTypeOK ==
  /\ DOMAIN panels \subseteq PanelId /\ panels \in [DOMAIN panels -> Panel]
  /\ links \subseteq LinkGroup
  /\ selections \subseteq PanelId
  /\ minted \in [Tabs -> [Kinds -> Nat]]

Without(f, S) == [x \in DOMAIN f \ S |-> f[x]]

-----------------------------------------------------------------------------
(* Geometry (domain/layout.ts) *)

Overlap(a, b) ==
  /\ a.col < b.col + b.colSpan /\ b.col < a.col + a.colSpan
  /\ a.row < b.row + b.rowSpan /\ b.row < a.row + a.rowSpan

Cells(r) == (r.col..(r.col + r.colSpan - 1)) \X (r.row..(r.row + r.rowSpan - 1))

\* Variant: panels that merely start in the same column are compared.
FreeOf_SameColumn(r, ids) ==
  \A p \in ids : panels[p].rect.col = r.col => ~Overlap(r, panels[p].rect)

FreeOf(r, ids) == \A p \in ids : ~Overlap(r, panels[p].rect)

\* Hidden panels occupy no cells.
Visible == {p \in DOMAIN panels : ~panels[p].hidden}

\* validatePlacement against the panels `ids`.
ValidPlacement(r, kind, ids) == r \in Rect /\ AtLeast(r, MinSize[kind]) /\ FreeOf(r, ids)

\* findFreeRect: the first free rect of that size, row by row.
AutoRects(size) ==
  LET free == {r \in Rect : /\ r.colSpan = size.colSpan /\ r.rowSpan = size.rowSpan
                            /\ FreeOf(r, Visible)}
  IN  {r \in free : \A q \in free : r.row < q.row \/ (r.row = q.row /\ r.col <= q.col)}

\* splitRect halves one span; the original gets the larger half.
Half(span) == (span + 1) \div 2

Halves(r, direction) ==
  IF direction = "vertical"
    THEN LET h == Half(r.colSpan)
         IN  <<RectAt(r.col, r.row, h, r.rowSpan),
               RectAt(r.col + h, r.row, r.colSpan - h, r.rowSpan)>>
    ELSE LET h == Half(r.rowSpan)
         IN  <<RectAt(r.col, r.row, r.colSpan, h),
               RectAt(r.col, r.row + h, r.colSpan, r.rowSpan - h)>>

-----------------------------------------------------------------------------
(* Panels *)

\* The id the sequencer of the tab mints next, and the counters after it.
MintedId(t, kind) == [kind |-> kind, n |-> minted[t][kind] + 1]
Mint(t, kind) ==
  /\ minted[t][kind] < MaxMinted[kind]
  /\ minted' = [minted EXCEPT ![t][kind] = @ + 1]

\* The panels once `panel` has been appended under `id`: it is only read
\* back when no panel had that id.
Appended(f, id, panel) ==
  [p \in DOMAIN f \union {id} |-> IF p \in DOMAIN f THEN f[p] ELSE panel]

Shown(r) == [rect |-> r, hidden |-> FALSE]

\* createPanel, at a given rect or wherever there is room. A minted id that
\* is taken is refused after it was counted.
CreatePanel(t, kind, r) ==
  /\ ValidPlacement(r, kind, Visible)
  /\ Mint(t, kind)
  /\ panels' = IF MintedId(t, kind) \in DOMAIN panels THEN panels
               ELSE Appended(panels, MintedId(t, kind), Shown(r))
  /\ UNCHANGED <<links, selections>>

\* duplicatePanel: a free rect of the original's size.
DuplicatePanel(t, p) ==
  \E r \in AutoRects(panels[p].rect) :
    /\ ValidPlacement(r, p.kind, Visible)
    /\ Mint(t, p.kind)
    /\ panels' = Appended(panels, MintedId(t, p.kind), Shown(r))
    /\ UNCHANGED <<links, selections>>

\* Variant: only the half the original keeps is checked.
SplitPanel_HalfChecked(t, p, direction) ==
  LET h == Halves(panels[p].rect, direction)
  IN  /\ AtLeast(h[1], MinSize[p.kind])
      /\ Mint(t, p.kind)
      /\ panels' = Appended([panels EXCEPT ![p].rect = h[1]], MintedId(t, p.kind), Shown(h[2]))
      /\ UNCHANGED <<links, selections>>

\* splitPanel: no other panel is looked at, and the new half is always shown.
SplitPanel(t, p, direction) ==
  LET h == Halves(panels[p].rect, direction)
  IN  /\ AtLeast(h[1], MinSize[p.kind]) /\ AtLeast(h[2], MinSize[p.kind])
      /\ Mint(t, p.kind)
      /\ panels' = Appended([panels EXCEPT ![p].rect = h[1]], MintedId(t, p.kind), Shown(h[2]))
      /\ UNCHANGED <<links, selections>>

\* removePanelFromGraph: groups left with fewer than two members dissolve.
Unlinked(groups, S) ==
  {g \in {[h EXCEPT !.members = @ \ S] : h \in groups} : Cardinality(g.members) >= 2}

\* Variant: the selection of a removed panel is kept.
RemovePanel_KeepsSelection(p) ==
  /\ panels' = Without(panels, {p})
  /\ links' = Unlinked(links, {p})
  /\ UNCHANGED <<selections, minted>>

RemovePanel(p) ==
  /\ panels' = Without(panels, {p})
  /\ links' = Unlinked(links, {p})
  /\ selections' = selections \ {p}
  /\ UNCHANGED minted

\* configurePanelView shows a panel wherever it was, without a placement check.
ConfigurePanelView(p, hidden) ==
  /\ panels' = [panels EXCEPT ![p].hidden = hidden]
  /\ UNCHANGED <<links, selections, minted>>

-----------------------------------------------------------------------------
(* Layouts: a batch is a sequence of [panel, rect] *)

Moving(batch) == {batch[i].panel : i \in DOMAIN batch}

\* A panel named twice ends where it was placed last.
LastPlacements(batch) ==
  {last \in [Moving(batch) -> DOMAIN batch] :
     \A p \in Moving(batch) :
       batch[last[p]].panel = p /\ \A i \in DOMAIN batch : batch[i].panel = p => i <= last[p]}

\* applyLayout: each placement against the visible panels that stay, and the
\* placements against each other. Then the panels move, hidden ones as well.
ApplyLayoutBatch(batch) ==
  /\ Moving(batch) \subseteq DOMAIN panels
  /\ \A i \in DOMAIN batch :
       ValidPlacement(batch[i].rect, batch[i].panel.kind, Visible \ Moving(batch))
  /\ \A i, j \in DOMAIN batch : i # j => ~Overlap(batch[i].rect, batch[j].rect)
  /\ \E last \in LastPlacements(batch) :
       panels' = [p \in DOMAIN panels |->
         IF p \in Moving(batch) THEN [panels[p] EXCEPT !.rect = batch[last[p]].rect]
         ELSE panels[p]]
  /\ UNCHANGED <<links, selections, minted>>

SetPanelLayout(batch) == ApplyLayoutBatch(batch)

\* applyLayoutTemplate: one panel for each slot.
ApplyLayoutTemplate(slots, assigned) ==
  ApplyLayoutBatch([i \in DOMAIN slots |-> [panel |-> assigned[i], rect |-> slots[i]]])

\* matchesDefaultSeed compares kind and rect only.
MatchesDefaultSeed ==
  \E p \in DOMAIN panels :
    DOMAIN panels = {p} /\ p.kind = SeedKind /\ panels[p].rect = SeedRect

ResetLayout(t) ==
  \/ MatchesDefaultSeed /\ UNCHANGED gridVars
  \/ /\ ~MatchesDefaultSeed
     /\ Mint(t, SeedKind)
     /\ panels' = [p \in {MintedId(t, SeedKind)} |-> Shown(SeedRect)]
     /\ links' = {} /\ selections' = {}

-----------------------------------------------------------------------------
(* Links and selections (domain/links.ts, setPanelSelection.ts) *)

\* Variant: the groups that are merged stay beside the merged one.
LinkPanels_KeepsGroups(channel, S) ==
  LET touched == {g \in links : g.channel = channel /\ g.members \intersect S # {}}
      merged == [channel |-> channel, members |-> S \union UNION {g.members : g \in touched}]
  IN  /\ S \subseteq DOMAIN panels /\ Cardinality(S) >= 2
      /\ \A p \in S : channel \in LinkChannels[p.kind]
      /\ links' = links \union {merged}
      /\ UNCHANGED <<panels, selections, minted>>

\* linkPanels merges every group it touches on the channel.
LinkPanels(channel, S) ==
  LET touched == {g \in links : g.channel = channel /\ g.members \intersect S # {}}
      merged == [channel |-> channel, members |-> S \union UNION {g.members : g \in touched}]
  IN  /\ S \subseteq DOMAIN panels /\ Cardinality(S) >= 2
      /\ \A p \in S : channel \in LinkChannels[p.kind]
      /\ links' = (links \ touched) \union {merged}
      /\ UNCHANGED <<panels, selections, minted>>

\* unlinkPanels removes them one by one, and fails as a whole when one is no
\* longer linked: a group dissolves before its last member is removed.
UnlinkPanels(channel, S) ==
  LET group(p) == {g \in links : g.channel = channel /\ p \in g.members}
  IN  /\ S # {}
      /\ \A p \in S : \E g \in group(p) : g.members \ S # {}
      /\ links' = {g \in links : g.channel # channel}
                    \union Unlinked({g \in links : g.channel = channel}, S)
      /\ UNCHANGED <<panels, selections, minted>>

\* propagationTargets
Targets(p) ==
  (UNION {g.members : g \in {h \in links : h.channel = SelectionChannel /\ p \in h.members}}) \ {p}

\* The value reaches every linked panel.
SetPanelSelection(p) ==
  /\ selections' = selections \union {p} \union Targets(p)
  /\ UNCHANGED <<panels, links, minted>>

-----------------------------------------------------------------------------
\* Variant: the seed counts the panels instead of reading their ids.
Reload_CountsPanels(t) ==
  /\ minted' = [minted EXCEPT ![t] =
       [kind \in Kinds |-> Cardinality({p \in DOMAIN panels : p.kind = kind})]]
  /\ UNCHANGED <<panels, links, selections>>

\* A page load seeds the counters with the highest ids there are.
Reload(t) ==
  /\ \E highest \in [Kinds -> {0} \union {p.n : p \in DOMAIN panels}] :
       /\ \A p \in DOMAIN panels : p.n <= highest[p.kind]
       /\ \A kind \in Kinds :
            highest[kind] # 0 => [kind |-> kind, n |-> highest[kind]] \in DOMAIN panels
       /\ minted' = [minted EXCEPT ![t] = highest]
  /\ UNCHANGED <<panels, links, selections>>

\* A workspace just seeded, open in every tab.
GridInit ==
  /\ panels = [p \in {[kind |-> SeedKind, n |-> 1]} |-> Shown(SeedRect)]
  /\ links = {}
  /\ selections = {}
  /\ minted = [t \in Tabs |-> [kind \in Kinds |-> IF kind = SeedKind THEN 1 ELSE 0]]

Placements == [panel: DOMAIN panels, rect: Footprints]

GridNext ==
  \/ \E t \in Tabs :
       \/ \E kind \in Kinds, r \in Footprints : CreatePanel(t, kind, r)
       \/ \E kind \in Kinds : \E r \in AutoRects(DefaultSize[kind]) : CreatePanel(t, kind, r)
       \/ \E p \in DOMAIN panels : DuplicatePanel(t, p)
       \/ \E p \in DOMAIN panels, direction \in {"vertical", "horizontal"} :
            SplitPanel(t, p, direction)
       \/ ResetLayout(t) \/ Reload(t)
  \/ \E p \in DOMAIN panels :
       \/ RemovePanel(p)
       \/ \E hidden \in BOOLEAN : ConfigurePanelView(p, hidden)
       \/ SetPanelSelection(p)
  \/ \E n \in 1..MaxBatch : \E batch \in [1..n -> Placements] : SetPanelLayout(batch)
  \/ \E slots \in Templates : \E assigned \in [DOMAIN slots -> DOMAIN panels] :
       ApplyLayoutTemplate(slots, assigned)
  \/ \E channel \in Channels, S \in SUBSET DOMAIN panels :
       LinkPanels(channel, S) \/ UnlinkPanels(channel, S)

GridSpec == GridInit /\ [][GridNext]_gridVars

-----------------------------------------------------------------------------
(* Properties *)

\* Every panel, hidden or not, lies on the grid and is as large as its kind
\* needs, whatever was split, copied, moved or reset (layout.ts, which checks
\* neither half of a split against the grid).
PlacementsValid ==
  \A p \in DOMAIN panels : panels[p].rect \in Rect /\ AtLeast(panels[p].rect, MinSize[p.kind])

\* Cells that two visible panels share.
Crowded ==
  {c \in (0..(Columns - 1)) \X (0..(Rows - 1)) :
     \E p, q \in Visible : p # q /\ c \in Cells(panels[p].rect) /\ c \in Cells(panels[q].rect)}

\* Visible panels come to share a cell only where a hidden panel lay: by
\* showing it or by splitting it. No placement, move, template, copy or split
\* of visible panels puts one over another (visibleOccupied).
OverlapOnlyOverHidden ==
  [][Crowded' \ Crowded \subseteq
       UNION {Cells(panels[p].rect) : p \in DOMAIN panels \ Visible}]_gridVars

\* A link or a selection always belongs to panels that exist, and a group
\* always links at least two (removePanel's clean-up).
NothingDangles ==
  /\ selections \subseteq DOMAIN panels
  /\ \A g \in links : g.members \subseteq DOMAIN panels /\ Cardinality(g.members) >= 2

\* On one channel a panel is in one group at most, so a broadcast, which asks
\* the first group it finds, reaches everyone linked to it; and it supports
\* the channel (linkPanels, propagationTargets).
LinkGroupsApart ==
  \A g \in links :
    /\ \A p \in g.members : g.channel \in LinkChannels[p.kind]
    /\ \A h \in links : g.channel = h.channel /\ g # h => g.members \intersect h.members = {}

Covered == UNION {Cells(panels[p].rect) : p \in DOMAIN panels}

\* Splitting a panel divides its cells between two panels and loses none: a
\* step after which other cells are covered is not a split (splitRect, and the
\* id that splitPanel mints; "keeps this class of bug loud instead of
\* corrupting the workspace with two panels sharing one ID").
SplitKeepsCells ==
  [][Covered' # Covered =>
       ~\E t \in Tabs, p \in DOMAIN panels, direction \in {"vertical", "horizontal"} :
          SplitPanel(t, p, direction)]_gridVars

=============================================================================
