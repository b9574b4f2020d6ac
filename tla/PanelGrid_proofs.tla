-------------------------- MODULE PanelGrid_proofs --------------------------
(***************************************************************************)
(* Proofs about PanelGrid, for every grid, every set of kinds and channels *)
(* and any number of tabs.                                                 *)
(***************************************************************************)
EXTENDS PanelGrid, FiniteSetTheorems, TLAPS

-----------------------------------------------------------------------------
(* Panels that fit the grid *)

Fits(p, panel) == p \in PanelId /\ panel \in Panel /\ AtLeast(panel.rect, MinSize[p.kind])

AllFit(f) ==
  /\ IsFiniteSet(DOMAIN f) /\ f = [p \in DOMAIN f |-> f[p]]
  /\ \A p \in DOMAIN f : Fits(p, f[p])

Counted == minted \in [Tabs -> [Kinds -> Nat]]

\* Appending one panel that fits leaves panels that fit, whether or not its id
\* was taken.
LEMMA AppendedFits ==
  ASSUME NEW f, AllFit(f), NEW id, NEW panel, Fits(id, panel)
  PROVE  AllFit(Appended(f, id, panel))
<1>1. IsFiniteSet(DOMAIN f \union {id})
  BY FS_AddElement DEF AllFit
<1> QED BY <1>1 DEF AllFit, Appended

\* Both halves of a split that passes the minimum lie on the grid.
LEMMA HalvesFit ==
  ASSUME NEW r \in Rect, NEW kind \in Kinds, NEW direction \in {"vertical", "horizontal"},
         AtLeast(Halves(r, direction)[1], MinSize[kind]),
         AtLeast(Halves(r, direction)[2], MinSize[kind])
  PROVE  Halves(r, direction)[1] \in Rect /\ Halves(r, direction)[2] \in Rect
<1> USE GridAssumption
<1>1. MinSize[kind].colSpan \in 1..Columns /\ MinSize[kind].rowSpan \in 1..Rows
  BY KindsAssumption DEF Size
<1>2. /\ r.col \in 0..(Columns - 1) /\ r.row \in 0..(Rows - 1)
      /\ r.colSpan \in 1..Columns /\ r.rowSpan \in 1..Rows
      /\ r.col + r.colSpan <= Columns /\ r.row + r.rowSpan <= Rows
      /\ r = [col |-> r.col, row |-> r.row, colSpan |-> r.colSpan, rowSpan |-> r.rowSpan]
  BY DEF Rect
<1>3. Half(r.colSpan) \in Int /\ Half(r.rowSpan) \in Int
  BY <1>2 DEF Half
<1>4. CASE direction = "vertical"
  <2> DEFINE h == Half(r.colSpan)
  <2>1. Halves(r, direction) = <<RectAt(r.col, r.row, h, r.rowSpan), RectAt(r.col + h, r.row, r.colSpan - h, r.rowSpan)>>
    BY <1>4 DEF Halves
  <2>2. h >= 1 /\ r.colSpan - h >= 1
    BY <1>1, <1>2, <1>3, <2>1 DEF AtLeast, RectAt
  <2> QED BY <1>2, <1>3, <2>1, <2>2 DEF Rect, RectAt
<1>5. CASE direction = "horizontal"
  <2> DEFINE h == Half(r.rowSpan)
  <2>1. Halves(r, direction) = <<RectAt(r.col, r.row, r.colSpan, h), RectAt(r.col, r.row + h, r.colSpan, r.rowSpan - h)>>
    BY <1>5 DEF Halves
  <2>2. h >= 1 /\ r.rowSpan - h >= 1
    BY <1>1, <1>2, <1>3, <2>1 DEF AtLeast, RectAt
  <2> QED BY <1>2, <1>3, <2>1, <2>2 DEF Rect, RectAt
<1> QED BY <1>4, <1>5

LEMMA MintKeepsCount ==
  ASSUME NEW t \in Tabs, NEW kind \in Kinds, Counted, Mint(t, kind)
  PROVE  Counted' /\ MintedId(t, kind) \in PanelId
BY DEF Counted, Mint, MintedId, PanelId

\* A batch leaves every panel it moves where it was valid.
LEMMA BatchFits ==
  ASSUME NEW batch, AllFit(panels), ApplyLayoutBatch(batch)
  PROVE  AllFit(panels')
<1>1. PICK last \in LastPlacements(batch) :
        panels' = [p \in DOMAIN panels |->
          IF p \in Moving(batch) THEN [panels[p] EXCEPT !.rect = batch[last[p]].rect]
          ELSE panels[p]]
  BY DEF ApplyLayoutBatch
<1>2. DOMAIN panels' = DOMAIN panels
  BY <1>1
<1>3. ASSUME NEW p \in DOMAIN panels PROVE Fits(p, panels'[p])
  <2>1. Fits(p, panels[p])
    BY DEF AllFit
  <2>2. CASE p \in Moving(batch)
    <3>1. last[p] \in DOMAIN batch /\ batch[last[p]].panel = p
      BY <2>2 DEF LastPlacements
    <3>2. batch[last[p]].rect \in Rect /\ AtLeast(batch[last[p]].rect, MinSize[p.kind])
      BY <3>1 DEF ApplyLayoutBatch, ValidPlacement
    <3>3. panels'[p] = [panels[p] EXCEPT !.rect = batch[last[p]].rect]
      BY <1>1, <2>2
    <3> QED BY <2>1, <3>2, <3>3 DEF Fits, Panel
  <2>3. CASE p \notin Moving(batch)
    BY <1>1, <2>1, <2>3
  <2> QED BY <2>2, <2>3
<1> QED BY <1>1, <1>2, <1>3 DEF AllFit

\* Every operation leaves panels that fit.
LEMMA StepFits ==
  ASSUME AllFit(panels), Counted, [GridNext]_gridVars
  PROVE  AllFit(panels') /\ Counted'
<1>1. ASSUME NEW t \in Tabs, NEW kind \in Kinds, NEW r, CreatePanel(t, kind, r)
      PROVE  AllFit(panels') /\ Counted'
  <2>1. Counted' /\ MintedId(t, kind) \in PanelId
    BY <1>1, MintKeepsCount DEF CreatePanel
  <2>2. Fits(MintedId(t, kind), Shown(r))
    BY <1>1, <2>1 DEF CreatePanel, ValidPlacement, Fits, Shown, Panel, MintedId
  <2> QED BY <1>1, <2>1, <2>2, AppendedFits DEF CreatePanel
<1>2. ASSUME NEW t \in Tabs, NEW p \in DOMAIN panels, DuplicatePanel(t, p)
      PROVE  AllFit(panels') /\ Counted'
  <2>1. p.kind \in Kinds
    BY DEF AllFit, Fits, PanelId
  <2>2. PICK r \in AutoRects(panels[p].rect) :
          /\ ValidPlacement(r, p.kind, Visible) /\ Mint(t, p.kind)
          /\ panels' = Appended(panels, MintedId(t, p.kind), Shown(r))
    BY <1>2 DEF DuplicatePanel
  <2>3. Counted' /\ MintedId(t, p.kind) \in PanelId
    BY <2>1, <2>2, MintKeepsCount
  <2>4. Fits(MintedId(t, p.kind), Shown(r))
    BY <2>2, <2>3 DEF ValidPlacement, Fits, Shown, Panel, MintedId
  <2> QED BY <2>2, <2>3, <2>4, AppendedFits
<1>3. ASSUME NEW t \in Tabs, NEW p \in DOMAIN panels,
             NEW direction \in {"vertical", "horizontal"}, SplitPanel(t, p, direction)
      PROVE  AllFit(panels') /\ Counted'
  <2> DEFINE a == Halves(panels[p].rect, direction)[1]
             b == Halves(panels[p].rect, direction)[2]
             f == [panels EXCEPT ![p].rect = a]
  <2>1. p \in PanelId /\ p.kind \in Kinds /\ panels[p] \in Panel /\ panels[p].rect \in Rect
    BY DEF AllFit, Fits, PanelId, Panel
  <2>2. AtLeast(a, MinSize[p.kind]) /\ AtLeast(b, MinSize[p.kind]) /\ Mint(t, p.kind)
    BY <1>3 DEF SplitPanel
  <2>3. panels' = Appended(f, MintedId(t, p.kind), Shown(b))
    BY <1>3 DEF SplitPanel
  <2>4. a \in Rect /\ b \in Rect
    BY <2>1, <2>2, HalvesFit
  <2> HIDE DEF a, b
  <2>5. Counted' /\ MintedId(t, p.kind) \in PanelId
    BY <2>1, <2>2, MintKeepsCount
  <2>6. AllFit(f)
    <3>1. Fits(p, f[p])
      BY <2>1, <2>2, <2>4 DEF Fits, Panel
    <3> QED BY <3>1 DEF AllFit
  <2>7. Fits(MintedId(t, p.kind), Shown(b))
    BY <2>2, <2>4, <2>5 DEF Fits, Shown, Panel, MintedId
  <2> HIDE DEF f
  <2> QED BY <2>3, <2>5, <2>6, <2>7, AppendedFits
<1>4. ASSUME NEW t \in Tabs, ResetLayout(t) PROVE AllFit(panels') /\ Counted'
  <2>1. CASE UNCHANGED gridVars
    BY <2>1 DEF gridVars, Counted
  <2>2. CASE /\ Mint(t, SeedKind)
             /\ panels' = [p \in {MintedId(t, SeedKind)} |-> Shown(SeedRect)]
    <3>1. Counted' /\ MintedId(t, SeedKind) \in PanelId
      BY <2>2, SeedAssumption, MintKeepsCount
    <3>2. Fits(MintedId(t, SeedKind), Shown(SeedRect))
      BY <3>1, SeedAssumption DEF Fits, Shown, Panel, MintedId
    <3> QED BY <2>2, <3>1, <3>2, FS_Singleton DEF AllFit
  <2> QED BY <1>4, <2>1, <2>2 DEF ResetLayout
<1>5. ASSUME NEW t \in Tabs, Reload(t) PROVE AllFit(panels') /\ Counted'
  <2>1. {p.n : p \in DOMAIN panels} \subseteq Nat
    BY DEF AllFit, Fits, PanelId
  <2> QED BY <1>5, <2>1 DEF Reload, Counted
<1>6. ASSUME NEW p \in DOMAIN panels, RemovePanel(p) PROVE AllFit(panels') /\ Counted'
  <2>1. IsFiniteSet(DOMAIN panels \ {p})
    BY FS_RemoveElement DEF AllFit
  <2> QED BY <1>6, <2>1 DEF RemovePanel, Without, AllFit, Counted
<1>7. ASSUME NEW p \in DOMAIN panels, NEW hidden \in BOOLEAN, ConfigurePanelView(p, hidden)
      PROVE  AllFit(panels') /\ Counted'
  <2>1. Fits(p, panels[p]) /\ Fits(p, [panels[p] EXCEPT !.hidden = hidden])
    BY DEF AllFit, Fits, Panel
  <2> QED BY <1>7, <2>1 DEF ConfigurePanelView, AllFit, Counted
<1>8. ASSUME NEW batch, ApplyLayoutBatch(batch) PROVE AllFit(panels') /\ Counted'
  BY <1>8, BatchFits DEF ApplyLayoutBatch, Counted
<1>9. ASSUME UNCHANGED <<panels, minted>> PROVE AllFit(panels') /\ Counted'
  BY <1>9 DEF Counted
<1> QED
  BY <1>1, <1>2, <1>3, <1>4, <1>5, <1>6, <1>7, <1>8, <1>9
  DEF GridNext, gridVars, SetPanelLayout, ApplyLayoutTemplate, SetPanelSelection,
      LinkPanels, UnlinkPanels

-----------------------------------------------------------------------------
(* Links and selections *)

LinksTyped == links \subseteq LinkGroup

LinksInv == LinksTyped /\ NothingDangles /\ LinkGroupsApart

\* Taking panels out of some groups that are apart leaves groups apart.
LEMMA UnlinkedApart ==
  ASSUME NEW groups \in SUBSET links, NEW S, LinksTyped, LinkGroupsApart
  PROVE  \A g \in Unlinked(groups, S) :
           /\ g \in LinkGroup /\ Cardinality(g.members) >= 2
           /\ \E h \in groups : g.channel = h.channel /\ g.members = h.members \ S
           /\ \A k \in Unlinked(groups, S) :
                g.channel = k.channel /\ g # k => g.members \intersect k.members = {}
<1>1. ASSUME NEW g \in Unlinked(groups, S)
      PROVE  \E h \in groups : g.channel = h.channel /\ g.members = h.members \ S
                 /\ g = [channel |-> h.channel, members |-> h.members \ S]
  BY DEF Unlinked, LinksTyped, LinkGroup
<1>2. \A g \in Unlinked(groups, S) : g \in LinkGroup /\ Cardinality(g.members) >= 2
  <2>1. \A g \in Unlinked(groups, S) : g \in LinkGroup
    BY <1>1 DEF LinksTyped, LinkGroup
  <2> QED BY <2>1 DEF Unlinked
<1>3. ASSUME NEW g \in Unlinked(groups, S), NEW k \in Unlinked(groups, S),
             g.channel = k.channel, g # k
      PROVE  g.members \intersect k.members = {}
  <2>1. PICK h \in groups : g = [channel |-> h.channel, members |-> h.members \ S]
    BY <1>1
  <2>2. PICK j \in groups : k = [channel |-> j.channel, members |-> j.members \ S]
    BY <1>1
  <2>3. h # j /\ h.channel = j.channel
    BY <1>3, <2>1, <2>2
  <2>4. h.members \intersect j.members = {}
    BY <2>3 DEF LinkGroupsApart
  <2> QED BY <2>1, <2>2, <2>4
<1> QED BY <1>1, <1>2, <1>3

\* Steps that remove no panel and leave the links alone.
LEMMA GrowKeepsLinks ==
  ASSUME LinksInv, DOMAIN panels \subseteq DOMAIN panels', UNCHANGED <<links, selections>>
  PROVE  LinksInv'
BY DEF LinksInv, LinksTyped, NothingDangles, LinkGroupsApart

\* Merging every group that is touched keeps the groups apart.
LEMMA LinkKeepsLinks ==
  ASSUME AllFit(panels), LinksInv, NEW channel \in Channels, NEW S, LinkPanels(channel, S)
  PROVE  LinksInv'
<1> DEFINE touched == {g \in links : g.channel = channel /\ g.members \intersect S # {}}
           members == S \union UNION {g.members : g \in touched}
           merged == [channel |-> channel, members |-> members]
<1>1. /\ S \subseteq DOMAIN panels /\ Cardinality(S) >= 2
      /\ \A p \in S : channel \in LinkChannels[p.kind]
      /\ links' = (links \ touched) \union {merged}
      /\ UNCHANGED <<panels, selections>>
  BY DEF LinkPanels
<1>2. members \subseteq DOMAIN panels
  BY <1>1 DEF LinksInv, NothingDangles
<1>3. Cardinality(members) >= 2
  <2>1. IsFiniteSet(members)
    BY <1>2, FS_Subset DEF AllFit
  <2>2. Cardinality(S) <= Cardinality(members) /\ IsFiniteSet(S)
    BY <2>1, FS_Subset
  <2> QED BY <1>1, <2>1, <2>2, FS_CardinalityType
<1>4. DOMAIN panels \subseteq PanelId
  BY DEF AllFit, Fits
<1>5. LinksTyped'
  BY <1>1, <1>2, <1>4 DEF LinksInv, LinksTyped, LinkGroup
<1>6. NothingDangles'
  <2>1. \A g \in links \ touched :
          g.members \subseteq DOMAIN panels /\ Cardinality(g.members) >= 2
    BY DEF LinksInv, NothingDangles
  <2>2. merged.members = members /\ selections \subseteq DOMAIN panels
    BY DEF LinksInv, NothingDangles
  <2> HIDE DEF touched, members, merged
  <2> QED BY <1>1, <1>2, <1>3, <2>1, <2>2 DEF NothingDangles
<1>7. \A p \in members : channel \in LinkChannels[p.kind]
  BY <1>1 DEF LinksInv, LinkGroupsApart
<1>8. \A h \in links \ touched : h.channel = channel => h.members \intersect members = {}
  BY DEF LinksInv, LinkGroupsApart
<1> HIDE DEF touched, members
<1>9. LinkGroupsApart'
  BY <1>1, <1>7, <1>8 DEF LinksInv, LinkGroupsApart
<1> QED BY <1>5, <1>6, <1>9 DEF LinksInv

LEMMA RemoveKeepsLinks ==
  ASSUME LinksInv, NEW p \in DOMAIN panels, RemovePanel(p)
  PROVE  LinksInv'
<1>1. /\ DOMAIN panels' = DOMAIN panels \ {p} /\ selections' = selections \ {p}
      /\ links' = Unlinked(links, {p})
  BY DEF RemovePanel, Without
<1>2. \A g \in links' :
        /\ g \in LinkGroup /\ Cardinality(g.members) >= 2
        /\ \E h \in links : g.channel = h.channel /\ g.members = h.members \ {p}
        /\ \A k \in links' : g.channel = k.channel /\ g # k => g.members \intersect k.members = {}
  <2> DEFINE S == {p}
  <2>1. links \in SUBSET links /\ LinksTyped /\ LinkGroupsApart
    BY DEF LinksInv
  <2> HIDE DEF S
  <2>2. \A g \in Unlinked(links, S) :
          /\ g \in LinkGroup /\ Cardinality(g.members) >= 2
          /\ \E h \in links : g.channel = h.channel /\ g.members = h.members \ S
          /\ \A k \in Unlinked(links, S) :
               g.channel = k.channel /\ g # k => g.members \intersect k.members = {}
    BY <2>1, UnlinkedApart, Zenon
  <2> USE DEF S
  <2> QED BY <1>1, <2>2
<1>3. LinksTyped'
  BY <1>2 DEF LinksTyped
<1>4. NothingDangles'
  BY <1>1, <1>2 DEF LinksInv, NothingDangles
<1>5. LinkGroupsApart'
  BY <1>2 DEF LinksInv, LinkGroupsApart
<1> QED BY <1>3, <1>4, <1>5 DEF LinksInv

LEMMA UnlinkKeepsLinks ==
  ASSUME LinksInv, NEW channel \in Channels, NEW S, UnlinkPanels(channel, S)
  PROVE  LinksInv'
<1> DEFINE others == {g \in links : g.channel # channel}
           same == {g \in links : g.channel = channel}
<1>1. links' = others \union Unlinked(same, S) /\ UNCHANGED <<panels, selections>>
  BY DEF UnlinkPanels
<1>2. \A g \in Unlinked(same, S) :
        /\ g \in LinkGroup /\ Cardinality(g.members) >= 2
        /\ \E h \in links : g.channel = h.channel /\ h.channel = channel
                              /\ g.members = h.members \ S
        /\ \A k \in Unlinked(same, S) :
             g.channel = k.channel /\ g # k => g.members \intersect k.members = {}
  <2>1. same \in SUBSET links /\ LinksTyped /\ LinkGroupsApart
    BY DEF LinksInv
  <2> HIDE DEF same
  <2>2. \A g \in Unlinked(same, S) :
          /\ g \in LinkGroup /\ Cardinality(g.members) >= 2
          /\ \E h \in same : g.channel = h.channel /\ g.members = h.members \ S
          /\ \A k \in Unlinked(same, S) :
               g.channel = k.channel /\ g # k => g.members \intersect k.members = {}
    BY <2>1, UnlinkedApart, Zenon
  <2>3. \A h \in same : h \in links /\ h.channel = channel
    BY DEF same
  <2> QED BY <2>2, <2>3
<1>3. LinksTyped'
  BY <1>1, <1>2 DEF LinksInv, LinksTyped
<1>4. NothingDangles'
  BY <1>1, <1>2 DEF LinksInv, NothingDangles
<1>5. LinkGroupsApart'
  BY <1>1, <1>2 DEF LinksInv, LinkGroupsApart
<1> QED BY <1>3, <1>4, <1>5 DEF LinksInv

LEMMA SelectKeepsLinks ==
  ASSUME LinksInv, NEW p \in DOMAIN panels, SetPanelSelection(p)
  PROVE  LinksInv'
BY DEF LinksInv, LinksTyped, NothingDangles, LinkGroupsApart, SetPanelSelection, Targets

\* The same for every operation.
LEMMA StepLinks ==
  ASSUME AllFit(panels), LinksInv, [GridNext]_gridVars
  PROVE  LinksInv'
<1>1. ASSUME NEW t, NEW kind, NEW r, CreatePanel(t, kind, r) PROVE LinksInv'
  <2>1. DOMAIN panels \subseteq DOMAIN panels' /\ UNCHANGED <<links, selections>>
    BY <1>1 DEF CreatePanel, Appended
  <2> QED BY <2>1, GrowKeepsLinks
<1>2. ASSUME NEW t, NEW p \in DOMAIN panels, DuplicatePanel(t, p) PROVE LinksInv'
  <2>1. DOMAIN panels \subseteq DOMAIN panels' /\ UNCHANGED <<links, selections>>
    BY <1>2 DEF DuplicatePanel, Appended
  <2> QED BY <2>1, GrowKeepsLinks
<1>3. ASSUME NEW t, NEW p \in DOMAIN panels, NEW direction, SplitPanel(t, p, direction)
      PROVE  LinksInv'
  <2>1. DOMAIN panels \subseteq DOMAIN panels' /\ UNCHANGED <<links, selections>>
    BY <1>3 DEF SplitPanel, Appended
  <2> QED BY <2>1, GrowKeepsLinks
<1>4. ASSUME NEW t, ResetLayout(t) PROVE LinksInv'
  <2>1. CASE UNCHANGED gridVars
    BY <2>1, GrowKeepsLinks DEF gridVars
  <2>2. CASE links' = {} /\ selections' = {}
    BY <2>2 DEF LinksInv, LinksTyped, NothingDangles, LinkGroupsApart
  <2> QED BY <1>4, <2>1, <2>2 DEF ResetLayout
<1>5. ASSUME NEW p \in DOMAIN panels, NEW hidden, ConfigurePanelView(p, hidden) PROVE LinksInv'
  BY <1>5, GrowKeepsLinks DEF ConfigurePanelView
<1>6. ASSUME NEW batch, ApplyLayoutBatch(batch) PROVE LinksInv'
  <2>1. DOMAIN panels' = DOMAIN panels /\ UNCHANGED <<links, selections>>
    BY <1>6 DEF ApplyLayoutBatch
  <2> QED BY <2>1, GrowKeepsLinks
<1>7. ASSUME UNCHANGED <<panels, links, selections>> PROVE LinksInv'
  BY <1>7, GrowKeepsLinks
<1> QED
  BY <1>1, <1>2, <1>3, <1>4, <1>5, <1>6, <1>7, LinkKeepsLinks, RemoveKeepsLinks,
     UnlinkKeepsLinks, SelectKeepsLinks
  DEF GridNext, gridVars, SetPanelLayout, ApplyLayoutTemplate, Reload

-----------------------------------------------------------------------------
(* The invariants *)

GridInv == AllFit(panels) /\ Counted /\ LinksInv

LEMMA GridInvInductive == GridSpec => []GridInv
<1>1. GridInit => GridInv
  <2> SUFFICES ASSUME GridInit PROVE GridInv
    OBVIOUS
  <2>1. AllFit(panels)
    <3> DEFINE p == [kind |-> SeedKind, n |-> 1]
    <3>1. DOMAIN panels = {p} /\ panels = [q \in {p} |-> panels[q]]
      BY DEF GridInit
    <3>2. panels[p] = Shown(SeedRect)
      BY DEF GridInit
    <3>3. Fits(p, Shown(SeedRect))
      BY SeedAssumption DEF Fits, PanelId, Panel, Shown
    <3> QED BY <3>1, <3>2, <3>3, FS_Singleton DEF AllFit
  <2>2. Counted
    BY DEF GridInit, Counted
  <2>3. LinksInv
    BY DEF GridInit, LinksInv, LinksTyped, NothingDangles, LinkGroupsApart
  <2> QED BY <2>1, <2>2, <2>3 DEF GridInv
<1>2. GridInv /\ [GridNext]_gridVars => GridInv'
  <2> SUFFICES ASSUME GridInv, [GridNext]_gridVars PROVE GridInv'
    OBVIOUS
  <2>1. AllFit(panels)' /\ Counted'
    BY StepFits DEF GridInv, AllFit, Fits
  <2>2. LinksInv'
    BY StepLinks DEF GridInv
  <2> QED BY <2>1, <2>2 DEF GridInv
<1> QED BY <1>1, <1>2, PTL DEF GridSpec

\* Every operation keeps the panel system in its type: the footprints stay on
\* the grid whatever its size (commitPanelChange).
THEOREM GridTypeCorrect == GridSpec => []GridTypeOK
<1>1. GridInv => GridTypeOK
  BY DEF GridInv, GridTypeOK, AllFit, Fits, Counted, LinksInv, LinksTyped, NothingDangles
<1> QED BY <1>1, GridInvInductive, PTL

\* No operation, and no split in particular, leaves a panel off the grid or
\* below the minimum of its kind (validatePlacement, splitRect).
THEOREM PanelsStayValid == GridSpec => []PlacementsValid
<1>1. GridInv => PlacementsValid
  BY DEF GridInv, PlacementsValid, AllFit, Fits, Panel
<1> QED BY <1>1, GridInvInductive, PTL

\* Links and selections never outlive their panels (removePanel).
THEOREM NothingLeftBehind == GridSpec => []NothingDangles
<1>1. GridInv => NothingDangles
  BY DEF GridInv, LinksInv
<1> QED BY <1>1, GridInvInductive, PTL

\* A panel never comes to be in two groups of one channel (linkPanels).
THEOREM GroupsStayApart == GridSpec => []LinkGroupsApart
<1>1. GridInv => LinkGroupsApart
  BY DEF GridInv, LinksInv
<1> QED BY <1>1, GridInvInductive, PTL

-----------------------------------------------------------------------------
(* Visible panels and the cells they share *)

\* Cell c is shared by the visible panels p and q.
Clash(c, p, q) ==
  /\ p \in Visible /\ q \in Visible /\ p # q
  /\ c \in Cells(panels[p].rect) /\ c \in Cells(panels[q].rect)

OverHidden(c) == \E p \in DOMAIN panels \ Visible : c \in Cells(panels[p].rect)

Explained(c) == (\E p, q \in DOMAIN panels : Clash(c, p, q)) \/ OverHidden(c)

\* Rects that do not overlap share no cell.
LEMMA ApartShareNothing ==
  ASSUME NEW r \in Rect, NEW s \in Rect, ~Overlap(r, s), NEW c
  PROVE  ~(c \in Cells(r) /\ c \in Cells(s))
<1> USE GridAssumption
<1>1. /\ r.col \in Int /\ r.row \in Int /\ r.colSpan \in Int /\ r.rowSpan \in Int
      /\ s.col \in Int /\ s.row \in Int /\ s.colSpan \in Int /\ s.rowSpan \in Int
  BY DEF Rect
<1> SUFFICES ASSUME c \in Cells(r), c \in Cells(s) PROVE FALSE
  OBVIOUS
<1>2. PICK x \in r.col..(r.col + r.colSpan - 1), y \in r.row..(r.row + r.rowSpan - 1) :
        c = <<x, y>>
  BY DEF Cells
<1>3. x \in s.col..(s.col + s.colSpan - 1) /\ y \in s.row..(s.row + s.rowSpan - 1)
  BY <1>2 DEF Cells
<1> QED BY <1>1, <1>2, <1>3 DEF Overlap

\* The halves of a rect lie in it and share nothing.
LEMMA HalvesDivide ==
  ASSUME NEW r \in Rect, NEW direction \in {"vertical", "horizontal"},
         Halves(r, direction)[1] \in Rect, Halves(r, direction)[2] \in Rect, NEW c
  PROVE  /\ c \in Cells(Halves(r, direction)[1]) => c \in Cells(r)
         /\ c \in Cells(Halves(r, direction)[2]) => c \in Cells(r)
         /\ ~(c \in Cells(Halves(r, direction)[1]) /\ c \in Cells(Halves(r, direction)[2]))
<1> USE GridAssumption
<1>1. r.col \in Int /\ r.row \in Int /\ r.colSpan \in Int /\ r.rowSpan \in Int
  BY DEF Rect
<1>2. CASE direction = "vertical"
  <2> DEFINE h == Half(r.colSpan)
             a == RectAt(r.col, r.row, h, r.rowSpan)
             b == RectAt(r.col + h, r.row, r.colSpan - h, r.rowSpan)
  <2>1. Halves(r, direction)[1] = a /\ Halves(r, direction)[2] = b
    BY <1>2 DEF Halves
  <2>2. h \in Int /\ h >= 1 /\ r.colSpan - h >= 1
    <3>1. h \in Int
      BY <1>1 DEF Half
    <3> QED BY <1>1, <2>1, <3>1 DEF Rect, RectAt
  <2> HIDE DEF h
  <2>3. c \in Cells(a) => c \in Cells(r)
    BY <1>1, <2>2 DEF Cells, RectAt
  <2>4. c \in Cells(b) => c \in Cells(r)
    BY <1>1, <2>2 DEF Cells, RectAt
  <2>5. ~Overlap(a, b)
    BY <1>1, <2>2 DEF Overlap, RectAt
  <2> QED BY <2>1, <2>3, <2>4, <2>5, ApartShareNothing
<1>3. CASE direction = "horizontal"
  <2> DEFINE h == Half(r.rowSpan)
             a == RectAt(r.col, r.row, r.colSpan, h)
             b == RectAt(r.col, r.row + h, r.colSpan, r.rowSpan - h)
  <2>1. Halves(r, direction)[1] = a /\ Halves(r, direction)[2] = b
    BY <1>3 DEF Halves
  <2>2. h \in Int /\ h >= 1 /\ r.rowSpan - h >= 1
    <3>1. h \in Int
      BY <1>1 DEF Half
    <3> QED BY <1>1, <2>1, <3>1 DEF Rect, RectAt
  <2> HIDE DEF h
  <2>3. c \in Cells(a) => c \in Cells(r)
    BY <1>1, <2>2 DEF Cells, RectAt
  <2>4. c \in Cells(b) => c \in Cells(r)
    BY <1>1, <2>2 DEF Cells, RectAt
  <2>5. ~Overlap(a, b)
    BY <1>1, <2>2 DEF Overlap, RectAt
  <2> QED BY <2>1, <2>3, <2>4, <2>5, ApartShareNothing
<1> QED BY <1>2, <1>3

\* A new panel on free cells shares none of them.
LEMMA AppendClash ==
  ASSUME AllFit(panels), NEW id, NEW r \in Rect, FreeOf(r, Visible),
         panels' = Appended(panels, id, Shown(r)), NEW c, NEW p, NEW q, Clash(c, p, q)'
  PROVE  Explained(c)
<1>1. \A x \in DOMAIN panels : panels'[x] = panels[x] /\ panels[x].rect \in Rect
  BY DEF Appended, AllFit, Fits, Panel
<1>2. DOMAIN panels' = DOMAIN panels \union {id}
  BY DEF Appended
<1>3. id \notin DOMAIN panels => panels'[id].rect = r
  BY DEF Appended, Shown
<1>4. \A x \in Visible' : x \in Visible \/ (x = id /\ id \notin DOMAIN panels)
  BY <1>1, <1>2 DEF Visible
<1>5. \A x \in Visible : panels[x].rect \in Rect /\ ~Overlap(r, panels[x].rect)
                           /\ panels'[x] = panels[x] /\ x \in DOMAIN panels
  BY <1>1 DEF FreeOf, Visible
<1>6. p \in Visible /\ q \in Visible
  <2>1. CASE p \notin Visible
    <3>1. panels'[p].rect = r /\ q \in Visible
      BY <2>1, <1>3, <1>4 DEF Clash
    <3> QED BY <3>1, <1>5, ApartShareNothing DEF Clash
  <2>2. CASE q \notin Visible
    <3>1. panels'[q].rect = r /\ p \in Visible
      BY <2>2, <1>3, <1>4 DEF Clash
    <3> QED BY <3>1, <1>5, ApartShareNothing DEF Clash
  <2> QED BY <2>1, <2>2
<1>7. Clash(c, p, q)
  BY <1>5, <1>6 DEF Clash
<1> QED BY <1>5, <1>6, <1>7 DEF Explained

\* The halves of a split share what the whole shared.
LEMMA SplitClash ==
  ASSUME AllFit(panels), NEW t, NEW o \in DOMAIN panels,
         NEW direction \in {"vertical", "horizontal"}, SplitPanel(t, o, direction),
         NEW c, NEW p, NEW q, Clash(c, p, q)'
  PROVE  Explained(c)
<1> DEFINE a == Halves(panels[o].rect, direction)[1]
           b == Halves(panels[o].rect, direction)[2]
           id == MintedId(t, o.kind)
<1>1. o.kind \in Kinds /\ panels[o].rect \in Rect /\ panels[o] \in Panel
  BY DEF AllFit, Fits, PanelId, Panel
<1>2. panels' = Appended([panels EXCEPT ![o].rect = a], id, Shown(b))
  BY DEF SplitPanel
<1>3. a \in Rect /\ b \in Rect
  BY <1>1, HalvesFit DEF SplitPanel
<1>4. /\ c \in Cells(a) => c \in Cells(panels[o].rect)
      /\ c \in Cells(b) => c \in Cells(panels[o].rect)
      /\ ~(c \in Cells(a) /\ c \in Cells(b))
  BY <1>1, <1>3, HalvesDivide
<1> HIDE DEF a, b, id
<1>5. /\ DOMAIN panels' = DOMAIN panels \union {id}
      /\ \A x \in DOMAIN panels \ {o} : panels'[x] = panels[x]
      /\ panels'[o].rect = a /\ panels'[o].hidden = panels[o].hidden
      /\ id \notin DOMAIN panels => panels'[id].rect = b
  BY <1>1, <1>2 DEF Appended, Shown, Panel
<1>6. ASSUME NEW x \in Visible', c \in Cells(panels'[x].rect)
      PROVE  \/ x \in Visible /\ c \in Cells(panels[x].rect) /\ (x = o => c \in Cells(a))
             \/ x = id /\ x \notin DOMAIN panels /\ c \in Cells(b)
  BY <1>4, <1>5, <1>6 DEF Visible
<1>7. CASE p \in Visible /\ q \in Visible
  <2>1. Clash(c, p, q)
    BY <1>6, <1>7 DEF Clash, Visible
  <2> QED BY <1>7, <2>1 DEF Explained, Visible
<1>8. CASE p \notin Visible \/ q \notin Visible
  <2>1. PICK x \in {p, q} : x \in Visible' /\ x # id /\ c \in Cells(panels'[x].rect)
    BY DEF Clash
  <2>2. x \in Visible /\ x \in DOMAIN panels /\ c \in Cells(panels[x].rect) /\ (x = o => c \in Cells(a))
    BY <1>6, <2>1 DEF Visible
  <2>3. c \in Cells(b)
    BY <1>6, <1>8 DEF Clash
  <2>4. x # o /\ c \in Cells(panels[o].rect)
    BY <1>4, <2>2, <2>3
  <2>5. CASE o \in Visible
    <3>1. Clash(c, o, x)
      BY <2>2, <2>4, <2>5 DEF Clash
    <3> QED BY <2>2, <3>1 DEF Explained
  <2>6. CASE o \notin Visible
    BY <2>4, <2>6 DEF Explained, OverHidden
  <2> QED BY <2>5, <2>6
<1> QED BY <1>7, <1>8

\* Of two panels that a batch leaves in the same cell, neither was moved.
LEMMA BatchClash ==
  ASSUME AllFit(panels), NEW batch, ApplyLayoutBatch(batch),
         NEW c, NEW p, NEW q, Clash(c, p, q)'
  PROVE  Explained(c)
<1>1. PICK last \in LastPlacements(batch) :
        panels' = [x \in DOMAIN panels |->
          IF x \in Moving(batch) THEN [panels[x] EXCEPT !.rect = batch[last[x]].rect]
          ELSE panels[x]]
  BY DEF ApplyLayoutBatch
<1>2. ASSUME NEW x \in Visible' PROVE x \in Visible /\ x \in DOMAIN panels /\ panels[x].rect \in Rect
  <2>1. x \in DOMAIN panels /\ panels[x] \in Panel
    BY <1>1 DEF Visible, AllFit, Fits
  <2> QED BY <1>1, <2>1 DEF Visible, Panel
<1>3. ASSUME NEW x \in Visible', x \in Moving(batch)
      PROVE  /\ last[x] \in DOMAIN batch /\ batch[last[x]].panel = x
             /\ panels'[x].rect = batch[last[x]].rect /\ panels'[x].rect \in Rect
             /\ FreeOf(panels'[x].rect, Visible \ Moving(batch))
  <2>1. last[x] \in DOMAIN batch /\ batch[last[x]].panel = x
    BY <1>3 DEF LastPlacements
  <2>2. panels[x] \in Panel /\ x \in DOMAIN panels
    BY <1>2 DEF AllFit, Fits
  <2>3. panels'[x].rect = batch[last[x]].rect
    BY <1>1, <1>3, <2>2 DEF Panel
  <2> QED BY <2>1, <2>3 DEF ApplyLayoutBatch, ValidPlacement
<1>4. ASSUME NEW x \in Visible', x \notin Moving(batch) PROVE panels'[x] = panels[x]
  BY <1>1, <1>2, <1>4
<1>5. p \in Visible' /\ q \in Visible' /\ p # q
      /\ c \in Cells(panels'[p].rect) /\ c \in Cells(panels'[q].rect)
  BY DEF Clash
<1>6. CASE p \in Moving(batch) /\ q \in Moving(batch)
  <2>1. ~Overlap(batch[last[p]].rect, batch[last[q]].rect)
    BY <1>3, <1>5, <1>6 DEF ApplyLayoutBatch
  <2> QED BY <1>3, <1>5, <1>6, <2>1, ApartShareNothing
<1>7. CASE p \in Moving(batch) /\ q \notin Moving(batch)
  <2>1. ~Overlap(panels'[p].rect, panels[q].rect)
    BY <1>2, <1>3, <1>5, <1>7 DEF FreeOf
  <2> QED BY <1>2, <1>3, <1>4, <1>5, <1>7, <2>1, ApartShareNothing
<1>8. CASE p \notin Moving(batch) /\ q \in Moving(batch)
  <2>1. ~Overlap(panels'[q].rect, panels[p].rect)
    BY <1>2, <1>3, <1>5, <1>8 DEF FreeOf
  <2> QED BY <1>2, <1>3, <1>4, <1>5, <1>8, <2>1, ApartShareNothing
<1>9. CASE p \notin Moving(batch) /\ q \notin Moving(batch)
  <2>1. Clash(c, p, q)
    BY <1>2, <1>4, <1>5, <1>9 DEF Clash
  <2> QED BY <1>2, <1>5, <2>1 DEF Explained
<1> QED BY <1>6, <1>7, <1>8, <1>9

\* Showing a panel makes it share only cells over which it lay hidden.
LEMMA ShowClash ==
  ASSUME AllFit(panels), NEW o \in DOMAIN panels, NEW hidden \in BOOLEAN,
         ConfigurePanelView(o, hidden), NEW c, NEW p, NEW q, Clash(c, p, q)'
  PROVE  Explained(c)
<1>1. /\ DOMAIN panels' = DOMAIN panels
      /\ \A x \in DOMAIN panels : panels'[x].rect = panels[x].rect
      /\ \A x \in DOMAIN panels \ {o} : panels'[x] = panels[x]
  BY DEF ConfigurePanelView, AllFit, Fits, Panel
<1>2. p \in DOMAIN panels /\ q \in DOMAIN panels /\ p # q
      /\ c \in Cells(panels[p].rect) /\ c \in Cells(panels[q].rect)
  BY <1>1 DEF Clash, Visible
<1>3. CASE p \in Visible /\ q \in Visible
  BY <1>2, <1>3 DEF Clash, Explained
<1>4. CASE p \notin Visible \/ q \notin Visible
  BY <1>2, <1>4 DEF Explained, OverHidden
<1> QED BY <1>3, <1>4

\* The same for every operation.
LEMMA StepClash ==
  ASSUME AllFit(panels), [GridNext]_gridVars, NEW c, NEW p, NEW q, Clash(c, p, q)'
  PROVE  Explained(c)
<1>1. ASSUME UNCHANGED panels PROVE Explained(c)
  BY <1>1 DEF Clash, Visible, Explained
<1>2. ASSUME NEW t, NEW kind, NEW r, CreatePanel(t, kind, r) PROVE Explained(c)
  <2>1. r \in Rect /\ FreeOf(r, Visible)
    BY <1>2 DEF CreatePanel, ValidPlacement
  <2>2. CASE UNCHANGED panels
    BY <1>1, <2>2
  <2>3. CASE panels' = Appended(panels, MintedId(t, kind), Shown(r))
    BY <2>1, <2>3, AppendClash
  <2> QED BY <1>2, <2>2, <2>3 DEF CreatePanel
<1>3. ASSUME NEW t, NEW o \in DOMAIN panels, DuplicatePanel(t, o) PROVE Explained(c)
  <2>1. PICK r : ValidPlacement(r, o.kind, Visible)
                   /\ panels' = Appended(panels, MintedId(t, o.kind), Shown(r))
    BY <1>3 DEF DuplicatePanel
  <2> QED BY <2>1, AppendClash DEF ValidPlacement
<1>4. ASSUME NEW t, ResetLayout(t) PROVE Explained(c)
  <2>1. CASE UNCHANGED gridVars
    BY <1>1, <2>1 DEF gridVars
  <2>2. CASE panels' = [x \in {MintedId(t, SeedKind)} |-> Shown(SeedRect)]
    BY <2>2 DEF Clash, Visible
  <2> QED BY <1>4, <2>1, <2>2 DEF ResetLayout
<1>5. ASSUME NEW o \in DOMAIN panels, RemovePanel(o) PROVE Explained(c)
  <2>1. DOMAIN panels' \subseteq DOMAIN panels /\ \A x \in DOMAIN panels' : panels'[x] = panels[x]
    BY <1>5 DEF RemovePanel, Without
  <2> QED BY <2>1 DEF Clash, Visible, Explained
<1> QED
  BY <1>1, <1>2, <1>3, <1>4, <1>5, SplitClash, BatchClash, ShowClash
  DEF GridNext, gridVars, SetPanelLayout, ApplyLayoutTemplate, SetPanelSelection,
      LinkPanels, UnlinkPanels, Reload

\* On a grid of any size no placement, move, template, copy or split puts one
\* visible panel over another: only showing or splitting a hidden panel does
\* (visibleOccupied).
THEOREM NoVisibleOverlap == GridSpec => OverlapOnlyOverHidden
<1>1. GridInv /\ [GridNext]_gridVars =>
        [Crowded' \ Crowded \subseteq
           UNION {Cells(panels[p].rect) : p \in DOMAIN panels \ Visible}]_gridVars
  <2> SUFFICES ASSUME GridInv, [GridNext]_gridVars, NEW c \in Crowded' \ Crowded
               PROVE  \E p \in DOMAIN panels \ Visible : c \in Cells(panels[p].rect)
    OBVIOUS
  <2>1. PICK p, q : Clash(c, p, q)'
    BY DEF Crowded, Clash
  <2>2. Explained(c)
    BY <2>1, StepClash DEF GridInv
  <2>3. c \in (0..(Columns - 1)) \X (0..(Rows - 1))
    BY DEF Crowded
  <2>4. ~\E a, b \in DOMAIN panels : Clash(c, a, b)
    BY <2>3 DEF Crowded, Clash
  <2> QED BY <2>2, <2>4 DEF Explained, OverHidden
<1> QED BY <1>1, GridInvInductive, PTL DEF GridSpec, OverlapOnlyOverHidden

-----------------------------------------------------------------------------
(* Splits, with one tab: the ids it mints are above those in the workspace *)

OneTab == \A s, t \in Tabs : s = t

Ahead == \A t \in Tabs, p \in DOMAIN panels : p.n <= minted[t][p.kind]

LEMMA MintsFreshId ==
  ASSUME Counted, Ahead, NEW t \in Tabs, NEW kind \in Kinds
  PROVE  MintedId(t, kind) \notin DOMAIN panels
<1>1. minted[t][kind] \in Nat
  BY DEF Counted
<1> SUFFICES ASSUME MintedId(t, kind) \in DOMAIN panels PROVE FALSE
  OBVIOUS
<1>2. MintedId(t, kind).n <= minted[t][MintedId(t, kind).kind]
  BY DEF Ahead
<1> QED BY <1>1, <1>2 DEF MintedId

\* Counting an id keeps the counters ahead of it.
LEMMA MintKeepsAhead ==
  ASSUME OneTab, AllFit(panels), Counted, Ahead, NEW t \in Tabs, NEW kind \in Kinds,
         Mint(t, kind), DOMAIN panels' \subseteq DOMAIN panels \union {MintedId(t, kind)}
  PROVE  Ahead'
<1> SUFFICES ASSUME NEW s \in Tabs, NEW p \in DOMAIN panels' PROVE p.n <= minted'[s][p.kind]
  BY DEF Ahead
<1>1. s = t
  BY DEF OneTab
<1>2. /\ minted[t] \in [Kinds -> Nat] /\ minted'[t][kind] = minted[t][kind] + 1
      /\ \A k \in Kinds : minted'[t][k] >= minted[t][k]
  BY DEF Mint, Counted
<1>3. CASE p \in DOMAIN panels
  <2>1. p.n \in Nat /\ p.kind \in Kinds /\ p.n <= minted[t][p.kind]
    BY <1>3 DEF AllFit, Fits, PanelId, Ahead
  <2>2. minted[t][p.kind] \in Nat /\ minted'[t][p.kind] >= minted[t][p.kind]
        /\ minted'[t][p.kind] \in Nat
    BY <1>2, <2>1 DEF Mint, Counted
  <2> QED BY <1>1, <2>1, <2>2
<1>4. CASE p = MintedId(t, kind)
  BY <1>1, <1>2, <1>4 DEF MintedId
<1> QED BY <1>3, <1>4

\* The counters of the only tab stay ahead of every panel id.
LEMMA StepAhead ==
  ASSUME OneTab, AllFit(panels), Counted, Ahead, [GridNext]_gridVars
  PROVE  Ahead'
<1>1. \A p \in DOMAIN panels : p.kind \in Kinds /\ p.n \in Nat
  BY DEF AllFit, Fits, PanelId
<1>2. ASSUME DOMAIN panels' \subseteq DOMAIN panels, UNCHANGED minted PROVE Ahead'
  BY <1>2 DEF Ahead
<1>3. ASSUME NEW t \in Tabs, NEW kind \in Kinds, NEW r, CreatePanel(t, kind, r) PROVE Ahead'
  <2>1. Mint(t, kind) /\ DOMAIN panels' \subseteq DOMAIN panels \union {MintedId(t, kind)}
    BY <1>3 DEF CreatePanel, Appended
  <2> QED BY <2>1, MintKeepsAhead
<1>4. ASSUME NEW t \in Tabs, NEW p \in DOMAIN panels, DuplicatePanel(t, p) PROVE Ahead'
  <2>1. Mint(t, p.kind) /\ DOMAIN panels' \subseteq DOMAIN panels \union {MintedId(t, p.kind)}
    BY <1>4 DEF DuplicatePanel, Appended
  <2> QED BY <1>1, <2>1, MintKeepsAhead
<1>5. ASSUME NEW t \in Tabs, NEW p \in DOMAIN panels, NEW direction, SplitPanel(t, p, direction)
      PROVE  Ahead'
  <2>1. Mint(t, p.kind) /\ DOMAIN panels' \subseteq DOMAIN panels \union {MintedId(t, p.kind)}
    BY <1>5 DEF SplitPanel, Appended
  <2> QED BY <1>1, <2>1, MintKeepsAhead
<1>6. ASSUME NEW t \in Tabs, ResetLayout(t) PROVE Ahead'
  <2>1. CASE UNCHANGED gridVars
    BY <1>2, <2>1 DEF gridVars
  <2>2. CASE Mint(t, SeedKind) /\ panels' = [p \in {MintedId(t, SeedKind)} |-> Shown(SeedRect)]
    <3>1. DOMAIN panels' = {MintedId(t, SeedKind)}
      BY <2>2
    <3> QED BY <2>2, <3>1, SeedAssumption, MintKeepsAhead
  <2> QED BY <1>6, <2>1, <2>2 DEF ResetLayout
<1>7. ASSUME NEW t \in Tabs, Reload(t) PROVE Ahead'
  <2>1. PICK highest \in [Kinds -> {0} \union {p.n : p \in DOMAIN panels}] :
          /\ \A p \in DOMAIN panels : p.n <= highest[p.kind]
          /\ minted' = [minted EXCEPT ![t] = highest]
    BY <1>7 DEF Reload
  <2>2. \A s \in Tabs : minted'[s] = highest
    BY <2>1 DEF OneTab, Counted
  <2> QED BY <1>7, <2>1, <2>2 DEF Reload, Ahead
<1>8. ASSUME NEW batch, ApplyLayoutBatch(batch) PROVE Ahead'
  <2>1. DOMAIN panels' = DOMAIN panels /\ UNCHANGED minted
    BY <1>8 DEF ApplyLayoutBatch
  <2> QED BY <1>2, <2>1
<1>9. ASSUME NEW p \in DOMAIN panels, NEW hidden, ConfigurePanelView(p, hidden) PROVE Ahead'
  BY <1>2, <1>9 DEF ConfigurePanelView
<1>10. ASSUME NEW p \in DOMAIN panels, RemovePanel(p) PROVE Ahead'
  BY <1>2, <1>10 DEF RemovePanel, Without
<1>11. ASSUME UNCHANGED <<panels, minted>> PROVE Ahead'
  BY <1>2, <1>11
<1> QED
  BY <1>3, <1>4, <1>5, <1>6, <1>7, <1>8, <1>9, <1>10, <1>11
  DEF GridNext, gridVars, SetPanelLayout, ApplyLayoutTemplate, SetPanelSelection,
      LinkPanels, UnlinkPanels

LEMMA AheadInductive == ASSUME OneTab PROVE GridSpec => []Ahead
<1>1. GridInit => Ahead
  <2> SUFFICES ASSUME GridInit, NEW t \in Tabs, NEW p \in DOMAIN panels
               PROVE  p.n <= minted[t][p.kind]
    BY DEF Ahead
  <2>1. p = [kind |-> SeedKind, n |-> 1] /\ SeedKind \in Kinds
    BY SeedAssumption DEF GridInit
  <2>2. minted[t] = [kind \in Kinds |-> IF kind = SeedKind THEN 1 ELSE 0]
    BY DEF GridInit
  <2> QED BY <2>1, <2>2
<1>2. GridInv /\ Ahead /\ [GridNext]_gridVars => Ahead'
  BY StepAhead DEF GridInv
<1> QED BY <1>1, <1>2, GridInvInductive, PTL DEF GridSpec

\* No cell of a rect falls between its halves.
LEMMA HalvesCover ==
  ASSUME NEW r \in Rect, NEW direction \in {"vertical", "horizontal"}, NEW c \in Cells(r)
  PROVE  c \in Cells(Halves(r, direction)[1]) \/ c \in Cells(Halves(r, direction)[2])
<1>1. r.col \in Int /\ r.row \in Int /\ r.colSpan \in Int /\ r.rowSpan \in Int
  BY GridAssumption DEF Rect
<1>2. PICK x \in r.col..(r.col + r.colSpan - 1), y \in r.row..(r.row + r.rowSpan - 1) :
        c = <<x, y>>
  BY DEF Cells
<1>3. CASE direction = "vertical"
  <2> DEFINE h == Half(r.colSpan)
             a == RectAt(r.col, r.row, h, r.rowSpan)
             b == RectAt(r.col + h, r.row, r.colSpan - h, r.rowSpan)
  <2>1. Halves(r, direction)[1] = a /\ Halves(r, direction)[2] = b
    BY <1>3 DEF Halves
  <2>2. h \in Int
    BY <1>1 DEF Half
  <2> HIDE DEF h
  <2>3. x < r.col + h => c \in Cells(a)
    BY <1>1, <1>2, <2>2 DEF Cells, RectAt
  <2>4. x >= r.col + h => c \in Cells(b)
    BY <1>1, <1>2, <2>2 DEF Cells, RectAt
  <2> QED BY <1>1, <1>2, <2>1, <2>2, <2>3, <2>4
<1>4. CASE direction = "horizontal"
  <2> DEFINE h == Half(r.rowSpan)
             a == RectAt(r.col, r.row, r.colSpan, h)
             b == RectAt(r.col, r.row + h, r.colSpan, r.rowSpan - h)
  <2>1. Halves(r, direction)[1] = a /\ Halves(r, direction)[2] = b
    BY <1>4 DEF Halves
  <2>2. h \in Int
    BY <1>1 DEF Half
  <2> HIDE DEF h
  <2>3. y < r.row + h => c \in Cells(a)
    BY <1>1, <1>2, <2>2 DEF Cells, RectAt
  <2>4. y >= r.row + h => c \in Cells(b)
    BY <1>1, <1>2, <2>2 DEF Cells, RectAt
  <2> QED BY <1>1, <1>2, <2>1, <2>2, <2>3, <2>4
<1> QED BY <1>3, <1>4

\* A split whose id is free covers what the whole panel covered.
LEMMA SplitCovers ==
  ASSUME AllFit(panels), NEW t, NEW o \in DOMAIN panels,
         NEW direction \in {"vertical", "horizontal"}, SplitPanel(t, o, direction),
         MintedId(t, o.kind) \notin DOMAIN panels
  PROVE  Covered' = Covered
<1> DEFINE a == Halves(panels[o].rect, direction)[1]
           b == Halves(panels[o].rect, direction)[2]
           id == MintedId(t, o.kind)
<1>1. o.kind \in Kinds /\ panels[o].rect \in Rect /\ panels[o] \in Panel
  BY DEF AllFit, Fits, PanelId, Panel
<1>2. panels' = Appended([panels EXCEPT ![o].rect = a], id, Shown(b))
  BY DEF SplitPanel
<1>3. a \in Rect /\ b \in Rect
  BY <1>1, HalvesFit DEF SplitPanel
<1>4. \A c : c \in Cells(panels[o].rect) <=> c \in Cells(a) \/ c \in Cells(b)
  BY <1>1, <1>3, HalvesDivide, HalvesCover
<1> HIDE DEF a, b, id
<1>5. /\ DOMAIN panels' = DOMAIN panels \union {id} /\ id # o
      /\ \A x \in DOMAIN panels \ {o} : panels'[x] = panels[x]
      /\ panels'[o].rect = a /\ panels'[id].rect = b
  BY <1>1, <1>2 DEF Appended, Shown, Panel, id
<1>6. \A c : c \in Covered <=> \E x \in DOMAIN panels : c \in Cells(panels[x].rect)
  BY DEF Covered
<1>7. \A c : c \in Covered' <=> \E x \in DOMAIN panels' : c \in Cells(panels'[x].rect)
  BY DEF Covered
<1>8. ASSUME NEW c \in Covered PROVE c \in Covered'
  <2>1. PICK x \in DOMAIN panels : c \in Cells(panels[x].rect)
    BY <1>6, <1>8
  <2>2. CASE x = o
    BY <1>4, <1>5, <1>7, <2>1, <2>2
  <2>3. CASE x # o
    BY <1>5, <1>7, <2>1, <2>3
  <2> QED BY <2>2, <2>3
<1>9. ASSUME NEW c \in Covered' PROVE c \in Covered
  <2>1. PICK x \in DOMAIN panels' : c \in Cells(panels'[x].rect)
    BY <1>7, <1>9
  <2>2. CASE x = o \/ x = id
    BY <1>4, <1>5, <1>6, <2>1, <2>2
  <2>3. CASE x # o /\ x # id
    BY <1>5, <1>6, <2>1, <2>3
  <2> QED BY <2>2, <2>3
<1> QED BY <1>8, <1>9

\* With one tab a split loses no cell, whatever was minted, removed, reset and
\* reloaded before: the id of the new half is never taken (splitPanel,
\* panelIdSeed). With two it may be, and the half is lost.
THEOREM SplitsLoseNothing == ASSUME OneTab PROVE GridSpec => SplitKeepsCells
<1>1. GridInv /\ Ahead =>
        \A t \in Tabs, p \in DOMAIN panels, direction \in {"vertical", "horizontal"} :
          SplitPanel(t, p, direction) => Covered' = Covered
  BY SplitCovers, MintsFreshId DEF GridInv, AllFit, Fits, PanelId
<1>2. GridInv /\ Ahead =>
        [Covered' # Covered =>
           ~\E t \in Tabs, p \in DOMAIN panels, direction \in {"vertical", "horizontal"} :
              SplitPanel(t, p, direction)]_gridVars
  BY <1>1
<1> QED BY <1>2, GridInvInductive, AheadInductive, PTL DEF GridSpec, SplitKeepsCells

=============================================================================
